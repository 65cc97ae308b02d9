---------------------------- MODULE UpdaterProofs ----------------------------
(***************************************************************************)
(* Proofs about Updater for any number of concurrent calls, any images and *)
(* any number of faults.                                                   *)
(***************************************************************************)
EXTENDS Updater, TLAPS

\* A goroutine works towards an image named by a digest: handleUpdate resolves
\* one and handleRollback refuses anything else.
TargetsPinned ==
  \A c \in Calls : call[c].at \in Tasks \cup {"start"} => call[c].target \in Digests

\* What a task has established by the place it has reached.  It lasts because no
\* other task touches the env file or the container meanwhile.
Established ==
  \A c \in Calls :
    /\ call[c].at \in {"up", "check", "save", "finish"} => env = call[c].target
    /\ call[c].at \in {"check", "save", "finish"} => running = call[c].target
    /\ call[c].at \in {"save", "finish"} => running \in Healthy

\* What a task reports at its end rests on what its earlier places established,
\* and on the exclusion of other tasks.
IInv == TypeOK /\ OneTaskAtATime /\ TargetsPinned /\ Established

Record == [at : Tasks \cup {"new", "start", "refused", "ended", "lost"},
           action : {"update", "rollback"},
           target : Images \cup {NoImage}, current : Images \cup {NoImage}]

\* A freshly started agent satisfies the invariant.
LEMMA InitIInv == Init => IInv
  BY UpdaterAssumption
  DEF Init, NewCall, IInv, TypeOK, OneTaskAtATime, TargetsPinned, Established, Running, Tasks, Images

\* Goto in the form the two step lemmas take.
LEMMA GotoRecord ==
  ASSUME IInv, NEW c \in Calls, NEW place, Goto(c, place),
         place \in Tasks \cup {"new", "start", "refused", "ended", "lost"}
  PROVE  \E r \in Record : /\ call' = [call EXCEPT ![c] = r]
                            /\ r.at = place /\ r.target = call[c].target
  <1> DEFINE r == [call[c] EXCEPT !.at = place]
  <1>1. call \in [Calls -> Record] /\ call[c] \in Record
    BY DEF IInv, TypeOK, Record
  <1>2. r \in Record /\ r.at = place /\ r.target = call[c].target
    BY <1>1 DEF Record
  <1>3. call' = [call EXCEPT ![c] = r]
    BY <1>1 DEF Goto
  <1> QED
    BY <1>2, <1>3

\* A step of task c, which stays a task or ends, preserves the exclusion, and
\* nothing changes for the other calls.
LEMMA TaskStep ==
  ASSUME IInv, NEW c \in Calls, call[c].at \in Tasks,
         NEW r \in Record, r.at \in Tasks \cup {"ended"}, r.target = call[c].target,
         call' = [call EXCEPT ![c] = r],
         op' \in {"idle", "running", "succeeded", "failed"},
         r.at # "ended" => op' = op,
         env' \in Images, running' \in Images,
         previous' \in Images \cup {NoImage}, saved' \in Images \cup {NoImage},
         faults' \in 0..MaxFaults,
         r.at \in {"up", "check", "save", "finish"} => env' = call[c].target,
         r.at \in {"check", "save", "finish"} => running' = call[c].target,
         r.at \in {"save", "finish"} => running' \in Healthy
  PROVE  IInv'
  <1>1. call \in [Calls -> Record]
    BY DEF IInv, TypeOK, Record
  <1>2. call'[c] = r /\ call' \in [Calls -> Record]
    BY <1>1
  <1>3. \A d \in Calls : d # c => call'[d] = call[d]
    BY <1>1
  <1>4. \A d \in Calls : d # c => call[d].at \notin Tasks
    BY DEF IInv, OneTaskAtATime, Running
  <1>5. TypeOK'
    BY <1>2 DEF TypeOK, Record
  <1>6. OneTaskAtATime'
    BY <1>2, <1>3, <1>4 DEF OneTaskAtATime, Running, Tasks, IInv
  <1>7. TargetsPinned'
    BY <1>2, <1>3 DEF TargetsPinned, IInv
  <1>8. Established'
    BY <1>2, <1>3, <1>4 DEF Established, Tasks
  <1> QED
    BY <1>5, <1>6, <1>7, <1>8 DEF IInv

\* A call that is not a task and does not become one while another may run.
LEMMA HandlerStep ==
  ASSUME IInv, NEW c \in Calls, call[c].at \in {"new", "start"},
         NEW r \in Record, call' = [call EXCEPT ![c] = r],
         r.at \notin {"up", "check", "save", "finish"},
         r.at \in Tasks \cup {"start"} => r.target \in Digests,
         \/ r.at \notin Tasks /\ op' = op
         \/ op # "running" /\ op' = "running",
         UNCHANGED <<env, saved, running, previous, faults>>
  PROVE  IInv'
  <1>1. call \in [Calls -> Record]
    BY DEF IInv, TypeOK, Record
  <1>2. call'[c] = r /\ call' \in [Calls -> Record]
    BY <1>1
  <1>3. \A d \in Calls : d # c => call'[d] = call[d]
    BY <1>1
  <1>4. TypeOK'
    BY <1>2 DEF TypeOK, Record, IInv
  <1>5. OneTaskAtATime'
    <2>1. CASE r.at \notin Tasks /\ op' = op
      BY <2>1, <1>2, <1>3 DEF OneTaskAtATime, Running, IInv
    <2>2. CASE op # "running" /\ op' = "running"
      <3>1. Running = {}
        BY <2>2 DEF IInv, OneTaskAtATime
      <3> QED BY <2>2, <3>1, <1>2, <1>3 DEF OneTaskAtATime, Running
    <2> QED BY <2>1, <2>2
  <1>6. TargetsPinned'
    BY <1>2, <1>3 DEF TargetsPinned, IInv
  <1>7. Established'
    BY <1>2, <1>3 DEF Established, IInv
  <1> QED
    BY <1>4, <1>5, <1>6, <1>7 DEF IInv

\* u.start in the form of HandlerStep.
LEMMA StartStep ==
  ASSUME IInv, NEW c \in Calls, call[c].at \in {"new", "start"},
         NEW place \in {"pull", "read"}, NEW action \in {"update", "rollback"},
         NEW image \in Digests, start(c, place, action, image),
         UNCHANGED <<env, saved, running, previous, faults>>
  PROVE  IInv'
  <1>1. CASE op = "running"
    <2>1. UNCHANGED op /\ Goto(c, "refused")
      BY <1>1 DEF start
    <2>2. PICK r \in Record : call' = [call EXCEPT ![c] = r] /\ r.at = "refused"
      BY <2>1, GotoRecord
    <2> QED
      BY <2>1, <2>2, HandlerStep DEF Tasks
  <1>2. CASE op # "running"
    <2> DEFINE r == [at |-> place, action |-> action, target |-> image, current |-> NoImage]
    <2>1. op' = "running" /\ call' = [call EXCEPT ![c] = r]
      BY <1>2 DEF start
    <2>2. r \in Record
      BY DEF Record, Tasks, Images
    <2> QED
      BY <1>2, <2>1, <2>2, HandlerStep DEF Tasks
  <1> QED
    BY <1>1, <1>2

\* A step of the goroutine that only moves it to another place, or ends it with
\* finish.
LEMMA MoveStep ==
  ASSUME IInv, NEW c \in Calls, call[c].at \in Tasks,
         NEW place \in Tasks \cup {"ended"}, Goto(c, place),
         op' \in {"idle", "running", "succeeded", "failed"},
         place # "ended" => op' = op,
         env' \in Images, running' \in Images,
         previous' \in Images \cup {NoImage}, saved' \in Images \cup {NoImage},
         faults' = faults \/ Fault,
         place \in {"up", "check", "save", "finish"} => env' = call[c].target,
         place \in {"check", "save", "finish"} => running' = call[c].target,
         place \in {"save", "finish"} => running' \in Healthy
  PROVE  IInv'
  <1>1. PICK r \in Record : /\ call' = [call EXCEPT ![c] = r]
                            /\ r.at = place /\ r.target = call[c].target
    BY GotoRecord
  <1>2. faults' \in 0..MaxFaults
    BY UpdaterAssumption DEF IInv, TypeOK, Fault
  <1> QED
    BY <1>1, <1>2, TaskStep

\* Every handler, every step of a task and every crash preserves the invariant.
LEMMA NextIInv == IInv /\ [Next]_vars => IInv'
  <1> SUFFICES ASSUME IInv, [Next]_vars PROVE IInv'
    OBVIOUS
  <1> USE DEF files, finish
  <1>t. /\ env \in Images /\ running \in Images
        /\ previous \in Images \cup {NoImage} /\ saved \in Images \cup {NoImage}
        /\ op \in {"idle", "running", "succeeded", "failed"}
        /\ faults \in 0..MaxFaults
        /\ call \in [Calls -> Record]
    BY DEF IInv, TypeOK, Record
  <1>1. ASSUME NEW c \in Calls, NEW d \in Digests, HandleUpdate(c, d) PROVE IInv'
    BY <1>1, StartStep DEF HandleUpdate
  <1>2. ASSUME NEW c \in Calls, ReadPrevious(c) PROVE IInv'
    <2> DEFINE r == [call[c] EXCEPT !.at = IF previous \in Digests THEN "start" ELSE "refused",
                                    !.target = previous]
    <2>1. r \in Record /\ r.target = previous
          /\ r.at = IF previous \in Digests THEN "start" ELSE "refused"
      BY <1>t DEF Record
    <2>2. call' = [call EXCEPT ![c] = r]
      BY <1>2, <1>t DEF ReadPrevious, Record
    <2>3. /\ call[c].at = "new" /\ UNCHANGED <<env, saved, running, op, previous, faults>>
          /\ r.at \notin Tasks /\ (r.at = "start" => r.target \in Digests)
      BY <1>2, <2>1 DEF ReadPrevious, Tasks
    <2> HIDE DEF r
    <2> QED
      BY <2>1, <2>2, <2>3, HandlerStep DEF Tasks
  <1>3. ASSUME NEW c \in Calls, StartRollback(c) PROVE IInv'
    <2>1. call[c].target \in Digests
      BY <1>3 DEF StartRollback, IInv, TargetsPinned
    <2> QED
      BY <1>3, <2>1, StartStep DEF StartRollback
  <1>4. ASSUME NEW c \in Calls, Pull(c) PROVE IInv'
    BY <1>4, <1>t, MoveStep DEF Pull, Tasks
  <1>5. ASSUME NEW c \in Calls, ReadImage(c) PROVE IInv'
    <2>1. CASE finish(c, "succeeded") /\ UNCHANGED faults
      BY <1>5, <1>t, <2>1, MoveStep DEF ReadImage, Tasks
    <2>2. CASE finish(c, "failed") /\ Fault
      BY <1>5, <1>t, <2>2, MoveStep DEF ReadImage, Tasks
    <2>3. CASE /\ call' = [call EXCEPT ![c].at = "write", ![c].current = env]
               /\ UNCHANGED <<op, faults>>
      <3> DEFINE r == [call[c] EXCEPT !.at = "write", !.current = env]
      <3>1. r \in Record /\ r.at = "write" /\ r.target = call[c].target
        BY <1>t DEF Record, Tasks
      <3>2. call' = [call EXCEPT ![c] = r]
        BY <2>3, <1>t DEF Record
      <3> QED
        BY <1>5, <1>t, <2>3, <3>1, <3>2, TaskStep DEF ReadImage, Tasks
    <2> QED
      BY <1>5, <2>1, <2>2, <2>3 DEF ReadImage
  <1>6. ASSUME NEW c \in Calls, WriteImage(c) PROVE IInv'
    <2>1. call[c].target \in Images
      BY <1>6 DEF WriteImage, IInv, TargetsPinned, Tasks, Images
    <2> QED
      BY <1>6, <1>t, <2>1, MoveStep DEF WriteImage, Tasks
  <1>7. ASSUME NEW c \in Calls, Up(c) PROVE IInv'
    <2>1. env = call[c].target
      BY <1>7 DEF Up, IInv, Established
    <2> QED
      BY <1>7, <1>t, <2>1, MoveStep DEF Up, Tasks
  <1>8. ASSUME NEW c \in Calls, CheckHealth(c) PROVE IInv'
    <2>1. env = call[c].target /\ running = call[c].target
      BY <1>8 DEF CheckHealth, IInv, Established
    <2> QED
      BY <1>8, <1>t, <2>1, MoveStep DEF CheckHealth, Tasks
  <1>9. ASSUME NEW c \in Calls, Restore(c) PROVE IInv'
    <2>1. Digests \subseteq Images
      BY DEF Images
    <2> QED
      BY <1>9, <1>t, <2>1, MoveStep DEF Restore, Tasks
  <1>10. ASSUME NEW c \in Calls, RestoreUp(c) PROVE IInv'
    BY <1>10, <1>t, MoveStep DEF RestoreUp, Tasks
  <1>11. ASSUME NEW c \in Calls, RestoreCheck(c) PROVE IInv'
    BY <1>11, <1>t, MoveStep DEF RestoreCheck, Tasks
  <1>12. ASSUME NEW c \in Calls, SaveState(c) PROVE IInv'
    <2>1. /\ env = call[c].target /\ running = call[c].target /\ running \in Healthy
          /\ call[c].current \in Images \cup {NoImage}
      BY <1>12, <1>t DEF SaveState, IInv, Established, Record
    <2> QED
      BY <1>12, <1>t, <2>1, MoveStep DEF SaveState, Tasks
  <1>13. ASSUME NEW c \in Calls, Finish(c) PROVE IInv'
    BY <1>13, <1>t, MoveStep DEF Finish, Tasks
  <1>14. ASSUME Crash PROVE IInv'
    <2>1. \A c \in Calls : call'[c] = IF call[c].at \in Tasks \cup {"start"}
                                     THEN [call[c] EXCEPT !.at = "lost"] ELSE call[c]
      BY <1>14 DEF Crash
    <2>2. \A c \in Calls : /\ call'[c] \in Record
                            /\ call'[c].at \notin Tasks \cup {"start"}
      BY <1>t, <2>1 DEF Record, Tasks
    <2>3. call' \in [Calls -> Record]
      BY <1>14, <2>2 DEF Crash
    <2>4. faults' \in 0..MaxFaults
      BY <1>14, UpdaterAssumption DEF Crash, Fault, IInv, TypeOK
    <2>5. TypeOK'
      BY <1>14, <1>t, <2>3, <2>4 DEF Crash, TypeOK, Record
    <2> QED
      BY <2>2, <2>5 DEF IInv, OneTaskAtATime, Running, TargetsPinned, Established, Tasks
  <1>15. ASSUME UNCHANGED vars PROVE IInv'
    BY <1>15 DEF vars, IInv, TypeOK, OneTaskAtATime, Running, TargetsPinned, Established
  <1> QED
    BY <1>1, <1>2, <1>3, <1>4, <1>5, <1>6, <1>7, <1>8, <1>9, <1>10, <1>11, <1>12, <1>13,
       <1>14, <1>15 DEF Next, Task

\* The inductive invariant holds of the agent.
THEOREM InvariantHolds == SafetySpec => []IInv
  BY InitIInv, NextIInv, PTL DEF SafetySpec

\* Type correctness of the agent's state.
THEOREM TypeCorrect == SafetySpec => []TypeOK
  BY InvariantHolds, PTL DEF IInv

\* Updates and rollbacks exclude each other (u.start and u.finish), however many
\* calls there are and wherever the agent crashes.
THEOREM TasksExclude == SafetySpec => []OneTaskAtATime
  BY InvariantHolds, PTL DEF IInv
-----------------------------------------------------------------------------
(* What an agent without faults leaves behind.                             *)

\* The first steps of a task find the container healthy and named by the env
\* file; the image read then is what a failed health check restores, step by
\* step, and what a success offers for rollback.
CallHealthy(r) ==
  /\ r.at = "start" => r.target \in Healthy
  /\ r.at \in {"pull", "read", "write"} => env = running /\ running \in Healthy
  /\ r.at \in Tasks \ {"pull", "read"} => r.current \in Healthy /\ r.current \in Digests
  /\ r.at \in {"restoreUp", "restoreCheck"} => env = r.current
  /\ r.at = "restoreCheck" => running = r.current

StateHealthy ==
  /\ env \in Digests
  /\ previous \in Healthy \cup {NoImage}
  /\ Running = {} => env = running /\ running \in Healthy
  /\ \A c \in Calls : CallHealthy(call[c])

HealthInv == Initial \in Digests /\ faults = 0 => StateHealthy

\* An agent started on a pinned healthy image.
LEMMA InitHealth == Init => HealthInv
  <1> SUFFICES ASSUME Init, Initial \in Digests PROVE StateHealthy
    BY DEF HealthInv
  <1>1. \A c \in Calls : call[c] = NewCall
    BY DEF Init
  <1>2. NewCall.at = "new"
    BY DEF NewCall
  <1>3. \A c \in Calls : CallHealthy(call[c])
    BY <1>1, <1>2 DEF CallHealthy, Tasks
  <1> QED
    BY <1>3, UpdaterAssumption DEF StateHealthy, Init

\* A step of task c without a fault.
LEMMA TaskHealth ==
  ASSUME IInv, StateHealthy, NEW c \in Calls, call[c].at \in Tasks,
         NEW r \in Record, r.at \in Tasks \cup {"ended"}, call' = [call EXCEPT ![c] = r],
         CallHealthy(r)',
         env' \in Digests, previous' \in Healthy \cup {NoImage},
         r.at = "ended" => env' = running' /\ running' \in Healthy
  PROVE  StateHealthy'
  <1>1. call \in [Calls -> Record]
    BY DEF IInv, TypeOK, Record
  <1>2. call'[c] = r /\ \A d \in Calls : d # c => call'[d] = call[d]
    BY <1>1
  <1>3. \A d \in Calls : d # c => call[d].at \notin Tasks
    BY DEF IInv, OneTaskAtATime, Running
  <1>4. \A d \in Calls : CallHealthy(call[d])'
    <2> TAKE d \in Calls
    <2>1. CASE d = c
      BY <1>2, <2>1 DEF CallHealthy
    <2>2. CASE d # c
      BY <1>2, <1>3, <2>2 DEF CallHealthy, StateHealthy, Tasks
    <2> QED BY <2>1, <2>2
  <1>5. Running' = {} => r.at = "ended"
    BY <1>2 DEF Running
  <1> QED
    BY <1>4, <1>5 DEF StateHealthy

\* A call that is no task, and becomes one only when there is none.
LEMMA HandlerHealth ==
  ASSUME IInv, StateHealthy, NEW c \in Calls, call[c].at \in {"new", "start"},
         NEW r \in Record, call' = [call EXCEPT ![c] = r], CallHealthy(r),
         UNCHANGED <<env, running, previous>>
  PROVE  StateHealthy'
  <1>1. call \in [Calls -> Record]
    BY DEF IInv, TypeOK, Record
  <1>2. call'[c] = r /\ \A d \in Calls : d # c => call'[d] = call[d]
    BY <1>1
  <1>3. \A d \in Calls : CallHealthy(call[d])'
    <2> TAKE d \in Calls
    <2>1. CASE d = c
      BY <1>2, <2>1 DEF CallHealthy
    <2>2. CASE d # c
      BY <1>2, <2>2 DEF CallHealthy, StateHealthy
    <2> QED BY <2>1, <2>2
  <1>4. Running' = {} => Running = {}
    BY <1>2 DEF Running, Tasks
  <1> QED
    BY <1>3, <1>4 DEF StateHealthy

\* A step of the goroutine by Goto.
LEMMA MoveHealth ==
  ASSUME IInv, StateHealthy, NEW c \in Calls, call[c].at \in Tasks,
         NEW place \in Tasks \cup {"ended"}, Goto(c, place),
         place \in {"pull", "read", "write"} => env' = running' /\ running' \in Healthy,
         place \in Tasks \ {"pull", "read"} =>
           call[c].current \in Healthy /\ call[c].current \in Digests,
         place \in {"restoreUp", "restoreCheck"} => env' = call[c].current,
         place = "restoreCheck" => running' = call[c].current,
         place = "ended" => env' = running' /\ running' \in Healthy,
         env' \in Digests, previous' \in Healthy \cup {NoImage}
  PROVE  StateHealthy'
  <1>1. call \in [Calls -> Record] /\ call[c] \in Record
    BY DEF IInv, TypeOK, Record
  <1>2. PICK r \in Record : /\ call' = [call EXCEPT ![c] = r]
                            /\ r.at = place /\ r.current = call[c].current
    <2> DEFINE q == [call[c] EXCEPT !.at = place]
    <2>1. q \in Record /\ q.at = place /\ q.current = call[c].current
      BY <1>1 DEF Record
    <2>2. call' = [call EXCEPT ![c] = q]
      BY <1>1 DEF Goto
    <2> QED BY <2>1, <2>2
  <1>3. CallHealthy(r)'
    BY <1>2 DEF CallHealthy, Tasks
  <1> QED
    BY <1>2, <1>3, TaskHealth

\* u.start, when the caller's image is one it may start with.
LEMMA StartHealth ==
  ASSUME IInv, StateHealthy, NEW c \in Calls, call[c].at \in {"new", "start"},
         NEW place \in {"pull", "read"}, NEW action \in {"update", "rollback"},
         NEW image \in Digests, start(c, place, action, image),
         UNCHANGED <<env, running, previous>>
  PROVE  StateHealthy'
  <1>1. CASE op = "running"
    <2>1. Goto(c, "refused")
      BY <1>1 DEF start
    <2>2. PICK r \in Record : call' = [call EXCEPT ![c] = r] /\ r.at = "refused"
      BY <2>1, GotoRecord
    <2>3. CallHealthy(r)
      BY <2>2 DEF CallHealthy, Tasks
    <2> QED
      BY <2>2, <2>3, HandlerHealth
  <1>2. CASE op # "running"
    <2>1. Running = {}
      BY <1>2 DEF IInv, OneTaskAtATime
    <2>2. PICK r \in Record : call' = [call EXCEPT ![c] = r] /\ r.at = place
      <3> DEFINE q == [at |-> place, action |-> action, target |-> image, current |-> NoImage]
      <3>1. q \in Record /\ q.at = place
        BY DEF Record, Tasks, Images
      <3>2. call' = [call EXCEPT ![c] = q]
        BY <1>2 DEF start
      <3> QED BY <3>1, <3>2
    <2>3. CallHealthy(r)
      BY <2>1, <2>2 DEF CallHealthy, StateHealthy
    <2> QED
      BY <2>2, <2>3, HandlerHealth
  <1> QED
    BY <1>1, <1>2

\* Without faults every step keeps the container recoverable.
LEMMA NextHealth == IInv /\ HealthInv /\ [Next]_vars => HealthInv'
  <1> SUFFICES ASSUME IInv, HealthInv, [Next]_vars, Initial \in Digests, faults' = 0
               PROVE  StateHealthy'
    BY DEF HealthInv
  <1> USE DEF files, finish
  <1>f. faults \in Nat
    BY DEF IInv, TypeOK
  <1>n. ~Fault
    BY <1>f DEF Fault
  <1>z. faults = 0 \/ Fault
    BY DEF Next, Task, HandleUpdate, ReadPrevious, StartRollback, Pull, ReadImage, WriteImage, Up,
           CheckHealth, Restore, RestoreUp, RestoreCheck, SaveState, Finish, Crash, vars
  <1>s. StateHealthy
    BY <1>n, <1>z DEF HealthInv
  <1>t. /\ env \in Digests /\ previous \in Healthy \cup {NoImage}
        /\ \A c \in Calls : CallHealthy(call[c])
        /\ call \in [Calls -> Record]
    BY <1>s DEF StateHealthy, IInv, TypeOK, Record
  <1>1. ASSUME NEW c \in Calls, NEW d \in Digests, HandleUpdate(c, d) PROVE StateHealthy'
    BY <1>1, <1>s, StartHealth DEF HandleUpdate
  <1>2. ASSUME NEW c \in Calls, ReadPrevious(c) PROVE StateHealthy'
    <2>1. PICK r \in Record :
            /\ call' = [call EXCEPT ![c] = r] /\ r.target = previous
            /\ r.at = IF previous \in Digests THEN "start" ELSE "refused"
      <3> DEFINE q == [call[c] EXCEPT !.at = IF previous \in Digests THEN "start" ELSE "refused",
                                      !.target = previous]
      <3>1. /\ q \in Record /\ q.target = previous
            /\ q.at = IF previous \in Digests THEN "start" ELSE "refused"
        BY <1>t DEF Record, IInv, TypeOK
      <3>2. call' = [call EXCEPT ![c] = q]
        BY <1>2, <1>t DEF ReadPrevious, Record
      <3> QED BY <3>1, <3>2
    <2>2. previous \in Digests => previous \in Healthy
      BY <1>t, UpdaterAssumption
    <2>3. CallHealthy(r)
      BY <2>1, <2>2 DEF CallHealthy, Tasks
    <2>4. call[c].at = "new" /\ UNCHANGED <<env, running, previous>>
      BY <1>2 DEF ReadPrevious
    <2> QED
      BY <1>s, <2>1, <2>3, <2>4, HandlerHealth
  <1>3. ASSUME NEW c \in Calls, StartRollback(c) PROVE StateHealthy'
    <2>1. call[c].target \in Digests
      BY <1>3 DEF StartRollback, IInv, TargetsPinned
    <2> QED
      BY <1>3, <1>s, <2>1, StartHealth DEF StartRollback
  <1>4. ASSUME NEW c \in Calls, Pull(c) PROVE StateHealthy'
    <2>1. Goto(c, "read") /\ call[c].at = "pull" /\ UNCHANGED <<env, running, previous>>
      BY <1>4, <1>n DEF Pull
    <2>2. env = running /\ running \in Healthy
      BY <1>t, <2>1 DEF CallHealthy
    <2> QED
      BY <1>s, <1>t, <2>1, <2>2, MoveHealth DEF Tasks
  <1>5. ASSUME NEW c \in Calls, ReadImage(c) PROVE StateHealthy'
    <2>1. call[c].at = "read" /\ UNCHANGED <<env, running, previous>>
      BY <1>5 DEF ReadImage
    <2>2. env = running /\ running \in Healthy
      BY <1>t, <2>1 DEF CallHealthy
    <2>3. CASE Goto(c, "ended")
      BY <1>s, <1>t, <2>1, <2>2, <2>3, MoveHealth DEF Tasks
    <2>4. CASE call' = [call EXCEPT ![c].at = "write", ![c].current = env]
      <3>1. PICK r \in Record :
              call' = [call EXCEPT ![c] = r] /\ r.at = "write" /\ r.current = env
        <4> DEFINE q == [call[c] EXCEPT !.at = "write", !.current = env]
        <4>1. q \in Record /\ q.at = "write" /\ q.current = env
          BY <1>t DEF Record, Tasks, Images
        <4>2. call' = [call EXCEPT ![c] = q]
          BY <1>t, <2>4 DEF Record
        <4> QED BY <4>1, <4>2
      <3>2. CallHealthy(r)'
        BY <1>t, <2>1, <2>2, <3>1 DEF CallHealthy
      <3> QED
        BY <1>s, <1>t, <2>1, <3>1, <3>2, TaskHealth DEF Tasks
    <2> QED
      BY <1>5, <1>n, <2>3, <2>4 DEF ReadImage
  <1>6. ASSUME NEW c \in Calls, WriteImage(c) PROVE StateHealthy'
    <2>1. /\ Goto(c, "up") /\ call[c].at = "write" /\ env' = call[c].target
          /\ UNCHANGED <<running, previous>>
      BY <1>6, <1>n DEF WriteImage
    <2>2. call[c].current \in Healthy /\ call[c].current \in Digests
      BY <1>t, <2>1 DEF CallHealthy, Tasks
    <2>3. call[c].target \in Digests
      BY <2>1 DEF IInv, TargetsPinned, Tasks
    <2> QED
      BY <1>s, <1>t, <2>1, <2>2, <2>3, MoveHealth DEF Tasks
  <1>7. ASSUME NEW c \in Calls, Up(c) PROVE StateHealthy'
    <2>1. Goto(c, "check") /\ call[c].at = "up" /\ UNCHANGED <<env, previous>>
      BY <1>7, <1>n DEF Up
    <2>2. call[c].current \in Healthy /\ call[c].current \in Digests
      BY <1>t, <2>1 DEF CallHealthy, Tasks
    <2> QED
      BY <1>s, <1>t, <2>1, <2>2, MoveHealth DEF Tasks
  <1>8. ASSUME NEW c \in Calls, CheckHealth(c) PROVE StateHealthy'
    <2>1. PICK place \in {"save", "restore"} : Goto(c, place)
      BY <1>8 DEF CheckHealth
    <2>2. call[c].at = "check" /\ UNCHANGED <<env, running, previous>>
      BY <1>8 DEF CheckHealth
    <2>3. call[c].current \in Healthy /\ call[c].current \in Digests
      BY <1>t, <2>2 DEF CallHealthy, Tasks
    <2> QED
      BY <1>s, <1>t, <2>1, <2>2, <2>3, MoveHealth DEF Tasks
  <1>9. ASSUME NEW c \in Calls, Restore(c) PROVE StateHealthy'
    <2>1. call[c].at = "restore" /\ UNCHANGED <<running, previous>>
      BY <1>9 DEF Restore
    <2>2. call[c].current \in Healthy /\ call[c].current \in Digests
      BY <1>t, <2>1 DEF CallHealthy, Tasks
    <2>3. Goto(c, "restoreUp") /\ env' = call[c].current
      BY <1>9, <1>n, <2>2 DEF Restore
    <2> QED
      BY <1>s, <1>t, <2>1, <2>2, <2>3, MoveHealth DEF Tasks
  <1>10. ASSUME NEW c \in Calls, RestoreUp(c) PROVE StateHealthy'
    <2>1. /\ Goto(c, "restoreCheck") /\ call[c].at = "restoreUp" /\ running' = env
          /\ UNCHANGED <<env, previous>>
      BY <1>10, <1>n DEF RestoreUp
    <2>2. call[c].current \in Healthy /\ call[c].current \in Digests /\ env = call[c].current
      BY <1>t, <2>1 DEF CallHealthy, Tasks
    <2> QED
      BY <1>s, <1>t, <2>1, <2>2, MoveHealth DEF Tasks
  <1>11. ASSUME NEW c \in Calls, RestoreCheck(c) PROVE StateHealthy'
    <2>1. Goto(c, "ended") /\ call[c].at = "restoreCheck" /\ UNCHANGED <<env, running, previous>>
      BY <1>11 DEF RestoreCheck
    <2>2. env = running /\ running \in Healthy
      BY <1>t, <2>1 DEF CallHealthy, Tasks
    <2> QED
      BY <1>s, <1>t, <2>1, <2>2, MoveHealth DEF Tasks
  <1>12. ASSUME NEW c \in Calls, SaveState(c) PROVE StateHealthy'
    <2>1. /\ Goto(c, "finish") /\ call[c].at = "save" /\ previous' = call[c].current
          /\ UNCHANGED <<env, running>>
      BY <1>12 DEF SaveState
    <2>2. call[c].current \in Healthy /\ call[c].current \in Digests
      BY <1>t, <2>1 DEF CallHealthy, Tasks
    <2> QED
      BY <1>s, <1>t, <2>1, <2>2, MoveHealth DEF Tasks
  <1>13. ASSUME NEW c \in Calls, Finish(c) PROVE StateHealthy'
    <2>1. Goto(c, "ended") /\ call[c].at = "finish" /\ UNCHANGED <<env, running, previous>>
      BY <1>13 DEF Finish
    <2>2. env = running /\ running \in Healthy
      BY <2>1 DEF IInv, Established
    <2> QED
      BY <1>s, <1>t, <2>1, <2>2, MoveHealth DEF Tasks
  <1>14. ASSUME Crash PROVE FALSE
    BY <1>14, <1>n DEF Crash
  <1>15. ASSUME UNCHANGED vars PROVE StateHealthy'
    BY <1>15, <1>s DEF vars, StateHealthy, CallHealthy, Running
  <1> QED
    BY <1>1, <1>2, <1>3, <1>4, <1>5, <1>6, <1>7, <1>8, <1>9, <1>10, <1>11, <1>12, <1>13,
       <1>14, <1>15 DEF Next, Task

\* The invariant about an agent without faults.
LEMMA HealthHolds == SafetySpec => []HealthInv
  BY InitHealth, NextHealth, InvariantHolds, PTL DEF SafetySpec

\* As long as nothing fails but unhealthy images, the agent leaves a healthy
\* container behind that matches the env file, and offers a rollback only to an
\* image that has been healthy (recreateAndCheck, saveStateLocked), for any
\* number of overlapping calls.
THEOREM HealthyBehind == SafetySpec => []LeavesHealthyContainer
  <1>1. HealthInv => LeavesHealthyContainer
    BY DEF HealthInv, StateHealthy, CallHealthy, LeavesHealthyContainer
  <1> QED
    BY <1>1, HealthHolds, PTL

\* Only two steps report success: the end of a task that has verified the
\* container, and the early end of an update the env file already names.
LEMMA WhoReports ==
  ASSUME IInv, [Next]_vars, NEW c \in Calls, ReportsSuccess(c)
  PROVE  \/ call[c].at = "finish"
         \/ call[c].at = "read" /\ env = call[c].target
  <1> USE DEF ReportsSuccess
  <1>t. call \in [Calls -> Record]
    BY DEF IInv, TypeOK, Record
  <1>1. ASSUME NEW d \in Calls, NEW i \in Digests, HandleUpdate(d, i) PROVE FALSE
    <2>1. call'[c].at \in {"pull", "refused"} \/ call'[c] = call[c]
      BY <1>1, <1>t DEF HandleUpdate, start, Goto, Record
    <2> QED BY <2>1 DEF Tasks
  <1>2. ASSUME NEW d \in Calls, ReadPrevious(d) PROVE FALSE
    <2>1. call'[c].at \in {"start", "refused"} \/ call'[c] = call[c]
      BY <1>2, <1>t DEF ReadPrevious, Record
    <2> QED BY <2>1 DEF Tasks
  <1>3. ASSUME NEW d \in Calls, StartRollback(d) PROVE FALSE
    <2>1. call'[c].at \in {"read", "refused"} \/ call'[c] = call[c]
      BY <1>3, <1>t DEF StartRollback, start, Goto, Record
    <2> QED BY <2>1 DEF Tasks
  <1>4. ASSUME NEW d \in Calls, Task(d) PROVE d = c
    <2>1. d # c => call'[c] = call[c]
      BY <1>4, <1>t DEF Task, Pull, ReadImage, WriteImage, Up, CheckHealth, Restore, RestoreUp,
                        RestoreCheck, SaveState, Finish, Goto, finish
    <2> QED BY <2>1 DEF Tasks
  <1>5. ASSUME Task(c) PROVE \/ call[c].at = "finish"
                             \/ call[c].at = "read" /\ env = call[c].target
    <2> USE <1>t DEF Record, finish, Goto
    <2>1. ~(Pull(c) \/ WriteImage(c) \/ Up(c) \/ CheckHealth(c))
      BY DEF Pull, WriteImage, Up, CheckHealth
    <2>2. ~(Restore(c) \/ RestoreUp(c) \/ RestoreCheck(c) \/ SaveState(c))
      BY DEF Restore, RestoreUp, RestoreCheck, SaveState
    <2>3. CASE ReadImage(c)
      BY <2>3 DEF ReadImage
    <2>4. CASE Finish(c)
      BY <2>4 DEF Finish
    <2> QED BY <1>5, <2>1, <2>2, <2>3, <2>4 DEF Task
  <1>6. ~Crash
    BY <1>t DEF Crash
  <1>7. ~UNCHANGED vars
    BY DEF vars, Tasks
  <1> QED
    BY <1>1, <1>2, <1>3, <1>4, <1>5, <1>6, <1>7 DEF Next

\* Success is reported only of the image that was asked for, named by the env
\* file, running and able to become healthy, for any number of calls, crashes
\* and failures; the shortcut of an update the env file already names
\* (current == digest) reports it wrongly only after a fault or on an
\* installation that started from a tag.
THEOREM SuccessReportsReal == SafetySpec => SuccessIsReal
  <1> DEFINE Real == \A c \in Calls : ReportsSuccess(c) =>
               /\ env = call[c].target
               /\ \/ running = call[c].target /\ running \in Healthy
                  \/ call[c].at = "read" /\ (faults > 0 \/ Initial \notin Digests)
  <1>1. IInv /\ HealthInv /\ [Next]_vars => Real
    <2> SUFFICES ASSUME IInv, HealthInv, [Next]_vars, NEW c \in Calls, ReportsSuccess(c)
                 PROVE  /\ env = call[c].target
                        /\ \/ running = call[c].target /\ running \in Healthy
                           \/ call[c].at = "read" /\ (faults > 0 \/ Initial \notin Digests)
      OBVIOUS
    <2>1. CASE call[c].at = "finish"
      BY <2>1 DEF IInv, Established
    <2>2. CASE call[c].at = "read" /\ env = call[c].target
      <3>1. faults \in Nat
        BY DEF IInv, TypeOK
      <3>2. CASE faults > 0 \/ Initial \notin Digests
        BY <2>2, <3>2
      <3>3. CASE faults = 0 /\ Initial \in Digests
        BY <2>2, <3>3 DEF HealthInv, StateHealthy, CallHealthy
      <3> QED BY <3>1, <3>2, <3>3
    <2> QED BY <2>1, <2>2, WhoReports
  <1> QED
    BY <1>1, InvariantHolds, HealthHolds, PTL DEF SafetySpec, SuccessIsReal
=============================================================================
