-------------------------- MODULE JobRuntimeProofs --------------------------
(***************************************************************************)
(* The daemon keeps its promises about jobs, for any number of jobs,       *)
(* workers, projects and scopes, any dependencies and any number of        *)
(* retries and crashes.  The argument has three layers: the handlers use   *)
(* the scheduler only as SchedSpec allows, so its theorems hold here too;  *)
(* the records agree with the dispatches (RInv); and with that agreement   *)
(* every step of the daemon is a step of the ledger.                       *)
(***************************************************************************)
EXTENDS JobRuntime, SchedulerProofs

-----------------------------------------------------------------------------
(* The handlers as callers of the scheduler.  is_ready answers for every   *)
(* job here, and the jobs to release need not have a dispatch; SchedSpec   *)
(* knows only the answers about pending jobs and the live dispatches.      *)

LEMMA ReadyAmongPending ==
  ASSUME NEW P, NEW q, \A j \in P : q[j] \subseteq P,
         NEW B, NEW rq, NEW R, NEW T, P \subseteq T, Schedule(P, q, B, rq, R)
  PROVE  Schedule(P, q, B, rq, R \cap T)
<1>1. ASSUME NEW A \in SUBSET P, Admitted(A, P, q, B, R)
      PROVE  Admitted(A, P, q, B, R \cap T)
  <2> SUFFICES ASSUME NEW j \in P
               PROVE  j \in A <=> /\ j \in R \cap T
                                  /\ Reader(j) => ~BehindBarrier(j, q[j], R \cap T)
                                  /\ Fits(j, B \cup (A \cap q[j]))
    BY DEF Admitted
  <2>1. j \in R <=> j \in R \cap T
    OBVIOUS
  <2>2. BehindBarrier(j, q[j], R) <=> BehindBarrier(j, q[j], R \cap T)
    BY DEF BehindBarrier
  <2> QED
    BY <1>1, <2>1, <2>2 DEF Admitted
<1> QED
  BY <1>1 DEF Schedule

LEMMA ReleaseReady ==
  ASSUME IInv, NEW S, NEW quiet, NEW rq, NEW R, Release(S, quiet, rq, R)
  PROVE  Release(S \cap current, quiet, rq, R \cap pending)
<1> DEFINE C == S \cap current
           P == pending \ C
           q == [j \in Jobs |-> ahead[j] \ C]
<1>1. \A j \in P : q[j] \subseteq P
  BY DEF IInv, SchedTypeOK, InOrder
<1>2. Schedule(P, q, active \ C, rq, R)
  BY DEF Release
<1>3. P \subseteq pending
  OBVIOUS
<1> HIDE DEF P, q
<1>4. Schedule(P, q, active \ C, rq, R \cap pending)
  BY <1>1, <1>2, <1>3, ReadyAmongPending
<1>5. C = C \cap current
  OBVIOUS
<1> QED
  BY <1>4, <1>5 DEF Release, P, q

LEMMA StartCalls ==
  ASSUME IInv, NEW Q \in SUBSET Jobs, NEW R, Start(Q, R)
  PROVE  SchedNext
<1> DEFINE q == [j \in Jobs |-> {i \in Q : i < j}]
<1>1. \A j \in Q : q[j] \subseteq Q
  OBVIOUS
<1>2. Schedule(Q, q, {}, {}, R)
  BY DEF Start
<1> HIDE DEF q
<1>3. Schedule(Q, q, {}, {}, R \cap Q)
  BY <1>1, <1>2, ReadyAmongPending
<1>4. Start(Q, R \cap Q)
  BY <1>3 DEF Start, q
<1> QED
  BY <1>4 DEF SchedNext, Callers

LEMMA EnqueueCalls ==
  ASSUME IInv, NEW j \in Jobs, NEW R, Enqueue(j, R)
  PROVE  SchedNext
<1> DEFINE P == pending \cup {j}
           q == [ahead EXCEPT ![j] = pending]
<1>1. Enqueue(j, R \cap P)
  <2>1. CASE j \in current
    BY <2>1 DEF Enqueue
  <2>2. CASE j \notin current
    <3>1. \A i \in P : q[i] \subseteq P
      BY DEF IInv, SchedTypeOK, InOrder
    <3>2. Schedule(P, q, active, readyq, R)
      BY <2>2 DEF Enqueue
    <3> HIDE DEF P, q
    <3>3. Schedule(P, q, active, readyq, R \cap P)
      BY <3>1, <3>2, ReadyAmongPending
    <3> QED
      BY <2>2, <3>3 DEF Enqueue, P, q
  <2> QED
    BY <2>1, <2>2
<1> QED
  BY <1>1 DEF SchedNext, Callers

LEMMA ReleaseCalls ==
  ASSUME IInv, NEW S, NEW quiet, \A j \in quiet \cap S : Started(j),
         quiet \subseteq S \cap current, NEW R, ReleaseJobs(S, quiet, R)
  PROVE  SchedNext
<1>1. ReleaseJobs(S \cap current, quiet, R \cap pending)
  BY ReleaseReady DEF ReleaseJobs
<1>2. quiet \in SUBSET {j \in S \cap current : Started(j)}
  OBVIOUS
<1> QED
  BY <1>1, <1>2 DEF SchedNext, Callers

LEMMA WorkerCalls ==
  ASSUME IInv, NEW w \in Workers, NEW R,
         \/ \E d \in readyq : TakeAndReturn(w, d, R)
         \/ WorkerReturn(w, R)
  PROVE  SchedNext
<1>1. CASE \E d \in readyq : TakeAndReturn(w, d, R)
  <2>1. PICK d \in readyq : TakeAndReturn(w, d, R)
    BY <1>1
  <2>2. Release({d[1]}, {}, readyq \ {d}, R) /\ d[1] \in current
    BY <2>1 DEF TakeAndReturn, IsLive
  <2>3. {d[1]} \cap current = {d[1]}
    BY <2>2
  <2>4. Release({d[1]}, {}, readyq \ {d}, R \cap pending)
    BY <2>2, <2>3, ReleaseReady
  <2>5. TakeAndReturn(w, d, R \cap pending)
    BY <2>1, <2>4 DEF TakeAndReturn
  <2> QED
    BY <2>5 DEF SchedNext, WorkerSteps
<1>2. CASE WorkerReturn(w, R)
  <2>1. WorkerReturn(w, R \cap pending)
    <3> DEFINE d == worker[w]
    <3>1. CASE IsLive(d)
      <4>1. {d[1]} \cap current = {d[1]}
        BY <3>1 DEF IsLive
      <4>2. Release({d[1]}, {}, readyq, R)
        BY <1>2, <3>1 DEF WorkerReturn
      <4>3. Release({d[1]}, {}, readyq, R \cap pending)
        BY <4>1, <4>2, ReleaseReady
      <4> QED
        BY <1>2, <3>1, <4>3 DEF WorkerReturn
    <3>2. CASE ~IsLive(d)
      <4>1. \A j \in pending : ahead[j] \subseteq pending
        BY DEF IInv, InOrder
      <4>2. Schedule(pending, ahead, active, readyq, R)
        BY <1>2, <3>2 DEF WorkerReturn
      <4>3. Schedule(pending, ahead, active, readyq, R \cap pending)
        BY <4>1, <4>2, ReadyAmongPending
      <4> QED
        BY <1>2, <3>2, <4>3 DEF WorkerReturn
    <3> QED
      BY <3>1, <3>2
  <2> QED
    BY <2>1 DEF SchedNext, WorkerSteps
<1> QED
  BY <1>1, <1>2

(* Every step of the daemon is a step of the scheduler under some callers. *)
LEMMA StepCalls ==
  ASSUME IInv, [Next]_vars
  PROVE  [SchedNext]_schedVars
<1>1. ASSUME NEW j \in Jobs, Submit(j) PROVE [SchedNext]_schedVars
  BY <1>1, EnqueueCalls DEF Submit
<1>2. ASSUME NEW j \in Jobs, CancelQueued(j) PROVE SchedNext
  <2>1. PICK C \in SUBSET Jobs : ReleaseJobs({j} \cup C, {}, Ready(state'))
    BY <1>2 DEF CancelQueued
  <2> QED
    BY <2>1, ReleaseCalls
<1>3. ASSUME NEW j \in Jobs, CancelRunning(j) PROVE SchedNext
  BY <1>3 DEF CancelRunning, RequestCancel, SchedNext, Callers
<1>4. ASSUME NEW j \in Jobs, Retry(j) PROVE SchedNext
  BY <1>4, EnqueueCalls DEF Retry
<1>5. ASSUME NEW w \in Workers, Worker(w) PROVE SchedNext
  <2>1. ASSUME NEW d \in readyq, RunStart(w, d) \/ DropReleased(w, d)
        PROVE  SchedNext
    BY <2>1 DEF RunStart, DropReleased, SchedNext, WorkerSteps
  <2>2. ASSUME NEW d \in readyq, RunDeclined(w, d)
        PROVE  SchedNext
    BY <2>2, WorkerCalls DEF RunDeclined
  <2>3. ASSUME NEW outcome \in Outcomes, RunEnd(w, outcome)
        PROVE  SchedNext
    <3> DEFINE j == worker[w][1]
    <3>1. PICK C \in SUBSET Jobs :
            ReleaseJobs({j} \cup C, {j}, Ready(state'))
      BY <2>3 DEF RunEnd
    <3>2. Executing(w)
      BY <2>3 DEF RunEnd
    <3>3. Started(j) /\ j \in current
      BY <3>2, ExecutingIsActive DEF Started, IInv, CurrentOK
    <3> HIDE DEF j
    <3> QED
      BY <3>1, <3>3, ReleaseCalls
  <2>4. ASSUME RunReturn(w) PROVE SchedNext
    BY <2>4, WorkerCalls DEF RunReturn
  <2>5. ASSUME WorkerStops(w) PROVE SchedNext
    BY <2>5 DEF WorkerStops, SchedNext, WorkerSteps
  <2> QED
    BY <1>5, <2>1, <2>2, <2>3, <2>4, <2>5 DEF Worker
<1>6. ASSUME StartDaemon PROVE SchedNext
  BY <1>6, StartCalls DEF StartDaemon
<1>7. ASSUME CloseDaemon \/ CloseEnds PROVE SchedNext
  BY <1>7 DEF CloseDaemon, CloseEnds, SchedNext, Callers, WorkerSteps
<1>8. ASSUME Crashes PROVE [SchedNext]_schedVars
  BY <1>8 DEF Crashes, CrashBetween, CrashInTerminal, CrashInSubmit, CrashInStart,
              SchedNext
<1>9. ASSUME UNCHANGED vars PROVE UNCHANGED schedVars
  BY <1>9 DEF vars
<1> QED
  BY <1>1, <1>2, <1>3, <1>4, <1>5, <1>6, <1>7, <1>8, <1>9 DEF Next, Clients

(* The daemon calls the scheduler only as its specification allows, so all *)
(* that is proved of SchedSpec holds in the daemon.                        *)
THEOREM DaemonUsesScheduler == Spec => SchedSpec
<1>1. Init => SchedInit /\ IInv
  BY InitEstablishes DEF Init
<1>2. IInv /\ [Next]_vars => [SchedNext]_schedVars
  BY StepCalls
<1>3. IInv /\ [SchedNext]_schedVars => IInv'
  BY StepKeeps
<1> QED
  BY <1>1, <1>2, <1>3, PTL DEF Spec, SchedSpec

(* No waiter and no reserved job is forgotten by the handlers either.      *)
THEOREM DaemonLosesNothing == Spec => []NoLostWork
BY DaemonUsesScheduler, NothingIsLost, PTL

-----------------------------------------------------------------------------
(* What the methods of the scheduler do to the jobs that a worker runs and *)
(* to the live ones that wait for their worker.                            *)

Working == {j \in current : Started(j)}
Waiting == current \ Working

LEMMA LiveUnchanged ==
  ASSUME UNCHANGED <<current, gen, worker>>
  PROVE  Working' = Working /\ Waiting' = Waiting
BY DEF Working, Waiting, Started, Live

LEMMA LiveAfterStart ==
  ASSUME NEW Q \in SUBSET Jobs, NEW R, Start(Q, R)
  PROVE  Working' = {} /\ Waiting' = Q
BY DEF Start, Working, Waiting, Started, Live, NoDispatch

LEMMA LiveAfterEnqueue ==
  ASSUME IInv, IInv', NEW j \in Jobs \ current, NEW R, Enqueue(j, R)
  PROVE  Working' = Working /\ Waiting' = Waiting \cup {j}
<1>1. /\ current' = current \cup {j} /\ worker' = worker
      /\ gen' = [gen EXCEPT ![j] = @ + 1]
  BY DEF Enqueue
<1>2. /\ gen \in [Jobs -> Nat] /\ current \subseteq Jobs
      /\ worker \in [Workers -> Dispatch \cup {NoDispatch}]
      /\ \A w \in Workers : worker[w] # NoDispatch => worker[w][2] <= gen[worker[w][1]]
  BY DEF IInv, SchedTypeOK, DispatchOK
<1>3. \A w \in Workers : worker[w] # <<j, gen[j] + 1>>
  BY <1>2 DEF NoDispatch
<1>4. Started(j)' = FALSE
  BY <1>1, <1>2, <1>3 DEF Started, Live
<1>5. \A i \in current : Started(i)' = Started(i)
  BY <1>1, <1>2 DEF Started, Live
<1> QED
  BY <1>1, <1>4, <1>5 DEF Working, Waiting

LEMMA LiveAfterRelease ==
  ASSUME NEW S, NEW quiet, NEW R, ReleaseJobs(S, quiet, R)
  PROVE  Working' = Working \ S /\ Waiting' = Waiting \ S
<1>1. current' = current \ S /\ UNCHANGED <<gen, worker>>
  BY DEF ReleaseJobs, Release
<1> QED
  BY <1>1 DEF Working, Waiting, Started, Live

(* A dispatch in the workers' queue that still holds its reservation waits *)
(* for its worker.                                                         *)
LEMMA QueuedDispatchWaits ==
  ASSUME IInv, NEW d \in readyq, IsLive(d)
  PROVE  d = Live(d[1]) /\ d[1] \in Waiting
<1>1. d = Live(d[1])
  BY DEF IInv, SchedTypeOK, Dispatch, IsLive, Live
<1>2. ~Started(d[1])
  BY <1>1 DEF Started, IInv, DispatchOK
<1> QED
  BY <1>1, <1>2 DEF Working, Waiting, IsLive

LEMMA LiveAfterTake ==
  ASSUME IInv, NEW w \in Workers, NEW d \in readyq, TakeDispatch(w, d)
  PROVE  /\ d[1] \in Waiting /\ d[1] \in active
         /\ Working' = Working \cup {d[1]} /\ Waiting' = Waiting \ {d[1]}
<1>1. d = Live(d[1]) /\ d[1] \in Waiting
  BY QueuedDispatchWaits DEF TakeDispatch
<1>2. /\ worker' = [worker EXCEPT ![w] = d] /\ UNCHANGED <<current, gen>>
      /\ worker[w] = NoDispatch /\ d[1] \in active
  BY DEF TakeDispatch, Idle
<1>3. /\ worker \in [Workers -> Dispatch \cup {NoDispatch}]
      /\ current \subseteq Jobs
  BY DEF IInv, SchedTypeOK
<1>4. Started(d[1])'
  BY <1>1, <1>2, <1>3 DEF Started, Live
<1>5. \A i \in current \ {d[1]} : Started(i)' = Started(i)
  <2>1. \A i \in current \ {d[1]} : Live(i) # d /\ Live(i) # NoDispatch
    BY <1>1, <1>3, SchedAssumption DEF Live, NoDispatch
  <2> QED
    BY <1>2, <1>3, <2>1 DEF Started, Live
<1> QED
  BY <1>1, <1>2, <1>4, <1>5 DEF Working, Waiting

LEMMA LiveAfterTakeAndReturn ==
  ASSUME IInv, NEW w \in Workers, NEW d \in readyq, NEW R, TakeAndReturn(w, d, R)
  PROVE  d[1] \in Waiting /\ Working' = Working /\ Waiting' = Waiting \ {d[1]}
<1>1. d = Live(d[1]) /\ d[1] \in Waiting
  BY QueuedDispatchWaits DEF TakeAndReturn
<1>2. current' = current \ {d[1]} /\ UNCHANGED <<gen, worker>>
  BY DEF TakeAndReturn, Release
<1> QED
  BY <1>1, <1>2 DEF Working, Waiting, Started, Live

LEMMA LiveAfterReturn ==
  ASSUME IInv, NEW w \in Workers, NEW R, WorkerReturn(w, R), ~Executing(w)
  PROVE  Working' = Working /\ Waiting' = Waiting
<1>1. /\ worker' = [worker EXCEPT ![w] = NoDispatch] /\ UNCHANGED <<current, gen>>
      /\ ~IsLive(worker[w])
  BY DEF WorkerReturn, Executing
<1>2. /\ worker \in [Workers -> Dispatch \cup {NoDispatch}]
      /\ current \subseteq Jobs
  BY DEF IInv, SchedTypeOK
<1>3. \A j \in current : Live(j) # worker[w] /\ Live(j) # NoDispatch
  BY <1>1, <1>2, SchedAssumption DEF IsLive, Live, NoDispatch
<1>4. \A j \in current : Started(j)' = Started(j)
  BY <1>1, <1>2, <1>3 DEF Started, Live
<1> QED
  BY <1>1, <1>4 DEF Working, Waiting

LEMMA LiveAfterBeginClose ==
  ASSUME IInv, BeginClose
  PROVE  Working' = Working /\ Waiting' \subseteq Waiting
<1>1. current' = current \ pending /\ UNCHANGED <<gen, worker>>
  BY DEF BeginClose
<1>2. \A j \in pending : ~Started(j)
  BY DEF IInv, DispatchOK, Started, Live
<1> QED
  BY <1>1, <1>2 DEF Working, Waiting, Started, Live

LEMMA LiveAfterForget ==
  ASSUME Forget
  PROVE  Working' = {} /\ Waiting' = {}
BY DEF Forget, Working, Waiting

(* The workers that execute are those of the jobs in Working.              *)
LEMMA WorkingExecutes ==
  ASSUME IInv, NEW j \in Jobs
  PROVE  j \in Working <=> \E w \in Workers : Executing(w) /\ worker[w][1] = j
<1>1. ASSUME NEW w \in Workers, Executing(w), worker[w][1] = j
      PROVE  j \in Working
  BY <1>1, ExecutingIsActive DEF Working, Started, IInv, CurrentOK
<1>2. ASSUME j \in Working
      PROVE  \E w \in Workers : Executing(w) /\ worker[w][1] = j
  <2>1. PICK w \in Workers : worker[w] = Live(j)
    BY <1>2 DEF Working, Started
  <2>2. worker[w] # NoDispatch
    BY <2>1, SchedAssumption DEF Live, NoDispatch
  <2>3. worker[w][1] = j /\ worker[w][2] = gen[j] /\ j \in current
    BY <1>2, <2>1 DEF Working, Live
  <2>4. Executing(w)
    BY <2>2, <2>3 DEF Executing, IsLive
  <2> QED
    BY <2>3, <2>4
<1> QED
  BY <1>1, <1>2

-----------------------------------------------------------------------------
(* The records and the dispatches.  None of the properties of the records  *)
(* is inductive alone: that a job never starts before its dependencies     *)
(* rests on the reserved jobs being ready, that a queued record is not     *)
(* forgotten on what the dispatches of a retry and of its predecessor do.  *)

RecordTypes ==
  /\ deps \in Dependencies(kind)
  /\ state \in [Jobs -> States]
  /\ retries \in 0..MaxRetries /\ crashes \in 0..MaxCrashes

DownIsEmpty ==
  phase = "down" => /\ current = {} /\ readyq = {}
                    /\ \A w \in Workers : worker[w] = NoDispatch

(* Exactly the running jobs work; the waiting ones are queued, and all of  *)
(* the queued ones wait unless the daemon closes.                          *)
LiveRecords ==
  /\ phase # "down" => /\ Running = Working
                       /\ \A j \in Waiting : state[j] = "queued"
  /\ phase = "started" => \A j \in Jobs : state[j] = "queued" => j \in Waiting

(* Jobs are created in the order of their ids, before any dispatch.        *)
CreatedInOrder ==
  /\ \A i, j \in Jobs : i < j /\ state[j] # "none" => state[i] # "none"
  /\ \A j \in Jobs : gen[j] # 0 => state[j] # "none"

ReservedAreReady == active \subseteq Ready(state)

RInv ==
  /\ RecordTypes
  /\ DownIsEmpty
  /\ LiveRecords
  /\ CreatedInOrder
  /\ DependenciesHold
  /\ ReservedAreReady

LEMMA AdmitsReady ==
  ASSUME NEW P, NEW q, NEW B, NEW rq, NEW R, Schedule(P, q, B, rq, R)
  PROVE  active' \subseteq B \cup R
BY DEF Schedule, Admitted

(* What the handlers share: a success stays a success, only a job whose    *)
(* dependencies succeeded starts, only ready jobs are reserved.            *)
LEMMA DependenciesKept ==
  ASSUME RInv, UNCHANGED <<kind, deps>>, state' \in [Jobs -> States],
         retries' \in 0..MaxRetries, crashes' \in 0..MaxCrashes,
         \A j \in Jobs : state[j] = "succeeded" => state'[j] = "succeeded",
         \A j \in Jobs : state'[j] \in {"running", "succeeded"} =>
           state[j] \in {"running", "succeeded"} \/ j \in active,
         active' \subseteq active \cup Ready(state'), active' \subseteq Jobs
  PROVE  RecordTypes' /\ DependenciesRespected' /\ ReservedAreReady'
<1>1. /\ deps \in [Jobs -> SUBSET Jobs] /\ deps' = deps
      /\ deps' \in Dependencies(kind)'
  BY DEF RInv, RecordTypes, Dependencies
<1>2. RecordTypes'
  BY <1>1 DEF RecordTypes
<1>3. Ready(state) \subseteq Ready(state')
  BY <1>1 DEF Ready
<1>4. DependenciesRespected'
  <2> SUFFICES ASSUME NEW j \in Jobs, state'[j] \in {"running", "succeeded"},
                      NEW i \in deps[j]
               PROVE  state'[i] = "succeeded"
    BY <1>1 DEF DependenciesRespected
  <2>1. state[i] = "succeeded"
    BY DEF RInv, DependenciesHold, DependenciesRespected, ReservedAreReady, Ready
  <2> QED
    BY <1>1, <2>1
<1>5. ReservedAreReady'
  BY <1>1, <1>3 DEF RInv, ReservedAreReady, Ready
<1> QED
  BY <1>2, <1>4, <1>5

(* A complete cascade leaves no queued job behind an unsuccessful one.     *)
LEMMA CascadeSettles ==
  ASSUME NEW C \in SUBSET Jobs, NEW roots, NEW st \in [Jobs -> States],
         IsCascade(C, roots, st), deps \in [Jobs -> SUBSET Jobs],
         \A j \in Jobs : \A i \in deps[j] :
           st[j] = "queued" /\ st[i] \in Unsuccessful => i \in roots
  PROVE  \A j \in Jobs : Cancelling(st, C)[j] = "queued" =>
           ~HasFailedDependency(j, Cancelling(st, C))
<1> SUFFICES ASSUME NEW j \in Jobs, NEW i \in deps[j],
                    Cancelling(st, C)[j] = "queued",
                    Cancelling(st, C)[i] \in Unsuccessful
             PROVE  FALSE
  BY DEF HasFailedDependency
<1>1. i \in Jobs /\ j \notin C /\ st[j] = "queued"
  BY DEF Cancelling
<1>2. i \in C \/ i \in roots
  BY <1>1 DEF Cancelling
<1> QED
  BY <1>1, <1>2 DEF IsCascade

LEMMA SubmitKeeps ==
  ASSUME IInv, IInv', RInv, NEW j \in Jobs, Submit(j)
  PROVE  RInv'
<1>1. /\ phase = "started" /\ state[j] = "none"
      /\ \A i \in Jobs : i < j => state[i] # "none"
      /\ state \in [Jobs -> States] /\ deps \in [Jobs -> SUBSET Jobs]
      /\ UNCHANGED <<deps, retries, crashes, kind, phase>>
  BY DEF Submit, Enqueue, RInv, RecordTypes, Dependencies, boundVars, schedVars
<1>2. j \notin Working /\ j \notin Waiting /\ j \notin current
  BY <1>1 DEF RInv, LiveRecords, Running, Waiting
<1>3. PICK s \in {"queued", "cancelled"} :
        /\ state' = [state EXCEPT ![j] = s]
        /\ s = "queued" <=> ~HasFailedDependency(j, state)
        /\ s = "cancelled" => UNCHANGED schedVars
        /\ s = "queued" => Enqueue(j, Ready(state'))
  BY DEF Submit, With
<1>4. state' \in [Jobs -> States]
  BY <1>1, <1>3 DEF States, Terminal, Unsuccessful
<1>5. /\ active' \subseteq active \cup Ready(state') /\ active' \subseteq Jobs
  <2>1. CASE s = "cancelled"
    BY <1>3, <2>1 DEF schedVars, IInv, SchedTypeOK
  <2>2. CASE s = "queued"
    BY <1>2, <1>3, <2>2, AdmitsReady DEF Enqueue, IInv, SchedTypeOK
  <2> QED
    BY <2>1, <2>2
<1>6. RecordTypes' /\ DependenciesRespected' /\ ReservedAreReady'
  <2>1. \A i \in Jobs : state[i] = "succeeded" => state'[i] = "succeeded"
    BY <1>1, <1>3
  <2>2. \A i \in Jobs : state'[i] \in {"running", "succeeded"} =>
          state[i] \in {"running", "succeeded"}
    BY <1>1, <1>3
  <2>3. retries' \in 0..MaxRetries /\ crashes' \in 0..MaxCrashes
    BY <1>1 DEF RInv, RecordTypes
  <2> QED
    BY <1>1, <1>4, <1>5, <2>1, <2>2, <2>3, DependenciesKept
<1>7. NoOrphanDependent'
  <2> SUFFICES ASSUME NEW k \in Jobs, NEW i \in deps[k], state'[k] = "queued",
                      state'[i] \in Unsuccessful
               PROVE  FALSE
    BY <1>1 DEF NoOrphanDependent, HasFailedDependency
  <2>1. i \in Jobs /\ i < k
    BY DEF RInv, RecordTypes, Dependencies
  <2>2. CASE k = j
    <3>1. i # j
      BY <2>1, <2>2, SchedAssumption
    <3> QED
      BY <1>1, <1>3, <2>1, <2>2, <3>1 DEF HasFailedDependency
  <2>3. CASE k # j
    <3>1. state[k] = "queued"
      BY <1>1, <1>3, <2>3
    <3>2. state[i] # "none"
      BY <2>1, <3>1 DEF RInv, CreatedInOrder
    <3>3. state[i] \in Unsuccessful
      BY <1>1, <1>3, <2>1, <3>2
    <3> QED
      BY <1>1, <3>1, <3>3 DEF RInv, DependenciesHold, NoOrphanDependent,
                              HasFailedDependency
  <2> QED
    BY <2>2, <2>3
<1>8. LiveRecords'
  <2>1. CASE s = "cancelled"
    BY <1>1, <1>2, <1>3, <2>1, LiveUnchanged DEF schedVars, RInv, LiveRecords, Running
  <2>2. CASE s = "queued"
    <3>1. Working' = Working /\ Waiting' = Waiting \cup {j}
      BY <1>2, <1>3, <2>2, LiveAfterEnqueue
    <3> QED
      BY <1>1, <1>2, <1>3, <2>2, <3>1 DEF RInv, LiveRecords, Running
  <2> QED
    BY <2>1, <2>2
<1>9. CreatedInOrder'
  <2>1. \A i \in Jobs : gen'[i] # 0 => i = j \/ gen[i] # 0
    BY <1>3 DEF Enqueue, schedVars, IInv, SchedTypeOK
  <2> QED
    BY <1>1, <1>3, <2>1, SchedAssumption DEF RInv, CreatedInOrder
<1> QED
  BY <1>1, <1>6, <1>7, <1>8, <1>9 DEF RInv, DependenciesHold, DownIsEmpty

(* A job ends, or is withdrawn, and the cascade follows: what CancelQueued *)
(* and RunEnd share.                                                       *)
LEMMA EndKeeps ==
  ASSUME IInv, IInv', RInv, NEW j \in Jobs, NEW s \in Terminal, NEW quiet,
         NEW C \in SUBSET Jobs, NEW roots, phase # "down",
         state[j] \in {"queued", "running"},
         s = "succeeded" => state[j] = "running",
         s \in Unsuccessful => j \in roots,
         IsCascade(C, roots, With(state, j, s)),
         state' = Cancelling(With(state, j, s), C),
         ReleaseJobs({j} \cup C, quiet, Ready(state')),
         UNCHANGED <<deps, boundVars>>
  PROVE  RInv'
<1> DEFINE st == With(state, j, s)
<1>1. /\ UNCHANGED <<kind, phase, gen, deps, retries, crashes>>
      /\ Working' = Working \ ({j} \cup C) /\ Waiting' = Waiting \ ({j} \cup C)
      /\ active' \subseteq active \cup Ready(state') /\ active' \subseteq Jobs
  <2>1. Release({j} \cup C, quiet, readyq, Ready(state'))
    BY DEF ReleaseJobs
  <2>2. active' \subseteq active \cup Ready(state')
    BY <2>1, AdmitsReady DEF Release
  <2> QED
    BY <2>2, LiveAfterRelease DEF ReleaseJobs, boundVars, IInv, SchedTypeOK
<1>2. /\ state \in [Jobs -> States] /\ deps \in [Jobs -> SUBSET Jobs]
      /\ st = [state EXCEPT ![j] = s]
      /\ st \in [Jobs -> States]
      /\ \A i \in C : i # j /\ state[i] = "queued"
      /\ \A i \in Jobs : state'[i] = IF i \in C THEN "cancelled"
                                     ELSE IF i = j THEN s ELSE state[i]
  <2>1. state \in [Jobs -> States] /\ deps \in [Jobs -> SUBSET Jobs]
    BY DEF RInv, RecordTypes, Dependencies
  <2>2. st = [state EXCEPT ![j] = s] /\ st \in [Jobs -> States]
    BY <2>1 DEF With, States
  <2>3. \A i \in C : st[i] = "queued"
    BY DEF IsCascade
  <2>4. \A i \in C : i # j /\ state[i] = "queued"
    BY <2>1, <2>2, <2>3 DEF Terminal, Unsuccessful
  <2> QED
    BY <2>1, <2>2, <2>4 DEF Cancelling
<1>3. state' \in [Jobs -> States]
  BY <1>2 DEF Cancelling, States, Terminal, Unsuccessful
<1>4. RecordTypes' /\ DependenciesRespected' /\ ReservedAreReady'
  <2>1. \A i \in Jobs : state[i] = "succeeded" => state'[i] = "succeeded"
    BY <1>2
  <2>2. \A i \in Jobs : state'[i] \in {"running", "succeeded"} =>
          state[i] \in {"running", "succeeded"}
    BY <1>2 DEF Terminal, Unsuccessful
  <2>3. retries' \in 0..MaxRetries /\ crashes' \in 0..MaxCrashes
    BY <1>1 DEF RInv, RecordTypes
  <2> QED
    BY <1>1, <1>3, <2>1, <2>2, <2>3, DependenciesKept
<1>5. NoOrphanDependent'
  <2>1. \A i \in Jobs : \A k \in deps[i] :
          st[i] = "queued" /\ st[k] \in Unsuccessful => k \in roots
    BY <1>2 DEF RInv, DependenciesHold, NoOrphanDependent, HasFailedDependency,
                Terminal, Unsuccessful
  <2> HIDE DEF st
  <2>2. \A i \in Jobs : Cancelling(st, C)[i] = "queued" =>
          ~HasFailedDependency(i, Cancelling(st, C))
    BY <1>2, <2>1, CascadeSettles DEF st
  <2> QED
    BY <1>1, <2>2 DEF NoOrphanDependent, HasFailedDependency, st
<1>6. LiveRecords'
  <2>1. Running' = Running \ ({j} \cup C)
    BY <1>2 DEF Running, Terminal, Unsuccessful
  <2>2. \A i \in Jobs \ ({j} \cup C) : state'[i] = state[i]
    BY <1>2
  <2>3. \A i \in {j} \cup C : state'[i] # "queued"
    BY <1>2 DEF Terminal, Unsuccessful
  <2>4. Waiting \subseteq Jobs
    BY DEF Waiting, IInv, SchedTypeOK
  <2> QED
    BY <1>1, <2>1, <2>2, <2>3, <2>4 DEF RInv, LiveRecords
<1>7. CreatedInOrder'
  BY <1>1, <1>2 DEF RInv, CreatedInOrder, Terminal, Unsuccessful
<1> QED
  BY <1>1, <1>4, <1>5, <1>6, <1>7 DEF RInv, DependenciesHold, DownIsEmpty

LEMMA CancelQueuedKeeps ==
  ASSUME IInv, IInv', RInv, NEW j \in Jobs, CancelQueued(j)
  PROVE  RInv'
<1>1. PICK C \in SUBSET Jobs :
        /\ IsCascade(C, {j}, With(state, j, "cancelled"))
        /\ state' = Cancelling(With(state, j, "cancelled"), C)
        /\ ReleaseJobs({j} \cup C, {}, Ready(state'))
  BY DEF CancelQueued
<1>2. phase # "down" /\ state[j] = "queued" /\ UNCHANGED <<deps, boundVars>>
  BY DEF CancelQueued
<1> QED
  BY <1>1, <1>2, EndKeeps DEF Terminal, Unsuccessful

(* The outcome that a worker records.                                      *)
LEMMA FinalStateType ==
  ASSUME NEW j, NEW outcome \in Outcomes
  PROVE  /\ FinalState(j, outcome) \in Terminal
         /\ FinalState(j, outcome) = "succeeded" => j \notin flagged
         /\ FinalState(j, outcome) # "succeeded" =>
              FinalState(j, outcome) \in Unsuccessful
BY DEF FinalState, Outcomes, Terminal, Unsuccessful

(* While a job is executed its record says so.                             *)
LEMMA ExecutingRuns ==
  ASSUME IInv, RInv, NEW w \in Workers, Executing(w)
  PROVE  /\ phase # "down" /\ worker[w][1] \in Jobs
         /\ state[worker[w][1]] = "running" /\ worker[w][1] \in Working
<1>1. worker[w][1] \in Jobs
  BY ExecutingIsActive DEF IInv, SchedTypeOK
<1>2. worker[w][1] \in Working
  BY <1>1, WorkingExecutes
<1>3. phase # "down"
  BY <1>2 DEF RInv, DownIsEmpty, Working
<1> QED
  BY <1>1, <1>2, <1>3 DEF RInv, LiveRecords, Running

LEMMA RunEndKeeps ==
  ASSUME IInv, IInv', RInv, NEW w \in Workers, NEW outcome \in Outcomes,
         RunEnd(w, outcome)
  PROVE  RInv'
<1> DEFINE j == worker[w][1]
           s == FinalState(j, outcome)
           roots == IF s = "succeeded" THEN {} ELSE {j}
<1>1. PICK C \in SUBSET Jobs :
        /\ IsCascade(C, roots, With(state, j, s))
        /\ state' = Cancelling(With(state, j, s), C)
        /\ ReleaseJobs({j} \cup C, {j}, Ready(state'))
  BY DEF RunEnd
<1>2. /\ phase # "down" /\ state[j] = "running" /\ j \in Jobs
      /\ UNCHANGED <<deps, boundVars>>
  BY ExecutingRuns DEF RunEnd
<1>3. s \in Terminal /\ (s \in Unsuccessful => j \in roots)
  BY FinalStateType DEF Unsuccessful
<1> HIDE DEF j, s, roots
<1> QED
  BY <1>1, <1>2, <1>3, EndKeeps

LEMMA RetryKeeps ==
  ASSUME IInv, IInv', RInv, NEW j \in Jobs, Retry(j)
  PROVE  RInv'
<1>1. /\ phase # "down" /\ state[j] \in Unsuccessful
      /\ state \in [Jobs -> States] /\ deps \in [Jobs -> SUBSET Jobs]
      /\ ~HasFailedDependency(j, state)
      /\ state' = [state EXCEPT ![j] = "queued"]
      /\ Enqueue(j, Ready(state'))
      /\ retries' = retries + 1 /\ retries < MaxRetries
      /\ UNCHANGED <<kind, phase, deps, crashes>>
  BY DEF Retry, Enqueue, RInv, RecordTypes, Dependencies, With
<1>2. j \notin Working /\ j \notin Waiting /\ j \notin current
  BY <1>1 DEF RInv, LiveRecords, Running, Waiting, Unsuccessful
<1>3. /\ Working' = Working /\ Waiting' = Waiting \cup {j}
  BY <1>1, <1>2, LiveAfterEnqueue
<1>4. /\ active' \subseteq active \cup Ready(state') /\ active' \subseteq Jobs
      /\ gen' = [gen EXCEPT ![j] = @ + 1]
  BY <1>1, <1>2, AdmitsReady DEF Enqueue, IInv, SchedTypeOK
<1>5. RecordTypes' /\ DependenciesRespected' /\ ReservedAreReady'
  <2>1. /\ state' \in [Jobs -> States]
        /\ \A i \in Jobs : state[i] = "succeeded" => state'[i] = "succeeded"
        /\ \A i \in Jobs : state'[i] \in {"running", "succeeded"} =>
             state[i] \in {"running", "succeeded"}
    BY <1>1 DEF States, Unsuccessful
  <2>2. retries' \in 0..MaxRetries /\ crashes' \in 0..MaxCrashes
    BY <1>1, BoundsAssumption DEF RInv, RecordTypes
  <2> QED
    BY <1>1, <1>4, <2>1, <2>2, DependenciesKept
<1>6. NoOrphanDependent'
  BY <1>1 DEF RInv, DependenciesHold, NoOrphanDependent, HasFailedDependency,
              Unsuccessful
<1>7. LiveRecords'
  BY <1>1, <1>3 DEF RInv, LiveRecords, Running, Unsuccessful
<1>8. CreatedInOrder'
  <2>1. gen \in [Jobs -> Nat]
    BY DEF IInv, SchedTypeOK
  <2> QED
    BY <1>1, <1>4, <2>1 DEF RInv, CreatedInOrder, Unsuccessful
<1> QED
  BY <1>1, <1>5, <1>6, <1>7, <1>8 DEF RInv, DependenciesHold, DownIsEmpty

LEMMA RunStartKeeps ==
  ASSUME IInv, IInv', RInv, NEW w \in Workers, NEW d \in readyq, RunStart(w, d)
  PROVE  RInv'
<1> DEFINE j == d[1]
<1>1. /\ j \in Waiting /\ j \in active /\ j \in Jobs
      /\ Working' = Working \cup {j} /\ Waiting' = Waiting \ {j}
  BY LiveAfterTake DEF RunStart, IInv, SchedTypeOK
<1>2. /\ phase = "started" /\ state[j] = "queued"
      /\ state \in [Jobs -> States] /\ deps \in [Jobs -> SUBSET Jobs]
      /\ state' = [state EXCEPT ![j] = "running"]
      /\ UNCHANGED <<kind, phase, gen, active, deps, retries, crashes>>
  BY DEF RunStart, TakeDispatch, admissionVars, boundVars, With, RInv, RecordTypes,
         Dependencies
<1> HIDE DEF j
<1>3. RecordTypes' /\ DependenciesRespected' /\ ReservedAreReady'
  <2>1. /\ state' \in [Jobs -> States]
        /\ \A i \in Jobs : state[i] = "succeeded" => state'[i] = "succeeded"
        /\ \A i \in Jobs : state'[i] \in {"running", "succeeded"} =>
             state[i] \in {"running", "succeeded"} \/ i \in active
    BY <1>1, <1>2 DEF States
  <2>2. retries' \in 0..MaxRetries /\ crashes' \in 0..MaxCrashes
    BY <1>2 DEF RInv, RecordTypes
  <2>3. active' \subseteq active \cup Ready(state') /\ active' \subseteq Jobs
    BY <1>2 DEF IInv, SchedTypeOK
  <2> QED
    BY <1>2, <2>1, <2>2, <2>3, DependenciesKept
<1>4. NoOrphanDependent'
  BY <1>1, <1>2 DEF RInv, DependenciesHold, NoOrphanDependent, HasFailedDependency,
                    Unsuccessful
<1>5. LiveRecords'
  BY <1>1, <1>2 DEF RInv, LiveRecords, Running
<1>6. CreatedInOrder'
  BY <1>1, <1>2 DEF RInv, CreatedInOrder
<1> QED
  BY <1>2, <1>3, <1>4, <1>5, <1>6 DEF RInv, DependenciesHold, DownIsEmpty

(* Steps of the workers, of cancel and of close that touch no record.      *)
LEMMA SameRecordsKeep ==
  ASSUME IInv, IInv', RInv, phase # "down", UNCHANGED <<kind, gen>>,
         UNCHANGED <<deps, state, retries, crashes>>,
         active' \subseteq active \cup Ready(state),
         phase' # "down" => LiveRecords', phase' = "down" => DownIsEmpty'
  PROVE  RInv'
<1>1. RecordTypes' /\ DependenciesRespected' /\ ReservedAreReady'
  <2>1. active' \subseteq active \cup Ready(state') /\ active' \subseteq Jobs
    BY DEF IInv, SchedTypeOK
  <2> QED
    BY <2>1, DependenciesKept DEF RInv, RecordTypes
<1>2. NoOrphanDependent' /\ CreatedInOrder'
  BY DEF RInv, DependenciesHold, NoOrphanDependent, HasFailedDependency,
         CreatedInOrder
<1>3. LiveRecords' /\ DownIsEmpty'
  BY DEF LiveRecords, DownIsEmpty
<1> QED
  BY <1>1, <1>2, <1>3 DEF RInv, DependenciesHold

LEMMA WorkerKeepsRecords ==
  ASSUME IInv, IInv', RInv, NEW w \in Workers, Worker(w)
  PROVE  RInv'
<1>1. ASSUME NEW d \in readyq, RunStart(w, d) PROVE RInv'
  BY <1>1, RunStartKeeps
<1>2. ASSUME NEW d \in readyq, RunDeclined(w, d) PROVE RInv'
  <2>1. /\ d[1] \in Waiting /\ Working' = Working /\ Waiting' = Waiting \ {d[1]}
    BY <1>2, LiveAfterTakeAndReturn DEF RunDeclined
  <2>2. /\ ~(phase = "started" /\ state[d[1]] = "queued")
        /\ UNCHANGED <<kind, phase, gen, deps, state, retries, crashes>>
        /\ Release({d[1]}, {}, readyq \ {d}, Ready(state))
    BY <1>2 DEF RunDeclined, TakeAndReturn, recordVars, boundVars
  <2>3. phase # "down" /\ phase # "started"
    BY <2>1, <2>2 DEF RInv, DownIsEmpty, LiveRecords
  <2>4. active' \subseteq active \cup Ready(state)
    BY <2>2, AdmitsReady DEF Release
  <2>5. LiveRecords'
    BY <2>1, <2>2, <2>3 DEF RInv, LiveRecords, Running
  <2> QED
    BY <2>2, <2>3, <2>4, <2>5, SameRecordsKeep
<1>3. ASSUME NEW d \in readyq, DropReleased(w, d) PROVE RInv'
  <2>1. UNCHANGED <<kind, phase, current, gen, active, worker, deps, state,
                    retries, crashes>>
    BY <1>3 DEF DropReleased, SkipDispatch, admissionVars, recordVars, boundVars
  <2>2. phase # "down"
    BY <1>3 DEF RInv, DownIsEmpty
  <2>3. LiveRecords'
    BY <2>1, LiveUnchanged DEF RInv, LiveRecords, Running
  <2> QED
    BY <2>1, <2>2, <2>3, SameRecordsKeep
<1>4. ASSUME NEW outcome \in Outcomes, RunEnd(w, outcome) PROVE RInv'
  BY <1>4, RunEndKeeps
<1>5. ASSUME RunReturn(w) PROVE RInv'
  <2>1. /\ Working' = Working /\ Waiting' = Waiting
        /\ UNCHANGED <<kind, phase, gen, deps, state, retries, crashes>>
    BY <1>5, LiveAfterReturn DEF RunReturn, WorkerReturn, recordVars, boundVars
  <2>2. phase # "down"
    BY <1>5 DEF RInv, DownIsEmpty, RunReturn, WorkerReturn
  <2>3. active' \subseteq active \cup Ready(state)
    <3>1. Schedule(pending, ahead, active, readyq, Ready(state))
      BY <1>5 DEF RunReturn, WorkerReturn, Executing
    <3> QED
      BY <3>1, AdmitsReady
  <2>4. LiveRecords'
    BY <2>1 DEF RInv, LiveRecords, Running
  <2> QED
    BY <2>1, <2>2, <2>3, <2>4, SameRecordsKeep
<1>6. ASSUME WorkerStops(w) PROVE RInv'
  <2>1. /\ phase = "closing"
        /\ UNCHANGED <<kind, phase, current, gen, active, worker, deps, state,
                       retries, crashes>>
    BY <1>6 DEF WorkerStops, WorkerExit, admissionVars, recordVars, boundVars
  <2>2. LiveRecords'
    BY <2>1, LiveUnchanged DEF RInv, LiveRecords, Running
  <2> QED
    BY <2>1, <2>2, SameRecordsKeep
<1> QED
  BY <1>1, <1>2, <1>3, <1>4, <1>5, <1>6 DEF Worker

LEMMA CancelRunningKeeps ==
  ASSUME IInv, IInv', RInv, NEW j \in Jobs, CancelRunning(j)
  PROVE  RInv'
<1>1. /\ phase # "down"
      /\ UNCHANGED <<kind, phase, current, gen, active, worker, deps, state,
                     retries, crashes>>
  BY DEF CancelRunning, RequestCancel, admissionVars, recordVars, boundVars
<1>2. LiveRecords'
  BY <1>1, LiveUnchanged DEF RInv, LiveRecords, Running
<1> QED
  BY <1>1, <1>2, SameRecordsKeep

LEMMA CloseDaemonKeeps ==
  ASSUME IInv, IInv', RInv, CloseDaemon
  PROVE  RInv'
<1>1. /\ phase = "started" /\ phase' = "closing"
      /\ UNCHANGED <<kind, gen, active, deps, state, retries, crashes>>
      /\ Working' = Working /\ Waiting' \subseteq Waiting
  BY LiveAfterBeginClose DEF CloseDaemon, BeginClose, recordVars, boundVars
<1>2. LiveRecords'
  BY <1>1 DEF RInv, LiveRecords, Running
<1> QED
  BY <1>1, <1>2, SameRecordsKeep

(* The daemon goes down, or stays down, with the records as they are, or   *)
(* with part of the work of a handler committed.                           *)
LEMMA DownKeeps ==
  ASSUME IInv, IInv', RInv, UNCHANGED <<kind, deps>>, phase' = "down",
         Forget \/ (phase = "down" /\ UNCHANGED schedVars),
         state' \in [Jobs -> States],
         retries' \in 0..MaxRetries, crashes' \in 0..MaxCrashes,
         \A j \in Jobs : state[j] = "succeeded" => state'[j] = "succeeded",
         \A j \in Jobs : state'[j] \in {"running", "succeeded"} =>
           state[j] \in {"running", "succeeded"},
         \A i, j \in Jobs : i < j /\ state'[j] # "none" => state[i] # "none",
         \A j \in Jobs : state[j] # "none" => state'[j] # "none"
  PROVE  RInv'
<1>1. DownIsEmpty' /\ active' = {}
  BY DEF Forget, RInv, DownIsEmpty, schedVars, IInv, CurrentOK
<1>2. RecordTypes' /\ DependenciesRespected' /\ ReservedAreReady'
  <2>1. active' \subseteq active \cup Ready(state') /\ active' \subseteq Jobs
    BY <1>1
  <2> QED
    BY <2>1, DependenciesKept
<1>3. CreatedInOrder'
  <2>1. \A j \in Jobs : gen'[j] # 0 => gen[j] # 0
    BY DEF Forget, schedVars
  <2> QED
    BY <2>1 DEF RInv, CreatedInOrder
<1> QED
  BY <1>1, <1>2, <1>3 DEF RInv, DependenciesHold, NoOrphanDependent, LiveRecords

(* What a torn handler leaves of the records.                              *)
LEMMA TornEndRecords ==
  ASSUME RInv, NEW j \in Jobs, NEW s \in Unsuccessful, TornEnd(j, s),
         state[j] # "none", state[j] # "succeeded"
  PROVE  /\ state' \in [Jobs -> States]
         /\ \A i \in Jobs : state[i] = "succeeded" => state'[i] = "succeeded"
         /\ \A i \in Jobs : state'[i] \in {"running", "succeeded"} =>
              state[i] \in {"running", "succeeded"}
         /\ \A i \in Jobs : state'[i] # "none" <=> state[i] # "none"
<1>1. PICK P \in SUBSET Jobs :
        /\ IsTornCascade(P, {j}, With(state, j, s))
        /\ state' = Cancelling(With(state, j, s), P)
  BY DEF TornEnd
<1>2. state \in [Jobs -> States]
  BY DEF RInv, RecordTypes
<1>3. \A i \in P : [state EXCEPT ![j] = s][i] = "queued"
  BY <1>1 DEF IsTornCascade, With
<1>4. state' = [i \in Jobs |-> IF i \in P THEN "cancelled"
                               ELSE [state EXCEPT ![j] = s][i]]
  BY <1>1 DEF Cancelling, With
<1> QED
  BY <1>2, <1>3, <1>4 DEF States, Terminal, Unsuccessful

LEMMA CrashesKeep ==
  ASSUME IInv, IInv', RInv, Crashes
  PROVE  RInv'
<1>1. /\ state \in [Jobs -> States]
      /\ retries \in 0..MaxRetries /\ crashes \in 0..MaxCrashes
      /\ \A i, j \in Jobs : i < j /\ state[j] # "none" => state[i] # "none"
  BY DEF RInv, RecordTypes, CreatedInOrder
<1>2. /\ crashes' \in 0..MaxCrashes /\ retries' \in 0..MaxRetries
      /\ UNCHANGED <<kind, deps>> /\ phase' = "down"
      /\ Forget \/ (phase = "down" /\ UNCHANGED schedVars)
  <2>1. crashes' = crashes + 1 /\ crashes < MaxCrashes
    BY DEF Crashes, CrashBetween, CrashInTerminal, CrashInSubmit, CrashInStart
  <2>2. crashes' \in 0..MaxCrashes
    BY <1>1, <2>1, BoundsAssumption
  <2>3. Crash \/ (phase = "down" /\ UNCHANGED schedVars)
    BY DEF Crashes, CrashBetween, CrashInTerminal, CrashInSubmit, CrashInStart
  <2>4. UNCHANGED <<deps, retries>>
    BY DEF Crashes, CrashBetween, CrashInTerminal, CrashInSubmit, CrashInStart,
           recordVars
  <2> QED
    BY <1>1, <2>2, <2>3, <2>4 DEF Crash, Forget, schedVars
<1>3. /\ state' \in [Jobs -> States]
      /\ \A i \in Jobs : state[i] = "succeeded" => state'[i] = "succeeded"
      /\ \A i \in Jobs : state'[i] \in {"running", "succeeded"} =>
           state[i] \in {"running", "succeeded"}
      /\ \A i \in Jobs : state[i] # "none" => state'[i] # "none"
      /\ \A i, j \in Jobs : i < j /\ state'[j] # "none" => state[i] # "none"
  <2>1. CASE CrashBetween
    BY <1>1, <2>1 DEF CrashBetween, recordVars
  <2>2. CASE CrashInTerminal
    <3>1. PICK j \in Jobs, s \in Unsuccessful :
            TornEnd(j, s) /\ state[j] \in {"queued", "running"}
      <4>1. ASSUME NEW w \in Workers, Executing(w), NEW outcome \in {"failed", "raised"},
                   TornEnd(worker[w][1], FinalState(worker[w][1], outcome))
            PROVE  \E j \in Jobs, s \in Unsuccessful :
                     TornEnd(j, s) /\ state[j] \in {"queued", "running"}
        <5>1. worker[w][1] \in Jobs /\ state[worker[w][1]] = "running"
          BY <4>1, ExecutingRuns
        <5>2. FinalState(worker[w][1], outcome) \in Unsuccessful
          BY DEF FinalState, Unsuccessful
        <5> QED
          BY <4>1, <5>1, <5>2
      <4>2. ASSUME NEW j \in Jobs, state[j] = "queued", TornEnd(j, "cancelled")
            PROVE  \E i \in Jobs, s \in Unsuccessful :
                     TornEnd(i, s) /\ state[i] \in {"queued", "running"}
        BY <4>2 DEF Unsuccessful
      <4> QED
        BY <2>2, <4>1, <4>2 DEF CrashInTerminal
    <3>2. state[j] # "none" /\ state[j] # "succeeded"
      BY <3>1
    <3> QED
      BY <1>1, <3>1, <3>2, TornEndRecords
  <2>3. CASE CrashInSubmit
    <3>1. PICK j \in Jobs : /\ state[j] = "none"
                            /\ \A i \in Jobs : i < j => state[i] # "none"
                            /\ state' = [state EXCEPT ![j] = "queued"]
      BY <2>3 DEF CrashInSubmit, With
    <3> QED
      BY <1>1, <3>1, SchedAssumption DEF States
  <2>4. CASE CrashInStart
    <3>1. PICK P \in SUBSET Jobs :
            /\ IsTornCascade(P, UnsuccessfulIn(Interrupted(state)), Interrupted(state))
            /\ state' = Cancelling(Interrupted(state), P)
      BY <2>4 DEF CrashInStart
    <3>2. \A i \in P : Interrupted(state)[i] = "queued"
      BY <3>1 DEF IsTornCascade
    <3> QED
      BY <1>1, <3>1, <3>2 DEF Cancelling, Interrupted, States, Terminal, Unsuccessful
  <2> QED
    BY <2>1, <2>2, <2>3, <2>4 DEF Crashes
<1> QED
  BY <1>1, <1>2, <1>3, DownKeeps

LEMMA CloseEndsKeeps ==
  ASSUME IInv, IInv', RInv, CloseEnds
  PROVE  RInv'
<1>1. /\ UNCHANGED <<kind, deps, state, retries, crashes>> /\ phase' = "down"
      /\ Forget
  BY DEF CloseEnds, FinishClose, Forget, recordVars, boundVars
<1> QED
  BY <1>1, DownKeeps DEF RInv, RecordTypes, CreatedInOrder

(* start repairs what a crash left: no record runs, and no queued record   *)
(* waits for an unsuccessful one.                                          *)
LEMMA StartDaemonKeeps ==
  ASSUME IInv, IInv', RInv, StartDaemon
  PROVE  RInv'
<1> DEFINE st == Interrupted(state)
           Q == {j \in Jobs : state'[j] = "queued"}
<1>1. PICK C \in SUBSET Jobs :
        IsCascade(C, UnsuccessfulIn(st), st) /\ state' = Cancelling(st, C)
  BY DEF StartDaemon
<1>2. /\ Start(Q, Ready(state')) /\ UNCHANGED <<kind, deps, retries, crashes>>
      /\ phase' = "started"
      /\ gen' = [j \in Jobs |-> IF j \in Q THEN 1 ELSE 0]
  BY DEF StartDaemon, Start, boundVars
<1>3. /\ state \in [Jobs -> States] /\ deps \in [Jobs -> SUBSET Jobs]
      /\ st \in [Jobs -> States] /\ state' \in [Jobs -> States]
      /\ \A j \in C : state[j] = "queued"
      /\ \A j \in Jobs : state'[j] = IF j \in C THEN "cancelled"
                                     ELSE IF state[j] = "running" THEN "interrupted"
                                     ELSE state[j]
  <2>1. state \in [Jobs -> States] /\ deps \in [Jobs -> SUBSET Jobs]
    BY DEF RInv, RecordTypes, Dependencies
  <2>2. /\ \A j \in Jobs : st[j] = IF state[j] = "running" THEN "interrupted"
                                                         ELSE state[j]
        /\ st \in [Jobs -> States]
    BY <2>1 DEF Interrupted, States, Terminal, Unsuccessful
  <2>3. \A j \in C : st[j] = "queued"
    BY <1>1 DEF IsCascade
  <2>4. \A j \in C : state[j] = "queued"
    BY <2>2, <2>3
  <2>5. \A j \in Jobs : state'[j] = IF j \in C THEN "cancelled" ELSE st[j]
    BY <1>1 DEF Cancelling
  <2>6. state' \in [Jobs -> States]
    BY <1>1, <2>2 DEF Cancelling, States, Terminal, Unsuccessful
  <2> QED
    BY <2>1, <2>2, <2>4, <2>5, <2>6
<1>4. active' \subseteq Ready(state')
  BY <1>2, AdmitsReady DEF Start
<1>5. RecordTypes' /\ DependenciesRespected' /\ ReservedAreReady'
  <2>1. /\ \A j \in Jobs : state[j] = "succeeded" => state'[j] = "succeeded"
        /\ \A j \in Jobs : state'[j] \in {"running", "succeeded"} =>
             state[j] \in {"running", "succeeded"}
    BY <1>3
  <2>2. /\ active' \subseteq active \cup Ready(state') /\ active' \subseteq Jobs
        /\ retries' \in 0..MaxRetries /\ crashes' \in 0..MaxCrashes
    BY <1>2, <1>4 DEF IInv, SchedTypeOK, RInv, RecordTypes
  <2> QED
    BY <1>2, <1>3, <2>1, <2>2, DependenciesKept
<1>6. NoOrphanDependent'
  <2>1. \A i \in Jobs : \A k \in deps[i] :
          st[i] = "queued" /\ st[k] \in Unsuccessful => k \in UnsuccessfulIn(st)
    BY <1>3 DEF UnsuccessfulIn
  <2> HIDE DEF st
  <2>2. \A i \in Jobs : Cancelling(st, C)[i] = "queued" =>
          ~HasFailedDependency(i, Cancelling(st, C))
    BY <1>1, <1>3, <2>1, CascadeSettles
  <2> QED
    BY <1>1, <1>2, <2>2 DEF NoOrphanDependent, HasFailedDependency
<1>7. LiveRecords'
  <2>1. Working' = {} /\ Waiting' = Q
    BY <1>2, LiveAfterStart
  <2>2. Running' = {}
    BY <1>3 DEF Running
  <2> QED
    BY <1>2, <2>1, <2>2 DEF LiveRecords
<1>8. CreatedInOrder'
  BY <1>2, <1>3 DEF RInv, CreatedInOrder
<1> QED
  BY <1>2, <1>5, <1>6, <1>7, <1>8 DEF RInv, DependenciesHold, DownIsEmpty

LEMMA RecordsStart ==
  ASSUME Init
  PROVE  RInv
<1>1. /\ phase = "down" /\ current = {} /\ readyq = {} /\ active = {}
      /\ gen = [j \in Jobs |-> 0] /\ worker = [w \in Workers |-> NoDispatch]
      /\ state = [j \in Jobs |-> "none"] /\ deps \in Dependencies(kind)
      /\ retries = 0 /\ crashes = 0
  BY DEF Init, SchedInit
<1>2. RecordTypes
  BY <1>1, BoundsAssumption DEF RecordTypes, States
<1>3. DownIsEmpty /\ LiveRecords /\ CreatedInOrder
  BY <1>1 DEF DownIsEmpty, LiveRecords, CreatedInOrder
<1>4. DependenciesHold /\ ReservedAreReady
  BY <1>1 DEF DependenciesHold, DependenciesRespected, NoOrphanDependent,
              ReservedAreReady
<1> QED
  BY <1>2, <1>3, <1>4 DEF RInv

LEMMA RecordsStep ==
  ASSUME IInv, IInv', RInv, [Next]_vars
  PROVE  RInv'
<1>1. ASSUME NEW j \in Jobs,
             Submit(j) \/ CancelQueued(j) \/ CancelRunning(j) \/ Retry(j)
      PROVE  RInv'
  BY <1>1, SubmitKeeps, CancelQueuedKeeps, CancelRunningKeeps, RetryKeeps
<1>2. ASSUME NEW w \in Workers, Worker(w) PROVE RInv'
  BY <1>2, WorkerKeepsRecords
<1>3. CASE UNCHANGED vars
  <2>1. LiveRecords'
    BY <1>3, LiveUnchanged DEF vars, schedVars, RInv, LiveRecords, Running
  <2> QED
    BY <1>3, <2>1 DEF vars, schedVars, RInv, RecordTypes, DownIsEmpty,
       CreatedInOrder, DependenciesHold, DependenciesRespected, NoOrphanDependent,
       HasFailedDependency, ReservedAreReady, Ready
<1> QED
  BY <1>1, <1>2, <1>3, CloseDaemonKeeps, StartDaemonKeeps, CloseEndsKeeps,
     CrashesKeep DEF Next, Clients

(* The records and the dispatches agree in every state of the daemon.      *)
THEOREM RecordsInvariant == Spec => [](IInv /\ RInv)
<1>1. Init => IInv /\ RInv
  BY InitEstablishes, RecordsStart DEF Init
<1>2. IInv /\ RInv /\ [Next]_vars => (IInv /\ RInv)'
  BY StepCalls, StepKeeps, RecordsStep
<1> QED
  BY <1>1, <1>2, PTL DEF Spec

(* The records, the dispatches and the workers tell one story, through     *)
(* retries, torn handlers, restarts and a close.                           *)
THEOREM RecordsAreTrue == Spec => []RecordsAgree
<1>1. IInv /\ RInv => RecordsAgree
  <2> SUFFICES ASSUME IInv, RInv PROVE RecordsAgree
    OBVIOUS
  <2>1. TypeOK
    BY DEF TypeOK, IInv, RInv, RecordTypes
  <2>2. RunningHasWorker
    BY WorkingExecutes DEF RunningHasWorker, RInv, LiveRecords, Running
  <2>3. NoForgottenJob
    BY DEF NoForgottenJob, RInv, LiveRecords, Working, Waiting, IInv, SchedTypeOK
  <2> QED
    BY <2>1, <2>2, <2>3 DEF RecordsAgree
<1> QED
  BY <1>1, RecordsInvariant, PTL

(* No job runs beside one that excludes it, or beyond the limits, and that *)
(* is what its record says.                                                *)
THEOREM RecordsExclude == Spec => []RunningExclusion
<1>1. IInv /\ RInv => RunningExclusion
  <2> SUFFICES ASSUME IInv, RInv, phase # "down"
               PROVE  /\ \A i, j \in Running : i # j => Compatible(i, j)
                      /\ Cardinality(Running) <= MaxJobs
                      /\ \A j \in Running : Reader(j) =>
                           Cardinality(ReadersWith(j, Running)) <= MaxProjectReaders
    BY DEF RunningExclusion
  <2>1. Running \subseteq active
    BY DEF RInv, LiveRecords, Working, Started, Live, IInv, CurrentOK, DispatchOK
  <2>2. Admissible(Running)
    BY <2>1, SubsetAdmissible DEF IInv, SchedTypeOK
  <2> QED
    BY <2>2 DEF Admissible
<1> QED
  BY <1>1, RecordsInvariant, PTL

(* No job starts before its dependencies have succeeded, and no queued job *)
(* is left behind an unsuccessful one.                                     *)
THEOREM DependenciesAlwaysHold == Spec => []DependenciesHold
<1>1. RInv => DependenciesHold
  BY DEF RInv
<1> QED
  BY <1>1, RecordsInvariant, PTL

-----------------------------------------------------------------------------
(* What a step may never do.                                               *)

(* How the record of a job may change in a step.                           *)
LEMMA StateChanges ==
  ASSUME IInv, RInv, [Next]_vars, NEW j \in Jobs, state'[j] # state[j]
  PROVE  /\ state[j] # "succeeded"
         /\ state[j] \in Unsuccessful => state'[j] = "queued" /\ retries' > retries
         /\ state'[j] = "succeeded" => phase # "down" /\ j \notin flagged
<1>1. /\ state \in [Jobs -> States] /\ retries \in Nat
  BY BoundsAssumption DEF RInv, RecordTypes
<1>2. ASSUME NEW i \in Jobs, Submit(i)
      PROVE  state[j] = "none" /\ state'[j] # "succeeded"
  BY <1>1, <1>2 DEF Submit, With
<1>3. ASSUME NEW i \in Jobs, CancelQueued(i)
      PROVE  state[j] = "queued" /\ state'[j] = "cancelled"
  <2>1. PICK C \in SUBSET Jobs :
          /\ IsCascade(C, {i}, With(state, i, "cancelled"))
          /\ state' = Cancelling(With(state, i, "cancelled"), C)
    BY <1>3 DEF CancelQueued
  <2>2. state[i] = "queued"
    BY <1>3 DEF CancelQueued
  <2> QED
    BY <1>1, <2>1, <2>2 DEF IsCascade, Cancelling, With
<1>4. ASSUME NEW i \in Jobs, Retry(i)
      PROVE  state[j] \in Unsuccessful /\ state'[j] = "queued" /\ retries' > retries
  BY <1>1, <1>4 DEF Retry, With
<1>5. ASSUME NEW w \in Workers, NEW d \in readyq, RunStart(w, d)
      PROVE  state[j] = "queued" /\ state'[j] = "running"
  BY <1>1, <1>5 DEF RunStart, With
<1>6. ASSUME NEW w \in Workers, NEW outcome \in Outcomes, RunEnd(w, outcome)
      PROVE  /\ state[j] \in {"queued", "running"}
             /\ state'[j] = "succeeded" => phase # "down" /\ j \notin flagged
  <2> DEFINE i == worker[w][1]
             s == FinalState(i, outcome)
             roots == IF s = "succeeded" THEN {} ELSE {i}
  <2>1. PICK C \in SUBSET Jobs :
          IsCascade(C, roots, With(state, i, s)) /\ state' = Cancelling(With(state, i, s), C)
    BY <1>6 DEF RunEnd
  <2>2. phase # "down" /\ i \in Jobs /\ state[i] = "running"
    BY <1>6, ExecutingRuns DEF RunEnd
  <2>3. s \in Terminal /\ (s = "succeeded" => i \notin flagged)
    BY FinalStateType
  <2> HIDE DEF i, s, roots
  <2> QED
    BY <1>1, <2>1, <2>2, <2>3
       DEF IsCascade, Cancelling, With, Terminal, Unsuccessful
<1>7. ASSUME StartDaemon
      PROVE  state[j] \in {"queued", "running"} /\ state'[j] \in Unsuccessful
  BY <1>1, <1>7 DEF StartDaemon, IsCascade, Cancelling, Interrupted, Unsuccessful
<1>8. ASSUME Crashes
      PROVE  state[j] \in {"none", "queued", "running"} /\ state'[j] # "succeeded"
  <2>1. CASE CrashBetween
    BY <2>1 DEF CrashBetween, recordVars
  <2>2. CASE CrashInTerminal
    <3>1. ASSUME NEW i \in Jobs, NEW s \in Unsuccessful, TornEnd(i, s),
                 state[i] \in {"queued", "running"}
          PROVE  state[j] \in {"queued", "running"} /\ state'[j] \in Unsuccessful
      <4>1. PICK P \in SUBSET Jobs :
              /\ IsTornCascade(P, {i}, With(state, i, s))
              /\ state' = Cancelling(With(state, i, s), P)
        BY <3>1 DEF TornEnd
      <4> QED
        BY <1>1, <3>1, <4>1 DEF IsTornCascade, Cancelling, With, Unsuccessful
    <3>2. ASSUME NEW w \in Workers, Executing(w), NEW outcome \in {"failed", "raised"}
          PROVE  /\ worker[w][1] \in Jobs /\ state[worker[w][1]] = "running"
                 /\ FinalState(worker[w][1], outcome) \in Unsuccessful
      BY <3>2, ExecutingRuns DEF FinalState, Unsuccessful
    <3>3. "cancelled" \in Unsuccessful
      BY DEF Unsuccessful
    <3> QED
      BY <2>2, <3>1, <3>2, <3>3 DEF CrashInTerminal, Unsuccessful
  <2>3. CASE CrashInSubmit
    BY <1>1, <2>3 DEF CrashInSubmit, With
  <2>4. CASE CrashInStart
    <3>1. PICK P \in SUBSET Jobs :
            /\ IsTornCascade(P, UnsuccessfulIn(Interrupted(state)), Interrupted(state))
            /\ state' = Cancelling(Interrupted(state), P)
      BY <2>4 DEF CrashInStart
    <3> QED
      BY <1>1, <3>1 DEF IsTornCascade, Cancelling, Interrupted
  <2> QED
    BY <1>8, <2>1, <2>2, <2>3, <2>4 DEF Crashes
<1>9. \/ \E i \in Jobs : Submit(i) \/ CancelQueued(i) \/ Retry(i)
      \/ \E w \in Workers : \/ \E d \in readyq : RunStart(w, d)
                            \/ \E outcome \in Outcomes : RunEnd(w, outcome)
      \/ StartDaemon \/ Crashes
  BY DEF Next, Clients, Worker, CancelRunning, CloseDaemon, CloseEnds, RunDeclined,
         DropReleased, RunReturn, WorkerStops, recordVars, vars
<1> QED
  BY <1>2, <1>3, <1>4, <1>5, <1>6, <1>7, <1>8, <1>9 DEF Unsuccessful

(* The outcome of a job is final: only a granted retry changes it, and a   *)
(* job whose cancel event is set never succeeds.                           *)
THEOREM OutcomesStay == Spec => OutcomeIsFinal
<1>1. IInv /\ RInv /\ [Next]_vars =>
        [\A j \in Jobs :
           /\ state[j] = "succeeded" => state'[j] = "succeeded"
           /\ state[j] \in Unsuccessful =>
                state'[j] = state[j] \/ (state'[j] = "queued" /\ retries' > retries)
           /\ j \in flagged => state'[j] # "succeeded"]_vars
  <2> SUFFICES ASSUME IInv, RInv, [Next]_vars, NEW j \in Jobs
               PROVE  /\ state[j] = "succeeded" => state'[j] = "succeeded"
                      /\ state[j] \in Unsuccessful =>
                           \/ state'[j] = state[j]
                           \/ state'[j] = "queued" /\ retries' > retries
                      /\ j \in flagged => state'[j] # "succeeded"
    OBVIOUS
  <2>1. j \in flagged => state[j] # "succeeded"
    BY DEF IInv, CurrentOK, RInv, DownIsEmpty, LiveRecords, Running, Waiting
  <2> QED
    BY <2>1, StateChanges
<1> QED
  BY <1>1, RecordsInvariant, PTL DEF Spec, OutcomeIsFinal

(* While the daemon is started no execution is declined: a dispatch that   *)
(* still holds its reservation is that of a queued job.                    *)
LEMMA DeclinedWhileClosing ==
  ASSUME IInv, RInv, NEW w \in Workers, NEW d \in readyq, RunDeclined(w, d)
  PROVE  phase # "started"
<1>1. d[1] \in Waiting
  BY LiveAfterTakeAndReturn DEF RunDeclined
<1> QED
  BY <1>1 DEF RunDeclined, RInv, LiveRecords

(* The waiters of a job are woken when it has ended or was retried.        *)
THEOREM WaitersSeeOutcomes == Spec => WaiterSeesOutcome
<1>1. IInv /\ RInv /\ [Next]_vars =>
        [phase = "started" /\ phase' = "started" =>
           \A d \in open \ open' :
             state'[d[1]] \in Terminal \/ d[2] < gen'[d[1]]]_vars
  <2> SUFFICES ASSUME IInv, RInv, Next, phase = "started", phase' = "started",
                      NEW d \in open \ open'
               PROVE  state'[d[1]] \in Terminal \/ d[2] < gen'[d[1]]
    BY DEF vars, schedVars
  <2>0. /\ d \in Dispatch /\ d[1] \in Jobs /\ d[2] \in Nat \ {0}
        /\ gen \in [Jobs -> Nat] /\ state \in [Jobs -> States]
    BY DEF IInv, SchedTypeOK, Dispatch, RInv, RecordTypes
  <2>1. ASSUME NEW j \in Jobs, Submit(j) \/ Retry(j) \/ CancelRunning(j) PROVE FALSE
    BY <2>1 DEF Submit, Retry, CancelRunning, RequestCancel, Enqueue, schedVars
  <2>2. ASSUME NEW j \in Jobs, CancelQueued(j) PROVE state'[d[1]] \in Terminal
    <3>1. PICK C \in SUBSET Jobs :
            /\ state' = Cancelling(With(state, j, "cancelled"), C)
            /\ ReleaseJobs({j} \cup C, {}, Ready(state'))
      BY <2>2 DEF CancelQueued
    <3>2. d[1] \in {j} \cup C
      BY <3>1 DEF ReleaseJobs, Release, Live
    <3> QED
      BY <2>0, <3>1, <3>2 DEF Cancelling, With, Terminal, Unsuccessful
  <2>3. ASSUME NEW w \in Workers, NEW outcome \in Outcomes, RunEnd(w, outcome)
        PROVE  state'[d[1]] \in Terminal
    <3> DEFINE j == worker[w][1]
    <3>1. PICK C \in SUBSET Jobs :
            /\ state' = Cancelling(With(state, j, FinalState(j, outcome)), C)
            /\ ReleaseJobs({j} \cup C, {j}, Ready(state'))
      BY <2>3 DEF RunEnd
    <3>2. d[1] \in C
      BY <3>1 DEF ReleaseJobs, Release, Live
    <3> QED
      BY <3>1, <3>2 DEF Cancelling, Terminal, Unsuccessful
  <2>4. ASSUME NEW w \in Workers, RunReturn(w)
        PROVE  state'[d[1]] \in Terminal \/ d[2] < gen'[d[1]]
    <3>1. /\ d = worker[w] /\ ~IsLive(d) /\ d # NoDispatch
          /\ UNCHANGED <<gen, state>>
      BY <2>4 DEF RunReturn, WorkerReturn, Executing, recordVars
    <3>2. d[2] <= gen[d[1]]
      BY <3>1 DEF IInv, DispatchOK
    <3>3. CASE d[2] = gen[d[1]]
      <4>1. d[1] \notin current /\ gen[d[1]] # 0
        BY <2>0, <3>1, <3>3 DEF IsLive
      <4>2. state[d[1]] \notin {"none", "queued", "running"}
        BY <2>0, <4>1 DEF RInv, CreatedInOrder, LiveRecords, Running, Working, Waiting
      <4> QED
        BY <2>0, <3>1, <4>2 DEF States
    <3> QED
      BY <2>0, <3>1, <3>2, <3>3
  <2>5. ASSUME NEW w \in Workers, NEW e \in readyq,
               RunStart(w, e) \/ RunDeclined(w, e) \/ DropReleased(w, e)
        PROVE  FALSE
    BY <2>5, DeclinedWhileClosing DEF RunStart, TakeDispatch, DropReleased, SkipDispatch
  <2>6. ~\E w \in Workers : WorkerStops(w)
    BY DEF WorkerStops, WorkerExit
  <2>7. ~(CloseDaemon \/ CloseEnds \/ StartDaemon \/ Crashes)
    BY DEF CloseDaemon, BeginClose, CloseEnds, FinishClose, Forget, StartDaemon, Start,
           Crashes, CrashBetween, CrashInTerminal, CrashInSubmit, CrashInStart, Crash
  <2> QED
    BY <2>1, <2>2, <2>3, <2>4, <2>5, <2>6, <2>7 DEF Next, Clients, Worker
<1> QED
  BY <1>1, RecordsInvariant, PTL DEF Spec, WaiterSeesOutcome

(* A step that ends with _schedule: the queue it looks at keeps its order, *)
(* is_ready is asked of the records as the step leaves them.               *)
Reschedules ==
  \E P \in SUBSET Jobs, B \in SUBSET active, q \in [Jobs -> SUBSET Jobs] : \E rq :
    /\ InOrder(P, q) /\ P \cap B = {}
    /\ \A i \in pending \cap P : q[i] \subseteq ahead[i]
    /\ Schedule(P, q, B, rq, Ready(state'))

LEMMA EnqueueReschedules ==
  ASSUME IInv, NEW j \in Jobs \ current, Enqueue(j, Ready(state'))
  PROVE  Reschedules
<1> DEFINE P == pending \cup {j}
           q == [ahead EXCEPT ![j] = pending]
<1>1. /\ pending \in SUBSET Jobs /\ ahead \in [Jobs -> SUBSET Jobs] /\ j \notin pending
      /\ InOrder(pending, ahead)
      /\ active \subseteq Jobs /\ P \cap active = {}
  BY DEF IInv, SchedTypeOK, CurrentOK
<1>2. P \in SUBSET Jobs /\ q \in [Jobs -> SUBSET Jobs] /\ InOrder(P, q)
  BY <1>1, AppendInOrder
<1>3. \A i \in pending \cap P : q[i] \subseteq ahead[i]
  BY <1>1
<1>4. Schedule(P, q, active, readyq, Ready(state'))
  BY DEF Enqueue
<1> HIDE DEF P, q
<1> QED
  BY <1>1, <1>2, <1>3, <1>4 DEF Reschedules

LEMMA ReleaseReschedules ==
  ASSUME IInv, NEW S, NEW quiet, NEW rq, Release(S, quiet, rq, Ready(state'))
  PROVE  Reschedules
<1> DEFINE C == S \cap current
           P == pending \ C
           q == [j \in Jobs |-> ahead[j] \ C]
<1>1. /\ P \in SUBSET Jobs /\ q \in [Jobs -> SUBSET Jobs]
      /\ active \ C \in SUBSET active /\ P \cap (active \ C) = {}
      /\ \A i \in pending \cap P : q[i] \subseteq ahead[i]
  BY DEF IInv, SchedTypeOK, CurrentOK
<1>2. InOrder(P, q)
  <2>1. /\ C \in SUBSET Jobs /\ pending \in SUBSET Jobs
        /\ ahead \in [Jobs -> SUBSET Jobs] /\ InOrder(pending, ahead)
    BY DEF IInv, SchedTypeOK
  <2> HIDE DEF C
  <2> QED
    BY <2>1, RemoveInOrder
<1>3. Schedule(P, q, active \ C, rq, Ready(state'))
  BY DEF Release
<1> HIDE DEF P, q
<1> QED
  BY <1>1, <1>2, <1>3 DEF Reschedules

(* Which jobs are ready depends only on which jobs have succeeded.         *)
LEMMA ReadyUnchanged ==
  ASSUME deps \in [Jobs -> SUBSET Jobs],
         \A j \in Jobs : state'[j] = "succeeded" <=> state[j] = "succeeded"
  PROVE  Ready(state') = Ready(state)
BY DEF Ready

(* Every step that changes the queue, the reservations or who is ready     *)
(* ends with _schedule, or leaves nothing that waits.                      *)
LEMMA StepReschedules ==
  ASSUME IInv, RInv, [Next]_vars
  PROVE  \/ Reschedules
         \/ /\ UNCHANGED <<phase, kind, pending, ahead, active>>
            /\ Ready(state') = Ready(state)
         \/ pending' = {}
<1> DEFINE Same == /\ UNCHANGED <<phase, kind, pending, ahead, active>>
                   /\ Ready(state') = Ready(state)
<1>1. deps \in [Jobs -> SUBSET Jobs] /\ state \in [Jobs -> States]
  BY DEF RInv, RecordTypes, Dependencies
<1>2. ASSUME NEW j \in Jobs, Submit(j) PROVE Reschedules \/ Same
  <2>1. CASE HasFailedDependency(j, state)
    <3>1. UNCHANGED schedVars /\ state' = [state EXCEPT ![j] = "cancelled"]
          /\ state[j] = "none"
      BY <1>2, <2>1 DEF Submit, With
    <3> QED
      BY <1>1, <3>1, ReadyUnchanged DEF schedVars
  <2>2. CASE ~HasFailedDependency(j, state)
    <3>1. j \notin current
      BY <1>2 DEF Submit, RInv, LiveRecords, Running, Waiting
    <3> QED
      BY <1>2, <2>2, <3>1, EnqueueReschedules DEF Submit
  <2> QED
    BY <2>1, <2>2
<1>3. ASSUME NEW j \in Jobs, CancelQueued(j) PROVE Reschedules
  BY <1>3, ReleaseReschedules DEF CancelQueued, ReleaseJobs
<1>4. ASSUME NEW j \in Jobs, CancelRunning(j) PROVE Same
  BY <1>4 DEF CancelRunning, RequestCancel, admissionVars, recordVars
<1>5. ASSUME NEW j \in Jobs, Retry(j) PROVE Reschedules
  <2>1. j \notin current
    BY <1>5 DEF Retry, RInv, LiveRecords, Running, Waiting, Unsuccessful
  <2> QED
    BY <1>5, <2>1, EnqueueReschedules DEF Retry
<1>6. ASSUME NEW w \in Workers, Worker(w) PROVE Reschedules \/ Same
  <2>1. ASSUME NEW d \in readyq, RunStart(w, d) PROVE Same
    <3>1. /\ state' = [state EXCEPT ![d[1]] = "running"] /\ state[d[1]] = "queued"
          /\ UNCHANGED <<phase, kind, pending, ahead, active>>
      BY <2>1 DEF RunStart, With, TakeDispatch, admissionVars
    <3> QED
      BY <1>1, <3>1, ReadyUnchanged
  <2>2. ASSUME NEW d \in readyq, RunDeclined(w, d) PROVE Reschedules
    BY <2>2, ReleaseReschedules DEF RunDeclined, TakeAndReturn, recordVars
  <2>3. ASSUME NEW d \in readyq, DropReleased(w, d) PROVE Same
    BY <2>3 DEF DropReleased, SkipDispatch, admissionVars, recordVars
  <2>4. ASSUME NEW outcome \in Outcomes, RunEnd(w, outcome) PROVE Reschedules
    BY <2>4, ReleaseReschedules DEF RunEnd, ReleaseJobs
  <2>5. ASSUME RunReturn(w) PROVE Reschedules
    <3>1. Schedule(pending, ahead, active, readyq, Ready(state'))
      BY <2>5 DEF RunReturn, WorkerReturn, Executing, recordVars
    <3>2. /\ pending \in SUBSET Jobs /\ active \in SUBSET active
          /\ ahead \in [Jobs -> SUBSET Jobs] /\ InOrder(pending, ahead)
          /\ pending \cap active = {}
      BY DEF IInv, SchedTypeOK, CurrentOK
    <3> QED
      BY <3>1, <3>2 DEF Reschedules
  <2>6. ASSUME WorkerStops(w) PROVE Same
    BY <2>6 DEF WorkerStops, WorkerExit, admissionVars, recordVars
  <2> QED
    BY <1>6, <2>1, <2>2, <2>3, <2>4, <2>5, <2>6 DEF Worker
<1>7. ASSUME StartDaemon PROVE Reschedules
  <2> DEFINE Q == {j \in Jobs : state'[j] = "queued"}
             q == [j \in Jobs |-> {i \in Q : i < j}]
  <2>1. Schedule(Q, q, {}, {}, Ready(state')) /\ phase = "down"
    BY <1>7 DEF StartDaemon, Start
  <2>2. Q \in SUBSET Jobs /\ q \in [Jobs -> SUBSET Jobs] /\ InOrder(Q, q)
    BY FifoInOrder
  <2>3. pending = {}
    BY <2>1 DEF RInv, DownIsEmpty, IInv, CurrentOK
  <2> HIDE DEF Q, q
  <2> QED
    BY <2>1, <2>2, <2>3 DEF Reschedules
<1>8. ASSUME CloseDaemon \/ CloseEnds PROVE pending' = {}
  BY <1>8 DEF CloseDaemon, BeginClose, CloseEnds, FinishClose, Forget
<1>9. ASSUME Crashes PROVE pending' = {}
  <2>1. CASE phase = "down"
    BY <1>9, <2>1 DEF Crashes, CrashBetween, CrashInTerminal, CrashInSubmit, CrashInStart,
       Crash, RInv, DownIsEmpty, IInv, CurrentOK, schedVars
  <2>2. CASE phase # "down"
    BY <1>9, <2>2 DEF Crashes, CrashBetween, CrashInTerminal, CrashInSubmit, CrashInStart,
       Crash, Forget
  <2> QED
    BY <2>1, <2>2
<1>10. ASSUME UNCHANGED vars PROVE Same
  BY <1>10 DEF vars, schedVars
<1> QED
  BY <1>2, <1>3, <1>4, <1>5, <1>6, <1>7, <1>8, <1>9, <1>10 DEF Next, Clients

LEMMA KindStays ==
  ASSUME [SchedNext]_schedVars
  PROVE  UNCHANGED kind
BY DEF SchedNext, Callers, WorkerSteps, Start, Enqueue, ReleaseJobs, RequestCancel,
       BeginClose, TakeDispatch, SkipDispatch, TakeAndReturn, WorkerReturn, WorkerExit,
       FinishClose, Crash, Forget, schedVars

(* A pass of admission leaves only jobs with a reason to wait.             *)
LEMMA PassExplains ==
  ASSUME NEW P \in SUBSET Jobs, NEW B \in SUBSET Jobs, NEW q \in [Jobs -> SUBSET Jobs],
         NEW rq, IInv', UNCHANGED <<kind, deps>>, phase' = "started",
         Schedule(P, q, B, rq, Ready(state')), NEW j \in pending'
  PROVE  HasWaitingReason(j)'
<1> DEFINE R == Ready(state')
<1>1. PICK A \in SUBSET P :
        /\ Admitted(A, P, q, B, R)
        /\ pending' = P \ A
        /\ ahead' = [i \in Jobs |-> IF i \in P \ A THEN q[i] \ A ELSE {}]
        /\ active' = B \cup A
  BY DEF Schedule
<1>2. j \in P \ A /\ j \in Jobs /\ ahead'[j] = q[j] \ A
  BY <1>1
<1>3. ~(/\ j \in R
        /\ Reader(j) => ~BehindBarrier(j, q[j], R)
        /\ Fits(j, B \cup (A \cap q[j])))
  BY <1>1, <1>2 DEF Admitted
<1>4. ASSUME Fits(j, active') PROVE Fits(j, B \cup (A \cap q[j]))
  <2>1. active' \in SUBSET Jobs /\ B \cup (A \cap q[j]) \in SUBSET active'
    BY <1>1
  <2> QED
    BY <1>2, <1>4, <2>1, FitsFewer
<1>5. CASE j \notin R
  BY <1>5 DEF HasWaitingReason, Ready
<1>6. CASE Reader(j) /\ BehindBarrier(j, q[j], R)
  <2>1. PICK i \in q[j] \cap R : ~Reader(i) /\ SameProject(i, j)
    BY <1>6 DEF BehindBarrier
  <2>2. CASE i \in A
    <3>1. i \in active' /\ ~Compatible(i, j)
      BY <1>1, <2>1, <2>2 DEF Compatible
    <3> QED
      BY <3>1 DEF HasWaitingReason, Compatible, SameProject, SameScope, Reader
  <2>3. CASE i \notin A
    <3>1. i \in ahead'[j] /\ i \in Ready(state')
      BY <1>2, <2>1, <2>3
    <3> QED
      BY <1>6, <2>1, <3>1 DEF HasWaitingReason, SameProject, Reader, Ready
  <2> QED
    BY <2>2, <2>3
<1>7. CASE ~Fits(j, active')
  <2>1. /\ Cardinality(active') \in Nat /\ MaxJobs \in Nat
        /\ Cardinality(ReadersWith(j, active')) \in Nat
    <3>1. active' \in SUBSET Jobs /\ ReadersWith(j, active') \in SUBSET Jobs
      BY <1>1 DEF ReadersWith
    <3> QED
      BY <3>1, FiniteJobs, SchedAssumption, FS_CardinalityType DEF MaxJobs
  <2>2. \/ Cardinality(active') >= MaxJobs
        \/ \E i \in active' : ~Compatible(i, j)
        \/ Reader(j) /\ Cardinality(ReadersWith(j, active')) >= MaxProjectReaders
    BY <1>7, <2>1, SchedAssumption DEF Fits
  <2> QED
    BY <2>2 DEF HasWaitingReason, Compatible, SameProject, SameScope, Reader, ReadersWith
<1> QED
  BY <1>3, <1>4, <1>5, <1>6, <1>7

(* Work conservation: whatever the callers do, no pending job waits        *)
(* without one of the reasons of waiting_reason.                           *)
THEOREM EveryWaitIsExplained == Spec => []NoUnexplainedWait
<1>1. Init => NoUnexplainedWait
  BY DEF Init, SchedInit, NoUnexplainedWait
<1>2. IInv /\ IInv' /\ RInv /\ NoUnexplainedWait /\ [Next]_vars => NoUnexplainedWait'
  <2> SUFFICES ASSUME IInv, IInv', RInv, NoUnexplainedWait, [Next]_vars,
                      phase' = "started", NEW j \in pending'
               PROVE  HasWaitingReason(j)'
    BY DEF NoUnexplainedWait
  <2>1. UNCHANGED <<kind, deps>>
    BY StepCalls, KindStays DEF Next, Clients, Worker, Submit, CancelQueued, CancelRunning,
       Retry, RunStart, RunDeclined, DropReleased, RunEnd, RunReturn, WorkerStops,
       CloseDaemon, CloseEnds, StartDaemon, Crashes, CrashBetween, CrashInTerminal,
       CrashInSubmit, CrashInStart, recordVars, vars
  <2>2. CASE Reschedules
    <3>0. PICK P \in SUBSET Jobs, B \in SUBSET active, q \in [Jobs -> SUBSET Jobs] :
            \E rq : Schedule(P, q, B, rq, Ready(state'))
      BY <2>2 DEF Reschedules
    <3>1. PICK rq : Schedule(P, q, B, rq, Ready(state'))
      BY <3>0
    <3>2. B \in SUBSET Jobs
      BY DEF IInv, SchedTypeOK
    <3> QED
      BY <2>1, <3>1, <3>2, PassExplains
  <2>3. CASE /\ UNCHANGED <<phase, kind, pending, ahead, active>>
             /\ Ready(state') = Ready(state)
    <3>1. HasWaitingReason(j)
      BY <2>3 DEF NoUnexplainedWait
    <3>2. Ready(state)' = Ready(state)
      BY <2>1, <2>3 DEF Ready
    <3> QED
      BY <2>3, <3>1, <3>2 DEF HasWaitingReason, Compatible, SameProject, SameScope,
         Reader, ReadersWith
  <2> QED
    BY <2>2, <2>3, StepReschedules
<1> QED
  BY <1>1, <1>2, RecordsInvariant, PTL DEF Spec

(* A ready exclusive job is overtaken in its project by no job that was    *)
(* not in front of it.                                                     *)
THEOREM ExclusiveNotBypassed == Spec => BoundedBypass
<1>1. IInv /\ RInv /\ [Next]_vars =>
        [\A i \in pending \cap pending' :
           ~Reader(i) /\ i \in Ready(state) =>
             \A j \in active' \ active : SameProject(i, j) => j \in ahead[i]]_vars
  <2> SUFFICES ASSUME IInv, RInv, [Next]_vars, NEW i \in pending \cap pending',
                      ~Reader(i), i \in Ready(state),
                      NEW j \in active' \ active, SameProject(i, j)
               PROVE  j \in ahead[i]
    OBVIOUS
  <2>1. CASE Reschedules
    <3>1. PICK P \in SUBSET Jobs, B \in SUBSET active, q \in [Jobs -> SUBSET Jobs] : \E rq :
            /\ InOrder(P, q)
            /\ \A k \in pending \cap P : q[k] \subseteq ahead[k]
            /\ Schedule(P, q, B, rq, Ready(state'))
      BY <2>1 DEF Reschedules
    <3>2. PICK A \in SUBSET P :
            /\ Admitted(A, P, q, B, Ready(state')) \/ A = {}
            /\ pending' = P \ A /\ active' = B \cup A
      BY <3>1 DEF Schedule
    <3>3. j \in A /\ i \in P \ A
      BY <3>2
    <3>4. i \in Ready(state')
      <4>1. /\ deps \in [Jobs -> SUBSET Jobs]
            /\ \A k \in Jobs : state[k] = "succeeded" => state'[k] = "succeeded"
        BY StateChanges DEF RInv, RecordTypes, Dependencies
      <4> QED
        BY <4>1 DEF Ready
    <3>5. B \in SUBSET Jobs
      BY DEF IInv, SchedTypeOK
    <3>6. Admitted(A, P, q, B, Ready(state'))
      BY <3>2, <3>3
    <3>7. j \in q[i]
      BY <3>1, <3>3, <3>4, <3>5, <3>6, NoOvertaking
    <3> QED
      BY <3>1, <3>3, <3>7
  <2> QED
    BY <2>1, StepReschedules
<1> QED
  BY <1>1, RecordsInvariant, PTL DEF Spec, BoundedBypass

-----------------------------------------------------------------------------
(* The ledger: every step of the daemon, crashes in the middle of a        *)
(* handler included, is one step of the contract of the job records, or    *)
(* leaves the records alone.                                               *)

(* The jobs C are cancelled because a dependency of each one ended without *)
(* success; that is all the ledger asks of a daemon that stays up, since   *)
(* no queued job is left behind an unsuccessful one.                       *)
LEMMA CascadeIsSettling ==
  ASSUME RInv', UNCHANGED deps, NEW st, NEW C \in SUBSET Jobs,
         \A i \in C : st[i] = "queued" /\ \E k \in deps[i] : state'[k] \in Unsuccessful,
         state' = Cancelling(st, C)
  PROVE  Ledger!Settle(st)
<1>1. C \in SUBSET {j \in Jobs : st[j] = "queued"}
  OBVIOUS
<1>2. state' = [j \in Jobs |-> IF j \in C THEN "cancelled" ELSE st[j]]
  BY DEF Cancelling
<1>3. \A j \in C : Ledger!HasFailedDependency(j, state')
  BY DEF Ledger!HasFailedDependency, Ledger!Unsuccessful, Unsuccessful
<1>4. (phase' # "down") => Ledger!Settled(state')
  BY DEF RInv, DependenciesHold, NoOrphanDependent, HasFailedDependency,
         Ledger!Settled, Ledger!HasFailedDependency, Ledger!Unsuccessful, Unsuccessful
<1> QED
  BY <1>1, <1>2, <1>3, <1>4 DEF Ledger!Settle

(* A job that changes alone.                                               *)
LEMMA ChangeIsSettling ==
  ASSUME RInv', UNCHANGED deps, NEW st \in [Jobs -> States], state' = st
  PROVE  Ledger!Settle(st)
<1>1. state' = Cancelling(st, {})
  BY DEF Cancelling
<1> QED
  BY <1>1, CascadeIsSettling

(* The causes of a cascade, complete or torn, ended without success.       *)
LEMMA CascadeHasCauses ==
  ASSUME NEW st \in [Jobs -> States], NEW C \in SUBSET Jobs, NEW roots \in SUBSET Jobs,
         deps \in [Jobs -> SUBSET Jobs],
         IsCascade(C, roots, st) \/ IsTornCascade(C, roots, st),
         \A i \in roots : st[i] \in Unsuccessful,
         state' = Cancelling(st, C)
  PROVE  \A i \in C : st[i] = "queued" /\ \E k \in deps[i] : state'[k] \in Unsuccessful
<1> SUFFICES ASSUME NEW i \in C
             PROVE  st[i] = "queued" /\ \E k \in deps[i] : state'[k] \in Unsuccessful
  OBVIOUS
<1>1. st[i] = "queued" /\ deps[i] \cap (roots \cup C) # {}
  BY DEF IsCascade, IsTornCascade
<1>2. PICK k \in deps[i] : k \in roots \cup C
  BY <1>1
<1>3. k \in Jobs
  OBVIOUS
<1>4. state'[k] = IF k \in C THEN "cancelled" ELSE st[k]
  BY <1>3 DEF Cancelling
<1> QED
  BY <1>1, <1>2, <1>4 DEF Unsuccessful

LEMMA SubmitCreates ==
  ASSUME RInv, RInv', NEW j \in Jobs, Submit(j)
  PROVE  Ledger!Create(j)
<1>1. /\ state \in [Jobs -> States] /\ deps \in [Jobs -> SUBSET Jobs]
      /\ phase = "started" /\ state[j] = "none" /\ UNCHANGED deps
      /\ \A i \in Jobs : i < j => state[i] # "none"
  BY DEF RInv, RecordTypes, Dependencies, Submit
<1> DEFINE st == [state EXCEPT ![j] = "queued"]
<1>2. st \in [Jobs -> States]
  BY <1>1 DEF States
<1>3. Ledger!Settle(st)
  <2>1. CASE HasFailedDependency(j, state)
    <3>1. state' = [state EXCEPT ![j] = "cancelled"]
      BY <2>1 DEF Submit, With
    <3>2. state' = Cancelling(st, {j})
      BY <1>1, <3>1 DEF Cancelling
    <3>3. st[j] = "queued" /\ \E k \in deps[j] : state'[k] \in Unsuccessful
      BY <1>1, <2>1, <3>1 DEF HasFailedDependency, Unsuccessful
    <3> HIDE DEF st
    <3>4. \A i \in {j} : st[i] = "queued" /\ \E k \in deps[i] : state'[k] \in Unsuccessful
      BY <3>3
    <3> DEFINE C == {j}
    <3>5. C \in SUBSET Jobs
      OBVIOUS
    <3> HIDE DEF C
    <3> QED
      BY <1>1, <3>2, <3>4, <3>5, CascadeIsSettling DEF C
  <2>2. CASE ~HasFailedDependency(j, state)
    <3>1. state' = st
      BY <2>2 DEF Submit, With
    <3> HIDE DEF st
    <3> QED
      BY <1>1, <1>2, <3>1, ChangeIsSettling
  <2> QED
    BY <2>1, <2>2
<1> QED
  BY <1>1, <1>3 DEF Ledger!Create

LEMMA CancelWithdraws ==
  ASSUME RInv, RInv', NEW j \in Jobs, CancelQueued(j)
  PROVE  Ledger!Withdraw(j)
<1> DEFINE st == [state EXCEPT ![j] = "cancelled"]
<1>1. /\ state \in [Jobs -> States] /\ deps \in [Jobs -> SUBSET Jobs]
      /\ phase # "down" /\ state[j] = "queued" /\ UNCHANGED deps
  BY DEF RInv, RecordTypes, Dependencies, CancelQueued
<1>2. PICK C \in SUBSET Jobs : IsCascade(C, {j}, st) /\ state' = Cancelling(st, C)
  BY DEF CancelQueued, With
<1>3. st \in [Jobs -> States] /\ st[j] \in Unsuccessful
  BY <1>1 DEF States, Terminal, Unsuccessful
<1> HIDE DEF st
<1>4. Ledger!Settle(st)
  BY <1>1, <1>2, <1>3, CascadeHasCauses, CascadeIsSettling
<1> QED
  BY <1>1, <1>4 DEF Ledger!Withdraw, st

LEMMA RetryResets ==
  ASSUME RInv, NEW j \in Jobs, Retry(j)
  PROVE  Ledger!Reset(j)
BY DEF Retry, With, Enqueue, Ledger!Reset, Ledger!HasFailedDependency,
       HasFailedDependency, Ledger!Unsuccessful, Unsuccessful

(* A reserved job may join the running ones, which are reserved too.       *)
LEMMA RunStartBegins ==
  ASSUME IInv, IInv', RInv, NEW w \in Workers, NEW d \in readyq, RunStart(w, d)
  PROVE  Ledger!Begin(d[1])
<1> DEFINE j == d[1]
<1>1. /\ j \in active /\ j \in Jobs /\ phase = "started" /\ state[j] = "queued"
      /\ UNCHANGED phase /\ state' = [state EXCEPT ![j] = "running"]
  BY LiveAfterTake DEF RunStart, TakeDispatch, With, IInv, SchedTypeOK
<1>2. \A i \in deps[j] : state[i] = "succeeded"
  BY <1>1 DEF RInv, ReservedAreReady, Ready
<1>3. Running \subseteq active /\ j \notin Running
  BY <1>1 DEF RInv, LiveRecords, Running, Working, Started, Live, IInv, CurrentOK,
              DispatchOK
<1> HIDE DEF j
<1>4. active \in SUBSET Jobs /\ Running \cup {j} \in SUBSET Jobs
  BY <1>1, <1>3 DEF IInv, SchedTypeOK
<1>5. Admissible(Running \cup {j})
  BY <1>1, <1>3, <1>4, SubsetAdmissible DEF IInv
<1>6. IsFiniteSet(Running) /\ Cardinality(Running) \in Nat /\ MaxJobs \in Nat
  BY <1>4, FiniteJobs, SchedAssumption, FS_CardinalityType DEF MaxJobs, Running
<1>7. Cardinality(Running) < MaxJobs
  <2>1. Cardinality(Running \cup {j}) = Cardinality(Running) + 1
    BY <1>3, <1>6, FS_AddElement
  <2> QED
    BY <1>5, <1>6, <2>1 DEF Admissible
<1>8. \A i \in Running : Compatible(i, j)
  BY <1>3, <1>5 DEF Admissible
<1>9. ASSUME Reader(j) PROVE Cardinality(ReadersWith(j, Running)) < MaxProjectReaders
  <2> DEFINE S == ReadersWith(j, Running)
  <2>1. ReadersWith(j, Running \cup {j}) = S \cup {j} /\ j \notin S
    BY <1>3, <1>9 DEF ReadersWith, SameProject
  <2>2. S \in SUBSET Jobs
    BY DEF ReadersWith, Running
  <2>3. IsFiniteSet(S) /\ Cardinality(S) \in Nat
    BY <2>2, FiniteJobs
  <2> HIDE DEF S
  <2>4. Cardinality(S \cup {j}) = Cardinality(S) + 1
    BY <2>1, <2>3, FS_AddElement
  <2>5. Cardinality(S \cup {j}) <= MaxProjectReaders
    BY <1>5, <1>9, <2>1 DEF Admissible
  <2> QED
    BY <2>3, <2>4, <2>5, SchedAssumption DEF S
<1>10. Ledger!Running = Running
  BY DEF Ledger!Running, Running
<1>11. \A S : Ledger!Cardinality(S) = Cardinality(S)
  BY DEF Ledger!Cardinality, Cardinality
<1>12. Ledger!MayJoin(j, Ledger!Running)
  BY <1>7, <1>8, <1>9, <1>10, <1>11
     DEF Ledger!MayJoin, Ledger!Compatible, Ledger!Reader, Ledger!SameProject,
         Compatible, Reader, SameProject, SameScope, ReadersWith
<1> QED
  BY <1>1, <1>2, <1>12 DEF Ledger!Begin, j

LEMMA RunEndEnds ==
  ASSUME IInv, RInv, RInv', NEW w \in Workers, NEW outcome \in Outcomes,
         RunEnd(w, outcome)
  PROVE  \E j \in Jobs : \E s \in Ledger!Terminal : Ledger!End(j, s)
<1> DEFINE j == worker[w][1]
           s == FinalState(j, outcome)
           st == [state EXCEPT ![j] = s]
           roots == IF s = "succeeded" THEN {} ELSE {j}
<1>1. /\ state \in [Jobs -> States] /\ deps \in [Jobs -> SUBSET Jobs]
      /\ phase # "down" /\ j \in Jobs /\ state[j] = "running" /\ UNCHANGED deps
  BY ExecutingRuns DEF RInv, RecordTypes, Dependencies, RunEnd
<1>2. PICK C \in SUBSET Jobs : IsCascade(C, roots, st) /\ state' = Cancelling(st, C)
  BY DEF RunEnd, With
<1>3. s \in Terminal /\ (s # "succeeded" => s \in Unsuccessful)
  BY FinalStateType
<1> HIDE DEF s, j
<1>4. st \in [Jobs -> States] /\ roots \in SUBSET Jobs
      /\ \A i \in roots : st[i] \in Unsuccessful
  BY <1>1, <1>3 DEF States
<1> HIDE DEF st, roots
<1>5. Ledger!Settle(st)
  BY <1>1, <1>2, <1>4, CascadeHasCauses, CascadeIsSettling
<1>6. s \in Ledger!Terminal
  BY <1>3 DEF Ledger!Terminal, Ledger!Unsuccessful, Terminal, Unsuccessful
<1>7. Ledger!End(j, s)
  BY <1>1, <1>5 DEF Ledger!End, st
<1> QED
  BY <1>1, <1>6, <1>7

LEMMA StartRecovers ==
  ASSUME RInv, RInv', StartDaemon \/ CrashInStart
  PROVE  Ledger!Recover
<1> DEFINE st == Interrupted(state)
<1>1. /\ state \in [Jobs -> States] /\ deps \in [Jobs -> SUBSET Jobs]
      /\ phase = "down" /\ UNCHANGED deps
  BY DEF RInv, RecordTypes, Dependencies, StartDaemon, Start, CrashInStart
<1>2. PICK C \in SUBSET Jobs :
        /\ IsCascade(C, UnsuccessfulIn(st), st) \/ IsTornCascade(C, UnsuccessfulIn(st), st)
        /\ state' = Cancelling(st, C)
  BY DEF StartDaemon, CrashInStart
<1>3. st \in [Jobs -> States]
  BY <1>1 DEF Interrupted, States, Terminal, Unsuccessful
<1>4. st = [j \in Jobs |-> IF state[j] = "running" THEN "interrupted" ELSE state[j]]
  BY DEF Interrupted
<1> HIDE DEF st
<1>5. UnsuccessfulIn(st) \in SUBSET Jobs /\ \A i \in UnsuccessfulIn(st) : st[i] \in Unsuccessful
  BY DEF UnsuccessfulIn
<1>6. Ledger!Settle(st)
  BY <1>1, <1>2, <1>3, <1>5, CascadeHasCauses, CascadeIsSettling
<1> QED
  BY <1>1, <1>4, <1>6 DEF Ledger!Recover

(* A handler torn by a crash is the same step of the ledger, with a daemon *)
(* that owes no settled records.                                           *)
LEMMA TornEndSettles ==
  ASSUME RInv, RInv', UNCHANGED deps, NEW j \in Jobs, NEW s \in Unsuccessful,
         TornEnd(j, s)
  PROVE  Ledger!Settle([state EXCEPT ![j] = s])
<1> DEFINE st == [state EXCEPT ![j] = s]
<1>1. state \in [Jobs -> States] /\ deps \in [Jobs -> SUBSET Jobs]
  BY DEF RInv, RecordTypes, Dependencies
<1>2. PICK C \in SUBSET Jobs : IsTornCascade(C, {j}, st) /\ state' = Cancelling(st, C)
  BY DEF TornEnd, With
<1>3. st \in [Jobs -> States] /\ st[j] \in Unsuccessful
  BY <1>1 DEF States, Terminal, Unsuccessful
<1> HIDE DEF st
<1>4. Ledger!Settle(st)
  BY <1>1, <1>2, <1>3, CascadeHasCauses, CascadeIsSettling
<1> QED
  BY <1>4 DEF st

LEMMA CrashesStop ==
  ASSUME IInv, RInv, RInv', Crashes
  PROVE  \/ \E j \in Jobs : \/ Ledger!Create(j) \/ Ledger!Withdraw(j)
                            \/ \E s \in Ledger!Terminal : Ledger!End(j, s)
         \/ Ledger!Stop \/ Ledger!Recover
<1>1. CASE CrashBetween
  BY <1>1 DEF CrashBetween, Crash, Forget, recordVars, Ledger!Stop
<1>2. CASE CrashInTerminal
  <2>1. phase # "down" /\ UNCHANGED deps
    BY <1>2 DEF CrashInTerminal, Crash
  <2>2. ASSUME NEW w \in Workers, Executing(w), NEW outcome \in {"failed", "raised"},
               TornEnd(worker[w][1], FinalState(worker[w][1], outcome))
        PROVE  \E j \in Jobs : \E s \in Ledger!Terminal : Ledger!End(j, s)
    <3> DEFINE j == worker[w][1]
               s == FinalState(j, outcome)
    <3>1. j \in Jobs /\ state[j] = "running" /\ s \in Unsuccessful
      BY <2>2, ExecutingRuns DEF FinalState, Unsuccessful
    <3>2. Ledger!Settle([state EXCEPT ![j] = s])
      BY <2>1, <2>2, <3>1, TornEndSettles
    <3> HIDE DEF j, s
    <3>3. s \in Ledger!Terminal
      BY <3>1 DEF Ledger!Terminal, Ledger!Unsuccessful, Unsuccessful
    <3> QED
      BY <2>1, <3>1, <3>2, <3>3 DEF Ledger!End
  <2>3. ASSUME NEW j \in Jobs, state[j] = "queued", TornEnd(j, "cancelled")
        PROVE  Ledger!Withdraw(j)
    <3>1. "cancelled" \in Unsuccessful
      BY DEF Unsuccessful
    <3> QED
      BY <2>1, <2>3, <3>1, TornEndSettles DEF Ledger!Withdraw
  <2> QED
    BY <1>2, <2>2, <2>3 DEF CrashInTerminal
<1>3. CASE CrashInSubmit
  <2>1. PICK j \in Jobs : /\ state[j] = "none"
                          /\ \A i \in Jobs : i < j => state[i] # "none"
                          /\ state' = [state EXCEPT ![j] = "queued"]
    BY <1>3 DEF CrashInSubmit, With
  <2>2. phase = "started" /\ UNCHANGED deps
    BY <1>3 DEF CrashInSubmit
  <2>3. [state EXCEPT ![j] = "queued"] \in [Jobs -> States]
    BY DEF RInv, RecordTypes, States
  <2>4. Ledger!Settle([state EXCEPT ![j] = "queued"])
    BY <2>1, <2>2, <2>3, ChangeIsSettling
  <2> QED
    BY <2>1, <2>2, <2>4 DEF Ledger!Create
<1>4. CASE CrashInStart
  BY <1>4, StartRecovers
<1> QED
  BY <1>1, <1>2, <1>3, <1>4 DEF Crashes

LEMMA LedgerStep ==
  ASSUME IInv, IInv', RInv, RInv', [Next]_vars
  PROVE  [Ledger!Next]_(Ledger!vars)
<1>1. UNCHANGED <<kind, deps>>
  BY StepCalls, KindStays DEF Next, Clients, Worker, Submit, CancelQueued, CancelRunning,
     Retry, RunStart, RunDeclined, DropReleased, RunEnd, RunReturn, WorkerStops,
     CloseDaemon, CloseEnds, StartDaemon, Crashes, CrashBetween, CrashInTerminal,
     CrashInSubmit, CrashInStart, recordVars, vars
<1>2. ASSUME NEW j \in Jobs, Submit(j) \/ CancelQueued(j) \/ Retry(j)
      PROVE  Ledger!Next
  BY <1>1, <1>2, SubmitCreates, CancelWithdraws, RetryResets DEF Ledger!Next
<1>3. ASSUME NEW j \in Jobs, CancelRunning(j)
      PROVE  UNCHANGED <<state, phase>>
  BY <1>3 DEF CancelRunning, RequestCancel, recordVars
<1>4. ASSUME NEW w \in Workers, Worker(w)
      PROVE  Ledger!Next \/ UNCHANGED <<state, phase>>
  <2>1. ASSUME NEW d \in readyq, RunStart(w, d) PROVE Ledger!Next
    <3>1. d[1] \in Jobs
      BY DEF IInv, SchedTypeOK, Dispatch
    <3> QED
      BY <1>1, <2>1, <3>1, RunStartBegins DEF Ledger!Next
  <2>2. ASSUME NEW d \in readyq, RunDeclined(w, d) \/ DropReleased(w, d)
        PROVE  UNCHANGED <<state, phase>>
    BY <2>2 DEF RunDeclined, TakeAndReturn, DropReleased, SkipDispatch, recordVars
  <2>3. ASSUME NEW outcome \in Outcomes, RunEnd(w, outcome) PROVE Ledger!Next
    BY <1>1, <2>3, RunEndEnds DEF Ledger!Next
  <2>4. ASSUME RunReturn(w) \/ WorkerStops(w) PROVE UNCHANGED <<state, phase>>
    BY <2>4 DEF RunReturn, WorkerReturn, WorkerStops, WorkerExit, recordVars
  <2> QED
    BY <1>4, <2>1, <2>2, <2>3, <2>4 DEF Worker
<1>5. ASSUME StartDaemon \/ Crashes PROVE Ledger!Next
  BY <1>1, <1>5, StartRecovers, CrashesStop DEF Ledger!Next
<1>6. ASSUME CloseDaemon PROVE state' = state /\ phase # "down" /\ phase' # "down"
  BY <1>6 DEF CloseDaemon, BeginClose, recordVars
<1>7. ASSUME CloseEnds PROVE Ledger!Next
  BY <1>1, <1>7 DEF CloseEnds, FinishClose, Forget, recordVars, Ledger!Stop, Ledger!Next
<1>8. ASSUME UNCHANGED vars PROVE UNCHANGED <<state, phase>>
  BY <1>8 DEF vars, schedVars
<1>9. \/ Ledger!Next
      \/ state' = state /\ (phase' # "down" <=> phase # "down")
  BY <1>2, <1>3, <1>4, <1>5, <1>6, <1>7, <1>8 DEF Next, Clients
<1> QED
  BY <1>1, <1>9 DEF Ledger!vars

(* The daemon implements the ledger, whatever its workers, waiters and     *)
(* queues do, and wherever a crash tears a handler.                        *)
THEOREM DaemonImplementsLedger == Spec => ImplementsLedger
<1>1. Init => Ledger!Init
  BY DEF Init, SchedInit, Ledger!Init, Dependencies
<1>2. IInv /\ IInv' /\ RInv /\ RInv' /\ [Next]_vars => [Ledger!Next]_(Ledger!vars)
  BY LedgerStep
<1> QED
  BY <1>1, <1>2, RecordsInvariant, PTL DEF Spec, ImplementsLedger, Ledger!Spec

=============================================================================
