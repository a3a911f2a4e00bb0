----------------------------- MODULE JobRuntime -----------------------------
(***************************************************************************)
(* The life of jobs in the daemon: the handlers of Runtime (submit,        *)
(* cancel, retry, start, close in src/openmcp/runtime.py), the JobRunner   *)
(* that a worker executes (src/openmcp/execution.py) and the job records   *)
(* they keep in SQLite (src/openmcp/database.py), composed with the        *)
(* admission scheduler of ProjectScheduler.                                *)
(*                                                                         *)
(* The records survive a crash, everything of the scheduler is lost.  A    *)
(* handler is atomic between two awaits: it is one action here, with the   *)
(* scheduler methods it calls and the _schedule they end with.  A crash    *)
(* can come between the commits of one handler (the Torn actions).         *)
(***************************************************************************)
EXTENDS ProjectScheduler

CONSTANTS
  MaxRetries,   (* bound: calls of retry that are granted *)
  MaxCrashes    (* bound: crashes of the daemon           *)

ASSUME BoundsAssumption == MaxRetries \in Nat /\ MaxCrashes \in Nat

VARIABLES
  deps,       (* job_dependencies: the jobs that j depends on, immutable   *)
  state,      (* jobs.state; "none" before the job is submitted            *)
  retries,    (* granted retries so far                                    *)
  crashes     (* crashes so far                                            *)

recordVars == <<deps, state>>
boundVars  == <<retries, crashes>>
vars == <<schedVars, deps, state, retries, crashes>>

Unsuccessful == {"failed", "cancelled", "interrupted"}
Terminal     == Unsuccessful \cup {"succeeded"}
States       == Terminal \cup {"none", "queued", "running"}

(* Dependencies name existing jobs of the same project                     *)
(* (create_job_with_dependencies), so they always point back.              *)
Dependencies(k) ==
  {f \in [Jobs -> SUBSET Jobs] :
     \A j \in Jobs : \A i \in f[j] : i < j /\ k[i].project = k[j].project}

(* _dependencies_succeeded, the scheduler's is_ready.                      *)
Ready(st) == {j \in Jobs : \A i \in deps[j] : st[i] = "succeeded"}

(* _failed_dependency                                                      *)
HasFailedDependency(j, st) == \E i \in deps[j] : st[i] \in Unsuccessful

(* Broken variant: the dependents of dependents are left alone.            *)
IsDirectCascade(C, roots, st) ==
  C = {j \in Jobs : st[j] = "queued" /\ deps[j] \cap roots # {}}

(* _cascade_unsuccessful: the queued jobs cancelled when the jobs `roots'  *)
(* ended without success, dependents of dependents included.               *)
IsCascade(C, roots, st) ==
  C = {j \in Jobs : st[j] = "queued" /\ deps[j] \cap (roots \cup C) # {}}

(* What a crash leaves of a cascade: each cancelled job was committed      *)
(* after one of its causes.                                                *)
IsTornCascade(P, roots, st) ==
  /\ \A j \in P : st[j] = "queued"
  /\ \A j \in P : \E i \in deps[j] : i \in roots \/ (i \in P /\ i < j)

(* Broken variant: the repair looks at interrupted parents only.           *)
InterruptedIn(st) == {i \in Jobs : st[i] = "interrupted"}

UnsuccessfulIn(st) == {i \in Jobs : st[i] \in Unsuccessful}

(* interrupt_active_jobs *)
Interrupted(st) ==
  [j \in Jobs |-> IF st[j] = "running" THEN "interrupted" ELSE st[j]]

With(st, j, s) == [st EXCEPT ![j] = s]
Cancelling(st, C) == [j \in Jobs |-> IF j \in C THEN "cancelled" ELSE st[j]]

-----------------------------------------------------------------------------
(* Client calls                                                            *)

(* submit: refused while closing.  The record is created with its links in *)
(* one transaction; a job with an unsuccessful dependency is cancelled at  *)
(* once, any other one is enqueued.                                        *)
Submit(j) ==
  /\ phase = "started"
  /\ state[j] = "none" /\ \A i \in Jobs : i < j => state[i] # "none"
  /\ IF HasFailedDependency(j, state)
     THEN /\ state' = With(state, j, "cancelled")
          /\ UNCHANGED schedVars
     ELSE /\ state' = With(state, j, "queued")
          /\ Enqueue(j, Ready(state'))
  /\ UNCHANGED <<deps, boundVars>>

(* cancel of a queued job that no worker has started: its dispatch leaves  *)
(* the scheduler, the record and its queued dependents become cancelled.   *)
CancelQueued(j) ==
  /\ phase \in {"started", "closing"}
  /\ state[j] = "queued" /\ ~(j \in current /\ Started(j))
  /\ LET st == With(state, j, "cancelled") IN
     \E C \in SUBSET Jobs :
       /\ IsCascade(C, {j}, st)
       /\ state' = Cancelling(st, C)
       /\ ReleaseJobs({j} \cup C, {}, Ready(state'))
  /\ UNCHANGED <<deps, boundVars>>

(* cancel of a running job: the worker sees the event later.               *)
CancelRunning(j) ==
  /\ state[j] = "running"
  /\ RequestCancel(j)
  /\ UNCHANGED <<recordVars, boundVars>>

(* retry: same record, same dependencies, a new dispatch.  It is granted   *)
(* unless a dependency is unsuccessful, also while the daemon closes.      *)
Retry(j) ==
  /\ phase \in {"started", "closing"}
  /\ retries < MaxRetries
  /\ state[j] \in Unsuccessful
  /\ ~HasFailedDependency(j, state)
  /\ state' = With(state, j, "queued")
  /\ Enqueue(j, Ready(state'))
  /\ retries' = retries + 1
  /\ UNCHANGED <<deps, crashes>>

-----------------------------------------------------------------------------
(* The worker's coroutine: JobRunner.run                                   *)

(* run up to its first await: the record becomes running.                  *)
RunStart(w, d) ==
  /\ phase = "started"
  /\ state[d[1]] = "queued"
  /\ TakeDispatch(w, d)
  /\ state' = With(state, d[1], "running")
  /\ UNCHANGED <<deps, boundVars>>

(* run returns before any await and leaves the record as it is: while the  *)
(* daemon closes (the job stays queued), or when it is not queued.         *)
RunDeclined(w, d) ==
  /\ ~(phase = "started" /\ state[d[1]] = "queued")
  /\ TakeAndReturn(w, d, Ready(state))
  /\ UNCHANGED <<recordVars, boundVars>>

DropReleased(w, d) ==
  /\ SkipDispatch(w, d)
  /\ UNCHANGED <<recordVars, boundVars>>

(* How run records an execution that ended with `outcome'.  A result is    *)
(* overruled by the cancel event; an exception of the executor is recorded *)
(* as a failure even if the event is set.                                  *)
Outcomes == {"succeeded", "failed", "raised"}

(* Broken variant: a success that comes after the cancellation counts.     *)
SuccessWins(j, outcome) ==
  IF outcome = "raised" THEN "failed"
  ELSE IF j \notin flagged \/ outcome = "succeeded" THEN outcome
  ELSE IF phase = "closing" THEN "interrupted" ELSE "cancelled"

FinalState(j, outcome) ==
  IF outcome = "raised" THEN "failed"
  ELSE IF j \notin flagged THEN outcome
  ELSE IF phase = "closing" THEN "interrupted" ELSE "cancelled"

(* Broken variant: _schedule runs before the terminal commit.              *)
RunEndBeforeCommit(w, outcome) ==
  /\ Executing(w)
  /\ LET j  == worker[w][1]
         s  == FinalState(j, outcome)
         st == With(state, j, s)
     IN \E C \in SUBSET Jobs :
          /\ IsCascade(C, IF s = "succeeded" THEN {} ELSE {j}, st)
          /\ state' = Cancelling(st, C)
          /\ ReleaseJobs({j} \cup C, {j}, Ready(state))
  /\ UNCHANGED <<deps, boundVars>>

(* The targets return: the terminal commit, the cascade, and the early     *)
(* release of the admission (_job_terminal); waiters stay until the        *)
(* notification that follows.                                              *)
RunEnd(w, outcome) ==
  /\ Executing(w)
  /\ LET j  == worker[w][1]
         s  == FinalState(j, outcome)
         st == With(state, j, s)
     IN \E C \in SUBSET Jobs :
          /\ IsCascade(C, IF s = "succeeded" THEN {} ELSE {j}, st)
          /\ state' = Cancelling(st, C)
          /\ ReleaseJobs({j} \cup C, {j}, Ready(state'))
  /\ UNCHANGED <<deps, boundVars>>

(* The notification after the terminal commit is done; the worker is free. *)
RunReturn(w) ==
  /\ ~Executing(w)
  /\ WorkerReturn(w, Ready(state))
  /\ UNCHANGED <<recordVars, boundVars>>

-----------------------------------------------------------------------------
(* Start, close, crash                                                     *)

(* start: running records become interrupted, queued records with an       *)
(* unsuccessful dependency are cancelled (a crash can have come between a  *)
(* terminal commit and its cascade), and the rest is enqueued.             *)
StartDaemon ==
  /\ LET st == Interrupted(state) IN
     \E C \in SUBSET Jobs :
       /\ IsCascade(C, UnsuccessfulIn(st), st)
       /\ state' = Cancelling(st, C)
  /\ Start({j \in Jobs : state'[j] = "queued"}, Ready(state'))
  /\ UNCHANGED <<deps, boundVars>>

CloseDaemon == BeginClose /\ UNCHANGED <<recordVars, boundVars>>

WorkerStops(w) == WorkerExit(w) /\ UNCHANGED <<recordVars, boundVars>>

CloseEnds == FinishClose /\ UNCHANGED <<recordVars, boundVars>>

CrashBetween ==
  /\ crashes < MaxCrashes /\ crashes' = crashes + 1
  /\ Crash
  /\ UNCHANGED <<recordVars, retries>>

(* A crash inside a handler that ends job j with state s, after the commit *)
(* for j and part of the cascade.                                          *)
TornEnd(j, s) ==
  \E P \in SUBSET Jobs :
    /\ IsTornCascade(P, {j}, With(state, j, s))
    /\ state' = Cancelling(With(state, j, s), P)

CrashInTerminal ==
  /\ crashes < MaxCrashes /\ crashes' = crashes + 1
  /\ \/ \E w \in Workers :
          /\ Executing(w)
          /\ \E outcome \in {"failed", "raised"} :
               TornEnd(worker[w][1], FinalState(worker[w][1], outcome))
     \/ \E j \in Jobs :
          /\ state[j] = "queued" /\ ~(j \in current /\ Started(j))
          /\ TornEnd(j, "cancelled")
  /\ Crash
  /\ UNCHANGED <<deps, retries>>

(* A crash in submit after the creation of a job whose dependency failed.  *)
CrashInSubmit ==
  /\ crashes < MaxCrashes /\ crashes' = crashes + 1
  /\ phase = "started"
  /\ \E j \in Jobs :
       /\ state[j] = "none" /\ \A i \in Jobs : i < j => state[i] # "none"
       /\ HasFailedDependency(j, state)
       /\ state' = With(state, j, "queued")
  /\ Crash
  /\ UNCHANGED <<deps, retries>>

(* A crash in start, after the running records became interrupted and part *)
(* of the repair was committed; nothing has been enqueued yet.             *)
CrashInStart ==
  /\ crashes < MaxCrashes /\ crashes' = crashes + 1
  /\ phase = "down"
  /\ LET st == Interrupted(state) IN
     \E P \in SUBSET Jobs :
       /\ IsTornCascade(P, UnsuccessfulIn(st), st)
       /\ state' = Cancelling(st, P)
  /\ UNCHANGED <<schedVars, deps, retries>>

-----------------------------------------------------------------------------
Init ==
  /\ SchedInit
  /\ deps \in Dependencies(kind)
  /\ state = [j \in Jobs |-> "none"]
  /\ retries = 0 /\ crashes = 0

Clients ==
  \/ \E j \in Jobs : Submit(j) \/ CancelQueued(j) \/ CancelRunning(j) \/ Retry(j)
  \/ CloseDaemon

Worker(w) ==
  \/ \E d \in readyq : RunStart(w, d) \/ RunDeclined(w, d) \/ DropReleased(w, d)
  \/ \E outcome \in Outcomes : RunEnd(w, outcome)
  \/ RunReturn(w)
  \/ WorkerStops(w)

Crashes == CrashBetween \/ CrashInTerminal \/ CrashInSubmit \/ CrashInStart

Next ==
  \/ Clients
  \/ \E w \in Workers : Worker(w)
  \/ StartDaemon
  \/ CloseEnds
  \/ Crashes

Spec == Init /\ [][Next]_vars

(* Every worker coroutine is scheduled again and again, an execution ends  *)
(* (targets have a timeout and a bounded number of attempts, and watch the *)
(* cancel event), and close goes on when its workers have returned.        *)
(* Nothing obliges a client, a start of the daemon or a crash.             *)
Fairness ==
  /\ \A w \in Workers :
       /\ WF_vars(\E d \in readyq : RunStart(w, d) \/ RunDeclined(w, d)
                                       \/ DropReleased(w, d))
       /\ WF_vars(\E outcome \in Outcomes : RunEnd(w, outcome))
       /\ WF_vars(RunReturn(w))
       /\ WF_vars(WorkerStops(w))
  /\ WF_vars(CloseEnds)

FairSpec == Spec /\ Fairness

-----------------------------------------------------------------------------
(* Properties                                                              *)

TypeOK ==
  /\ SchedTypeOK
  /\ deps \in Dependencies(kind)
  /\ state \in [Jobs -> States]
  /\ retries \in 0..MaxRetries /\ crashes \in 0..MaxCrashes

Running == {j \in Jobs : state[j] = "running"}

(* The records and the coroutines agree: while the daemon is up a record   *)
(* says "running" exactly while some worker executes the job's live        *)
(* dispatch.  Retries during the notification window, old dispatches and   *)
(* restarts must not leave a record running that nobody works on           *)
(* (JobRunner.run, _release, interrupt_active_jobs).                       *)
RunningHasWorker ==
  phase # "down" =>
    \A j \in Jobs : state[j] = "running" <=>
                    \E w \in Workers : Executing(w) /\ worker[w][1] = j

(* What the README promises of the records: an exclusive job runs alone in *)
(* its project, readers of one session scope never overlap, and the reader *)
(* and worker limits hold, after any sequence of crashes and retries.      *)
RunningExclusion ==
  phase # "down" =>
    /\ \A i, j \in Running : i # j => Compatible(i, j)
    /\ Cardinality(Running) <= MaxJobs
    /\ \A j \in Running :
         Reader(j) => Cardinality(ReadersWith(j, Running)) <= MaxProjectReaders

(* No queued record is forgotten: while the daemon is started it has a     *)
(* live dispatch, so it will be considered by every _schedule (submit,     *)
(* retry and the requeueing of start).                                     *)
NoForgottenJob ==
  phase = "started" => \A j \in Jobs : state[j] = "queued" <=>
                                       j \in current /\ ~Started(j)

(* The records, the dispatches and the workers tell one story.             *)
RecordsAgree == TypeOK /\ RunningHasWorker /\ NoForgottenJob

(* A job runs, or has succeeded, only after all it depends on succeeded,   *)
(* although dependencies are retried, cancelled and interrupted meanwhile. *)
DependenciesRespected ==
  \A j \in Jobs :
    state[j] \in {"running", "succeeded"} =>
      \A i \in deps[j] : state[i] = "succeeded"

(* No queued job waits for a dependency that ended without success: the    *)
(* cascade at the terminal transition, the check in submit and the repair  *)
(* in start leave none, whatever was torn by a crash.                      *)
NoOrphanDependent ==
  phase # "down" =>
    \A j \in Jobs : state[j] = "queued" => ~HasFailedDependency(j, state)

(* Dependencies hold in both directions.                                   *)
DependenciesHold == DependenciesRespected /\ NoOrphanDependent

(* scheduler.waiting_reason: why a pending job is not reserved.            *)
HasWaitingReason(j) ==
  \/ j \notin Ready(state)
  \/ Reader(j) /\ \E i \in ahead[j] \cap Ready(state) :
                    ~Reader(i) /\ SameProject(i, j)
  \/ \E i \in active : ~Compatible(i, j)
  \/ Reader(j) /\ Cardinality(ReadersWith(j, active)) >= MaxProjectReaders
  \/ Cardinality(active) >= MaxJobs

(* Work conservation: a pending job always has one of the reasons that     *)
(* waiting_reason lists, never its fallback "waiting for admission".  It   *)
(* fails as soon as one transition forgets _schedule, or runs it before    *)
(* the commit that makes a job ready.                                      *)
NoUnexplainedWait ==
  phase = "started" => \A j \in pending : HasWaitingReason(j)

(* A waiter of wait() is woken only when its job has ended, or has been    *)
(* retried since; close is the one exception.                              *)
WaiterSeesOutcome ==
  [][phase = "started" /\ phase' = "started" =>
       \A d \in open \ open' :
         state'[d[1]] \in Terminal \/ d[2] < gen'[d[1]]]_vars

(* Bounded bypass: while a ready exclusive job waits, its project admits   *)
(* only jobs that were in front of it, so a stream of readers, retried     *)
(* ones included, cannot starve it.                                        *)
BoundedBypass ==
  [][\A i \in pending \cap pending' :
       ~Reader(i) /\ i \in Ready(state) =>
         \A j \in active' \ active : SameProject(i, j) => j \in ahead[i]]_vars

(* A record that ended changes only by a retry, and a success is final: no *)
(* late worker, cascade or repair overwrites the outcome of a job, and a   *)
(* job whose cancellation was acknowledged never succeeds.                 *)
OutcomeIsFinal ==
  [][\A j \in Jobs :
       /\ state[j] = "succeeded" => state'[j] = "succeeded"
       /\ state[j] \in Unsuccessful =>
            state'[j] = state[j] \/ (state'[j] = "queued" /\ retries' > retries)
       /\ j \in flagged => state'[j] # "succeeded"]_vars

(* The scheduler, its workers and their interleavings implement the        *)
(* contract of the job records: jobs begin only within the limits, every   *)
(* failure cancels exactly the queued dependents, a crash loses no record. *)
Ledger == INSTANCE JobLedger WITH
            MaxRunning <- MaxJobs, MaxReaders <- MaxProjectReaders,
            up <- (phase # "down")

ImplementsLedger == Ledger!Spec

(* Every queued job leaves the queue as long as the daemon stays up: no    *)
(* wake-up is lost, no barrier or capacity is held for ever, and every     *)
(* dependency ends.                                                        *)
QueuedJobsLeave ==
  \A j \in Jobs :
    (state[j] = "queued" /\ phase = "started")
      ~> (state[j] # "queued" \/ phase # "started")

(* Whoever waits for a dispatch is woken, in every life of the daemon.     *)
WaitersWake ==
  \A j \in Jobs : \A n \in 1..(MaxRetries + 1) :
    (<<j, n>> \in open) ~> (<<j, n>> \notin open)

(* close terminates: every worker gets to its sentinel, the ones that hold *)
(* old dispatches included.                                                *)
CloseTerminates == (phase = "closing") ~> (phase = "down")

(* Nobody waits for ever on a dispatch, and close ends.                    *)
WaitersAndCloseEnd == WaitersWake /\ CloseTerminates

=============================================================================
