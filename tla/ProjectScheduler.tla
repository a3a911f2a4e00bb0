-------------------------- MODULE ProjectScheduler --------------------------
(***************************************************************************)
(* The admission scheduler of the daemon (src/openmcp/scheduler.py): one   *)
(* pool of workers for all projects, reader/writer admission inside each   *)
(* project, and one running job per session scope.                         *)
(*                                                                         *)
(* Everything runs on one asyncio loop, so a method of the scheduler is    *)
(* one atomic action; the workers are coroutines that interleave with the  *)
(* callers at every await.  The module is used in two ways: SchedSpec lets *)
(* arbitrary callers invoke every method in any order (`isReady' answers   *)
(* are arbitrary too), and JobRuntime EXTENDS the module and calls the     *)
(* same actions from the daemon's real handlers.                           *)
(***************************************************************************)
EXTENDS Admission

VARIABLES
  phase,     (* "down", "started" (_started) or "closing" (_closing)       *)
  current,   (* _current: the jobs that have a live dispatch               *)
  gen,       (* gen[j]: how many dispatches job j has had since the start  *)
  pending,   (* _pending: the jobs whose dispatch waits for admission      *)
  ahead,     (* ahead[j]: the jobs in front of j in _pending               *)
  active,    (* _active: the jobs whose dispatch is reserved               *)
  readyq,    (* _ready: dispatches handed to the workers, released ones    *)
             (* included                                                   *)
  worker,    (* worker[w]: the dispatch w holds, or NoDispatch             *)
  exited,    (* workers that took their None sentinel                      *)
  flagged,   (* the jobs whose live dispatch has its cancel_event set      *)
  open,      (* dispatches whose completion event is not set               *)
  termWait   (* _terminal_waiters: the generation kept for j, 0 if none    *)

admissionVars == <<pending, ahead, active>>
schedVars == <<kind, phase, current, gen, pending, ahead, active, readyq,
               worker, exited, flagged, open, termWait>>

(* A dispatch object is told apart by its job and its generation: retrying *)
(* a job makes a new dispatch while a worker may still hold the old one.   *)
Dispatch   == Jobs \X (Nat \ {0})
NoDispatch == <<0, 0>>
Live(j)    == <<j, gen[j]>>
IsLive(d)  == d[1] \in current /\ d[2] = gen[d[1]]

Idle(w) == worker[w] = NoDispatch /\ w \notin exited

(* `started' is set by the worker that takes a dispatch.                   *)
Started(j) == \E w \in Workers : worker[w] = Live(j)

-----------------------------------------------------------------------------
(* Methods                                                                 *)

(* _schedule: reserve what can be reserved and hand it to the workers.     *)
(* P, q, B and rq are _pending, its order, _active and _ready when it is   *)
(* called; a scheduler that is closing or not started reserves nothing.    *)
Schedule(P, q, B, rq, isReady) ==
  \E A \in SUBSET P :
    /\ IF phase' = "started" THEN Admitted(A, P, q, B, isReady) ELSE A = {}
    /\ pending' = P \ A
    /\ ahead' = [j \in Jobs |-> IF j \in P \ A THEN q[j] \ A ELSE {}]
    /\ active' = B \cup A
    /\ readyq' = rq \cup {<<j, gen'[j]>> : j \in A}

(* start: fresh workers, then the queued jobs in their FIFO order.  The    *)
(* jobs are enqueued one by one, which admits the same jobs as one pass    *)
(* over the whole queue: admission looks only at what is in front.         *)
Start(queued, isReady) ==
  /\ phase = "down"
  /\ phase' = "started"
  /\ current' = queued
  /\ gen' = [j \in Jobs |-> IF j \in queued THEN 1 ELSE 0]
  /\ open' = {<<j, 1>> : j \in queued}
  /\ worker' = [w \in Workers |-> NoDispatch]
  /\ exited' = {}
  /\ flagged' = {}
  /\ termWait' = [j \in Jobs |-> 0]
  /\ Schedule(queued, [j \in Jobs |-> {i \in queued : i < j}], {}, {}, isReady)
  /\ UNCHANGED kind

(* Broken variant: the completion event of the previous dispatch is kept.  *)
EnqueueOldEvent(j, isReady) ==
  /\ phase \in {"started", "closing"} /\ j \notin current
  /\ UNCHANGED <<kind, phase, worker, exited, flagged, termWait>>
  /\ current' = current \cup {j}
  /\ gen' = [gen EXCEPT ![j] = @ + 1]
  /\ open' = open \cup {Live(j)}
  /\ Schedule(pending \cup {j}, [ahead EXCEPT ![j] = pending], active, readyq,
              isReady)

(* enqueue: a new dispatch at the end of _pending, unless job j has one.   *)
Enqueue(j, isReady) ==
  /\ phase \in {"started", "closing"}
  /\ UNCHANGED <<kind, phase, worker, exited, flagged, termWait>>
  /\ IF j \in current
     THEN UNCHANGED <<current, gen, open, admissionVars, readyq>>
     ELSE /\ current' = current \cup {j}
          /\ gen' = [gen EXCEPT ![j] = @ + 1]
          /\ open' = open \cup {<<j, gen[j] + 1>>}
          /\ Schedule(pending \cup {j}, [ahead EXCEPT ![j] = pending], active,
                      readyq, isReady)

(* Broken variant: complete(signal=False) leaves the job in _current.      *)
ReleaseKeepsCurrent(S, quiet, rq, isReady) ==
  LET C == S \cap current IN
  /\ current' = current \ (C \ quiet)
  /\ flagged' = flagged \ C
  /\ open' = open \ {Live(j) : j \in C \ quiet}
  /\ termWait' = [j \in Jobs |-> IF j \in C \cap quiet THEN gen[j]
                                                       ELSE termWait[j]]
  /\ Schedule(pending \ C, [j \in Jobs |-> ahead[j] \ C], active \ C, rq,
              isReady)

(* _release of the live dispatches of the jobs S: they leave _pending or   *)
(* give their reservation back, and _schedule runs.  The waiters of the    *)
(* jobs in `quiet' are not woken: their dispatches go to _terminal_waiters *)
(* (complete with signal=False).                                           *)
Release(S, quiet, rq, isReady) ==
  LET C == S \cap current IN
  /\ current' = current \ C
  /\ flagged' = flagged \ C
  /\ open' = open \ {Live(j) : j \in C \ quiet}
  /\ termWait' = [j \in Jobs |-> IF j \in C \cap quiet THEN gen[j]
                                                       ELSE termWait[j]]
  /\ Schedule(pending \ C, [j \in Jobs |-> ahead[j] \ C], active \ C, rq,
              isReady)

(* cancel of jobs that no worker has started, and complete.                *)
ReleaseJobs(S, quiet, isReady) ==
  /\ phase \in {"started", "closing"}
  /\ UNCHANGED <<kind, phase, gen, worker, exited>>
  /\ Release(S, quiet, readyq, isReady)

(* Broken variant: the cancelled job gives its admission back at once.     *)
RequestCancelReleases(j) ==
  /\ phase = "started" /\ j \in current /\ Started(j)
  /\ UNCHANGED <<kind, phase, gen, worker, exited>>
  /\ Release({j}, {j}, readyq, {})

(* cancel of a started job only sets its cancel event.                     *)
RequestCancel(j) ==
  /\ phase \in {"started", "closing"}
  /\ j \in current /\ Started(j) /\ j \notin flagged
  /\ flagged' = flagged \cup {j}
  /\ UNCHANGED <<kind, phase, current, gen, admissionVars, readyq, worker,
                 exited, open, termWait>>

(* _worker takes a dispatch that still holds its reservation and starts    *)
(* the job.  The workers' queue is a set here: which of several reserved   *)
(* dispatches starts first matters to no property.                         *)
TakeDispatch(w, d) ==
  /\ Idle(w) /\ d \in readyq
  /\ IsLive(d) /\ d[1] \in active
  /\ worker' = [worker EXCEPT ![w] = d]
  /\ readyq' = readyq \ {d}
  /\ UNCHANGED <<kind, phase, current, gen, admissionVars, exited, flagged,
                 open, termWait>>

(* Broken variant: the worker returns instead of taking the next dispatch. *)
SkipAndExit(w, d) ==
  /\ Idle(w) /\ d \in readyq
  /\ ~(IsLive(d) /\ d[1] \in active)
  /\ readyq' = readyq \ {d}
  /\ exited' = exited \cup {w}
  /\ UNCHANGED <<kind, phase, current, gen, admissionVars, worker, flagged,
                 open, termWait>>

(* _worker drops a dispatch that was released, or replaced by a retry,     *)
(* while it was in the queue.                                              *)
SkipDispatch(w, d) ==
  /\ Idle(w) /\ d \in readyq
  /\ ~(IsLive(d) /\ d[1] \in active)
  /\ readyq' = readyq \ {d}
  /\ UNCHANGED <<kind, phase, current, gen, admissionVars, worker, exited,
                 flagged, open, termWait>>

(* _worker starts a job whose run callback returns without awaiting.       *)
TakeAndReturn(w, d, isReady) ==
  /\ Idle(w) /\ d \in readyq
  /\ IsLive(d) /\ d[1] \in active
  /\ UNCHANGED <<kind, phase, gen, worker, exited>>
  /\ Release({d[1]}, {}, readyq \ {d}, isReady)

(* Broken variants of WorkerReturn: without the identity check it releases *)
(* the newer dispatch of a retry; it forgets the waiters of a dispatch     *)
(* that was released before; it wakes the waiters of the newer dispatch.   *)
ReturnReleasesNewer(w, isReady) ==
  /\ worker[w] # NoDispatch
  /\ UNCHANGED <<kind, phase, gen, exited>>
  /\ worker' = [worker EXCEPT ![w] = NoDispatch]
  /\ Release({worker[w][1]}, {}, readyq, isReady)

ReturnForgetsWaiters(w, isReady) ==
  /\ worker[w] # NoDispatch
  /\ UNCHANGED <<kind, phase, gen, exited>>
  /\ worker' = [worker EXCEPT ![w] = NoDispatch]
  /\ IF IsLive(worker[w])
     THEN Release({worker[w][1]}, {}, readyq, isReady)
     ELSE /\ UNCHANGED <<current, flagged, open, termWait>>
          /\ Schedule(pending, ahead, active, readyq, isReady)

ReturnWakesNewer(w, isReady) ==
  LET d == worker[w] IN
  /\ d # NoDispatch
  /\ UNCHANGED <<kind, phase, gen, exited>>
  /\ worker' = [worker EXCEPT ![w] = NoDispatch]
  /\ IF IsLive(d)
     THEN Release({d[1]}, {}, readyq, isReady)
     ELSE /\ UNCHANGED <<current, flagged, termWait>>
          /\ open' = open \ {d, Live(d[1])}
          /\ Schedule(pending, ahead, active, readyq, isReady)

(* The run callback returns: the final _release of the worker's own        *)
(* dispatch.  When the terminal commit has already released it, only its   *)
(* waiters are left to wake, and a newer dispatch of the job is not        *)
(* touched.                                                                *)
WorkerReturn(w, isReady) ==
  LET d == worker[w] IN
  /\ d # NoDispatch
  /\ UNCHANGED <<kind, phase, gen, exited>>
  /\ worker' = [worker EXCEPT ![w] = NoDispatch]
  /\ IF IsLive(d)
     THEN Release({d[1]}, {}, readyq, isReady)
     ELSE /\ open' = open \ {d}
          /\ termWait' = [termWait EXCEPT ![d[1]] = IF @ = d[2] THEN 0 ELSE @]
          /\ Schedule(pending, ahead, active, readyq, isReady)
          /\ UNCHANGED <<current, flagged>>

(* close, up to its await: cancel what is reserved, wake the waiters kept  *)
(* in _terminal_waiters, release what is pending, send the sentinels.      *)
BeginClose ==
  /\ phase = "started"
  /\ phase' = "closing"
  /\ flagged' = flagged \cup active
  /\ open' = open \ ({Live(j) : j \in pending}
                       \cup {<<j, termWait[j]>> : j \in Jobs})
  /\ current' = current \ pending
  /\ pending' = {}
  /\ ahead' = [j \in Jobs |-> {}]
  /\ UNCHANGED <<kind, gen, active, readyq, worker, exited, termWait>>

(* A worker takes its sentinel; it comes after every dispatch in _ready.   *)
WorkerExit(w) ==
  /\ phase = "closing"
  /\ Idle(w) /\ readyq = {}
  /\ exited' = exited \cup {w}
  /\ UNCHANGED <<kind, phase, current, gen, admissionVars, readyq, worker,
                 flagged, open, termWait>>

(* The scheduler's memory is empty: before start, after close, in a crash. *)
Forget ==
  /\ phase' = "down"
  /\ current' = {} /\ pending' = {} /\ active' = {} /\ readyq' = {}
  /\ exited' = {} /\ flagged' = {} /\ open' = {}
  /\ gen' = [j \in Jobs |-> 0]
  /\ ahead' = [j \in Jobs |-> {}]
  /\ worker' = [w \in Workers |-> NoDispatch]
  /\ termWait' = [j \in Jobs |-> 0]
  /\ UNCHANGED kind

(* close, after gather: every worker has returned.  A job enqueued while   *)
(* the scheduler was closing is still pending; its dispatch is dropped.    *)
FinishClose == phase = "closing" /\ exited = Workers /\ Forget

Crash == phase # "down" /\ Forget

-----------------------------------------------------------------------------
(* The scheduler under arbitrary callers                                   *)

SchedInit ==
  /\ kind \in [Jobs -> Kinds]
  /\ phase = "down"
  /\ current = {} /\ pending = {} /\ active = {} /\ readyq = {}
  /\ exited = {} /\ flagged = {} /\ open = {}
  /\ gen = [j \in Jobs |-> 0]
  /\ ahead = [j \in Jobs |-> {}]
  /\ worker = [w \in Workers |-> NoDispatch]
  /\ termWait = [j \in Jobs |-> 0]

(* complete with signal=False is called at the terminal commit of a job    *)
(* that runs: its worker wakes the waiters later.  _schedule asks is_ready *)
(* only about pending jobs.                                                *)
Callers ==
  \/ \E Q \in SUBSET Jobs : \E isReady \in SUBSET Q : Start(Q, isReady)
  \/ \E j \in Jobs : \E isReady \in SUBSET (pending \cup {j}) :
       Enqueue(j, isReady)
  \/ \E S \in SUBSET current : \E quiet \in SUBSET {j \in S : Started(j)} :
       \E isReady \in SUBSET pending : ReleaseJobs(S, quiet, isReady)
  \/ \E j \in current : RequestCancel(j)
  \/ BeginClose

WorkerSteps ==
  \/ \E w \in Workers : \E d \in readyq :
       \/ TakeDispatch(w, d)
       \/ SkipDispatch(w, d)
       \/ \E isReady \in SUBSET pending : TakeAndReturn(w, d, isReady)
  \/ \E w \in Workers : \E isReady \in SUBSET pending :
       WorkerReturn(w, isReady)
  \/ \E w \in Workers : WorkerExit(w)
  \/ FinishClose

SchedNext == Callers \/ WorkerSteps \/ Crash

SchedSpec == SchedInit /\ [][SchedNext]_schedVars

-----------------------------------------------------------------------------
(* Properties                                                              *)

SchedTypeOK ==
  /\ kind \in [Jobs -> Kinds]
  /\ phase \in {"down", "started", "closing"}
  /\ current \subseteq Jobs /\ pending \subseteq Jobs /\ active \subseteq Jobs
  /\ flagged \subseteq Jobs
  /\ gen \in [Jobs -> Nat] /\ termWait \in [Jobs -> Nat]
  /\ ahead \in [Jobs -> SUBSET Jobs]
  /\ readyq \subseteq Dispatch /\ open \subseteq Dispatch
  /\ worker \in [Workers -> Dispatch \cup {NoDispatch}]
  /\ exited \subseteq Workers

(* Worker w runs a job that still holds its admission.                     *)
Executing(w) == worker[w] # NoDispatch /\ IsLive(worker[w])

(* Two workers never run jobs that may not run together: an exclusive job  *)
(* is alone in its project, readers of one session scope never overlap,    *)
(* and no job runs twice (_schedule and the identity checks of _release    *)
(* and _worker, whatever old dispatches of retried jobs are around).       *)
ExecutionExclusion ==
  \A v, w \in Workers :
    v # w /\ Executing(v) /\ Executing(w)
      => Compatible(worker[v][1], worker[w][1])

(* max_project_readers and max_jobs hold for the reserved jobs, started or *)
(* not: no interleaving of releases and retries admits one too many.       *)
AdmissionLimits ==
  /\ Cardinality(active) <= MaxJobs
  /\ \A j \in active :
       Reader(j) => Cardinality(ReadersWith(j, active)) <= MaxProjectReaders

(* _current names exactly the pending and the reserved jobs.  A ghost      *)
(* entry would make enqueue drop a retry without a trace; a missing one    *)
(* would let a job be queued twice.                                        *)
NoGhostDispatch ==
  /\ current = pending \cup active
  /\ pending \cap active = {}
  /\ \A j \in current : Live(j) \in open
  /\ flagged \subseteq active

(* A completion event that is not set will be: its dispatch is live, or    *)
(* the worker that holds it wakes the waiters when it returns.             *)
NoLostWaiter ==
  \A d \in open : IsLive(d) \/ \E w \in Workers : worker[w] = d

(* A reserved job never waits for another job to finish: it is in the      *)
(* workers' queue and there is a worker for it that is idle or has only    *)
(* the notification after a terminal commit left.                          *)
ReservedHasWorker ==
  /\ \A j \in active : Started(j) \/ Live(j) \in readyq
  /\ Cardinality({j \in active : ~Started(j)})
       <= Cardinality({w \in Workers \ exited : ~Executing(w)})

(* What callers rely on when they enqueue a job and wait for it, through   *)
(* cancels, early completions, retries and close.                          *)
NoLostWork == NoGhostDispatch /\ NoLostWaiter /\ ReservedHasWorker

=============================================================================
