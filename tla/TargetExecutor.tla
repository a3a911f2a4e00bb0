--------------------------- MODULE TargetExecutor ---------------------------
(***************************************************************************)
(* What a worker does with a started job: TargetExecutor.execute in        *)
(* src/openmcp/execution.py.  Attempts on the targets of the plan, a       *)
(* semaphore per target, the circuit breaker, the recovery from an         *)
(* oversized session, the cancel event, and the memory of a session scope  *)
(* (context_sessions and context_turns) that a success writes.             *)
(*                                                                         *)
(* Between two awaits the code is atomic.  It awaits the semaphore, the    *)
(* driver and the backoff; from the driver's return to the commit of the   *)
(* outcome nothing suspends, so an invocation ends in one action.  Only a  *)
(* crash can come between the memory and the outcome (CrashInSuccess).     *)
(***************************************************************************)
EXTENDS Integers, Sequences, FiniteSets

CONSTANTS
  Jobs,          (* job ids                                                *)
  Scopes,        (* session scopes: project, workflow and context_key      *)
  Targets,       (* target execution keys, numbered; 0 is no target        *)
  Capacity,      (* max_concurrency of each target                         *)
  Plans,         (* the target lists a plan may have, without repetition   *)
  MaxAttempts,   (* selection.max_attempts                                 *)
  MaxRuns,       (* bound: executions begun                                *)
  MaxCrashes     (* bound: crashes of the daemon                           *)

ASSUME ExecAssumption ==
  /\ IsFiniteSet(Jobs)
  /\ Targets \subseteq Nat \ {0}
  /\ Capacity \in [Targets -> Nat \ {0}]
  /\ \A p \in Plans : p \in Seq(Targets)
  /\ MaxAttempts \in Nat \ {0}
  /\ MaxRuns \in Nat /\ MaxCrashes \in Nat

VARIABLES
  job,        (* job[j]: session scope, fresh_session and targets of the   *)
              (* plan; immutable                                           *)
  outcome,    (* the record's state: "none", "running" or an outcome       *)
  exec,       (* the local state of execute for each job                   *)
  cancelled,  (* jobs whose cancel event is set                            *)
  permits,    (* _target_semaphores: free permits of each target           *)
  active,     (* _target_active                                            *)
  health,     (* target_health: consecutive failures, circuit open         *)
  memory,     (* of each scope: its turns; for each target the turn that   *)
              (* stored its session, 0 without session; and (history) the  *)
              (* turn that last replaced the sessions                      *)
  runs, crashes

semVars == <<permits, active>>
vars == <<job, outcome, exec, cancelled, permits, active, health, memory,
          runs, crashes>>

Outcomes == {"succeeded", "failed", "cancelled", "interrupted"}

(* ready: about to run an iteration; waiting: in the queue of the target's *)
(* semaphore; granted: woken with a permit; polling: the 0.1 s wait timed  *)
(* out; running: the driver is invoked; backoff: between two attempts.     *)
Stages == {"idle", "ready", "waiting", "granted", "polling", "running",
           "backoff"}

(* The invocations of one attempt: with the session or the history, with   *)
(* the reconstructed history, with the bare prompt.                        *)
Phases == {"first", "reconstruct", "bare"}

Idle == [stage |-> "idle", phase |-> "first", attempt |-> 0, attempted |-> {},
         target |-> 0, session |-> 0, tools |-> FALSE]

Scope(j) == job[j].scope
Fresh(j) == job[j].fresh
Done(j) == [exec EXCEPT ![j] = Idle]
Ends(j, o) == outcome' = [outcome EXCEPT ![j] = o]

At(t, stages) == {i \in Jobs : exec[i].target = t /\ exec[i].stage \in stages}

-----------------------------------------------------------------------------
(* The semaphore of a target (asyncio.Semaphore): `free' permits go to the *)
(* waiting jobs first.  The executions E become exec'.                     *)
Settle(t, E, free) ==
  LET W == {i \in Jobs : E[i].target = t /\ E[i].stage = "waiting"}
      n == IF Cardinality(W) < free THEN Cardinality(W) ELSE free
  IN \E G \in SUBSET W :
       /\ Cardinality(G) = n
       /\ exec' = [i \in Jobs |->
                     IF i \in G THEN [E[i] EXCEPT !.stage = "granted"]
                                ELSE E[i]]
       /\ permits' = [permits EXCEPT ![t] = free - n]

(* A permit can be taken at once; nobody overtakes a waiting job.          *)
Unlocked(t) == permits[t] > 0 /\ At(t, {"waiting", "granted"}) = {}

(* acquire without a suspension, or into the queue.                        *)
Acquire(j, t, e) ==
  IF Unlocked(t)
  THEN /\ exec' = [exec EXCEPT ![j] = [e EXCEPT !.stage = "running"]]
       /\ permits' = [permits EXCEPT ![t] = @ - 1]
       /\ active' = [active EXCEPT ![t] = @ + 1]
  ELSE /\ exec' = [exec EXCEPT ![j] = [e EXCEPT !.stage = "waiting"]]
       /\ UNCHANGED semVars

-----------------------------------------------------------------------------
(* Broken variant: jobs of one session scope run side by side.             *)
BeginBeside(j) ==
  /\ runs < MaxRuns
  /\ outcome[j] \in {"none", "failed", "cancelled", "interrupted"}
  /\ outcome' = [outcome EXCEPT ![j] = "running"]
  /\ exec' = [exec EXCEPT ![j] = [Idle EXCEPT !.stage = "ready"]]
  /\ cancelled' = cancelled \ {j}
  /\ runs' = runs + 1
  /\ UNCHANGED <<job, semVars, health, memory, crashes>>

(* JobRunner.run up to its first await.  The scheduler runs one job of a   *)
(* session scope at a time (ExecutionExclusion of ProjectScheduler).       *)
Begin(j) ==
  /\ runs < MaxRuns
  /\ outcome[j] \in {"none", "failed", "cancelled", "interrupted"}
  /\ \A i \in Jobs : outcome[i] = "running" => Scope(i) # Scope(j)
  /\ outcome' = [outcome EXCEPT ![j] = "running"]
  /\ exec' = [exec EXCEPT ![j] = [Idle EXCEPT !.stage = "ready"]]
  /\ cancelled' = cancelled \ {j}
  /\ runs' = runs + 1
  /\ UNCHANGED <<job, semVars, health, memory, crashes>>

(* The client's cancel sets the event; the executor looks at it later.     *)
Cancel(j) ==
  /\ outcome[j] = "running" /\ j \notin cancelled
  /\ cancelled' = cancelled \cup {j}
  /\ UNCHANGED <<job, outcome, exec, semVars, health, memory, runs, crashes>>

(* _select_target: the first target of the plan that was not attempted,    *)
(* is installed (up) and has a closed circuit; a free one is preferred.    *)
(* The empty set when there is none.                                       *)
Selected(j, attempted, up) ==
  LET p == job[j].plan
      H == {k \in DOMAIN p : /\ p[k] \notin attempted
                             /\ p[k] \in up /\ ~health[p[k]].open}
      F == {k \in H : active[p[k]] < Capacity[p[k]]}
      C == IF F # {} THEN F ELSE H
  IN {p[k] : k \in {l \in C : \A m \in C : l <= m}}

(* The head of the loop, after the start or after a backoff.               *)
AtHead(j) == exec[j].stage \in {"ready", "backoff"}

StopAtHead(j) ==
  /\ AtHead(j) /\ j \in cancelled
  /\ exec' = Done(j) /\ Ends(j, "cancelled")
  /\ UNCHANGED <<job, cancelled, semVars, health, memory, runs, crashes>>

(* The targets tried before: forgotten when they leave none to select.     *)
Tried(j, up) ==
  IF Selected(j, exec[j].attempted, up) = {} THEN {} ELSE exec[j].attempted

NoHealthyTarget(j) ==
  /\ AtHead(j) /\ j \notin cancelled
  /\ \E up \in SUBSET Targets : Selected(j, Tried(j, up), up) = {}
  /\ exec' = Done(j) /\ Ends(j, "failed")
  /\ UNCHANGED <<job, cancelled, semVars, health, memory, runs, crashes>>

(* Select, read the session, ask for a permit.  The session is read here   *)
(* and used when the permit is there.                                      *)
StartAttempt(j) ==
  /\ AtHead(j) /\ j \notin cancelled
  /\ \E up \in SUBSET Targets :
       \E t \in Selected(j, Tried(j, up), up) :
         Acquire(j, t,
           [exec[j] EXCEPT
              !.phase = "first",
              !.attempt = @ + 1,
              !.attempted = Tried(j, up) \cup {t},
              !.target = t,
              !.session = IF Fresh(j) THEN 0 ELSE memory[Scope(j)].session[t],
              !.tools = FALSE])
  /\ UNCHANGED <<job, outcome, cancelled, health, memory, runs, crashes>>

-----------------------------------------------------------------------------
(* _acquire_target                                                         *)

(* The wait times out; a permit that came in the same turn goes back.      *)
Expire(j) ==
  LET t == exec[j].target
      E == [exec EXCEPT ![j].stage = "polling"] IN
  /\ \/ exec[j].stage = "waiting" /\ Settle(t, E, permits[t])
     \/ exec[j].stage = "granted" /\ Settle(t, E, permits[t] + 1)
  /\ UNCHANGED <<job, outcome, cancelled, active, health, memory, runs,
                 crashes>>

(* The loop condition after a timeout.                                     *)
Poll(j) ==
  /\ exec[j].stage = "polling"
  /\ IF j \in cancelled
     THEN exec' = Done(j) /\ Ends(j, "cancelled") /\ UNCHANGED semVars
     ELSE Acquire(j, exec[j].target, exec[j]) /\ UNCHANGED outcome
  /\ UNCHANGED <<job, cancelled, health, memory, runs, crashes>>

(* Broken variant: the event is not read again after the wait.             *)
ResumeBlindly(j) ==
  LET t == exec[j].target IN
  /\ exec[j].stage = "granted"
  /\ active' = [active EXCEPT ![t] = @ + 1]
  /\ Settle(t, [exec EXCEPT ![j].stage = "running"], permits[t])
  /\ UNCHANGED <<job, outcome, cancelled, health, memory, runs, crashes>>

(* The acquire returns: a cancelled job gives the permit back.             *)
Resume(j) ==
  LET t == exec[j].target IN
  /\ exec[j].stage = "granted"
  /\ IF j \in cancelled
     THEN /\ Settle(t, Done(j), permits[t] + 1)
          /\ Ends(j, "cancelled")
          /\ UNCHANGED active
     ELSE /\ active' = [active EXCEPT ![t] = @ + 1]
          /\ Settle(t, [exec EXCEPT ![j].stage = "running"], permits[t])
          /\ UNCHANGED outcome
  /\ UNCHANGED <<job, cancelled, health, memory, runs, crashes>>

(* The bookkeeping between the permit and the driver raises: the permit is *)
(* given back and the job fails.                                           *)
SetupFails(j) ==
  LET t == exec[j].target IN
  /\ j \notin cancelled
  /\ \/ /\ exec[j].stage = "granted"
        /\ Settle(t, Done(j), permits[t] + 1)
     \/ /\ exec[j].stage = "polling" /\ Unlocked(t)
        /\ exec' = Done(j) /\ UNCHANGED permits
     \/ /\ AtHead(j)
        /\ \E up \in SUBSET Targets :
             \E u \in Selected(j, Tried(j, up), up) : Unlocked(u)
        /\ exec' = Done(j) /\ UNCHANGED permits
  /\ Ends(j, "failed")
  /\ UNCHANGED <<job, cancelled, active, health, memory, runs, crashes>>

-----------------------------------------------------------------------------
(* The invocation                                                          *)

Running(j) == exec[j].stage = "running"

(* The driver's stream reports tool.started (StreamBridge.emit).           *)
ToolStarted(j) ==
  /\ Running(j) /\ ~exec[j].tools
  /\ exec' = [exec EXCEPT ![j].tools = TRUE]
  /\ UNCHANGED <<job, outcome, cancelled, semVars, health, memory, runs,
                 crashes>>

(* The attempt is over: the finally of execute gives the permit back; the  *)
(* job goes on as e.                                                       *)
EndAttempt(j, e) ==
  LET t == exec[j].target IN
  /\ active' = [active EXCEPT ![t] = @ - 1]
  /\ Settle(t, [exec EXCEPT ![j] = e], permits[t] + 1)

(* Broken variant: a replaced session leaves the other targets' sessions.  *)
RememberedBeside(j, stored) ==
  LET t == exec[j].target
      n == memory[Scope(j)].turns + 1
      replace == Fresh(j) \/ exec[j].phase # "first"
  IN [memory EXCEPT ![Scope(j)] =
        [turns |-> n,
         replaced |-> IF replace THEN n ELSE @.replaced,
         session |-> IF stored THEN [@.session EXCEPT ![t] = n]
                               ELSE @.session]]

(* append_turn and finish_fresh_job_success: one more turn; the session    *)
(* that the driver returned, if any (`stored'), is kept for the target,    *)
(* and after a recovery or a fresh execution it is the only one.           *)
Remembered(j, stored) ==
  LET t == exec[j].target
      n == memory[Scope(j)].turns + 1
      replace == Fresh(j) \/ exec[j].phase # "first"
  IN [memory EXCEPT ![Scope(j)] =
        [turns |-> n,
         replaced |-> IF replace THEN n ELSE @.replaced,
         session |-> [u \in Targets |-> IF u = t /\ stored THEN n
                                        ELSE IF replace THEN 0
                                        ELSE @.session[u]]]]

Healthy == [failures |-> 0, open |-> FALSE]

(* Success: health, memory and outcome.                                    *)
Succeed(j) ==
  /\ Running(j) /\ j \notin cancelled
  /\ EndAttempt(j, Idle)
  /\ health' = [health EXCEPT ![exec[j].target] = Healthy]
  /\ \E stored \in BOOLEAN : memory' = Remembered(j, stored)
  /\ Ends(j, "succeeded")
  /\ UNCHANGED <<job, cancelled, runs, crashes>>

(* Broken variant: the result that came before the cancel is remembered.   *)
StopRemembering(j) ==
  /\ Running(j) /\ j \in cancelled
  /\ EndAttempt(j, Idle)
  /\ \E stored \in BOOLEAN : memory' = Remembered(j, stored)
  /\ Ends(j, "cancelled")
  /\ UNCHANGED <<job, cancelled, health, runs, crashes>>

(* Broken variant: the permit of a cancelled attempt is kept.              *)
StopKeepingPermit(j) ==
  /\ Running(j) /\ j \in cancelled
  /\ active' = [active EXCEPT ![exec[j].target] = @ - 1]
  /\ exec' = Done(j)
  /\ Ends(j, "cancelled")
  /\ UNCHANGED <<job, cancelled, permits, health, memory, runs, crashes>>

(* The event is set when the driver is back: its result is dropped.        *)
Stop(j) ==
  /\ Running(j) /\ j \in cancelled
  /\ EndAttempt(j, Idle)
  /\ Ends(j, "cancelled")
  /\ UNCHANGED <<job, cancelled, health, memory, runs, crashes>>

(* Broken variant: the attempt recovers although a tool has run.           *)
CanRecoverAnyway(j) ==
  \/ exec[j].phase = "first" /\ ~Fresh(j) /\ exec[j].session # 0
  \/ exec[j].phase = "reconstruct" /\ memory[Scope(j)].turns > 0

(* Whether a context overflow is answered by another invocation of the     *)
(* same attempt, without the session: first with the history in the        *)
(* prompt, then, if there was one, with the bare prompt.                   *)
CanRecover(j) ==
  /\ ~exec[j].tools
  /\ \/ exec[j].phase = "first" /\ ~Fresh(j) /\ exec[j].session # 0
     \/ exec[j].phase = "reconstruct" /\ memory[Scope(j)].turns > 0

NextPhase(p) == IF p = "first" THEN "reconstruct" ELSE "bare"

Recover(j) ==
  /\ Running(j) /\ j \notin cancelled /\ CanRecover(j)
  /\ exec' = [exec EXCEPT ![j].phase = NextPhase(@), ![j].session = 0,
                          ![j].tools = FALSE]
  /\ UNCHANGED <<job, outcome, cancelled, semVars, health, memory, runs,
                 crashes>>

(* _record_failure: the third failure in a row opens the circuit.          *)
Failed(h) ==
  [failures |-> IF h.failures < 3 THEN h.failures + 1 ELSE 3,
   open |-> h.failures >= 2]

(* Broken variant: one attempt more than the plan allows.                  *)
FailOnceMore(j) ==
  LET again == ~exec[j].tools /\ exec[j].attempt <= MaxAttempts IN
  /\ Running(j) /\ j \notin cancelled
  /\ EndAttempt(j, IF again THEN [exec[j] EXCEPT !.stage = "backoff"] ELSE Idle)
  /\ \/ health' = [health EXCEPT ![exec[j].target] = Failed(@)]
     \/ UNCHANGED health
  /\ IF again THEN UNCHANGED outcome ELSE Ends(j, "failed")
  /\ UNCHANGED <<job, cancelled, memory, runs, crashes>>

(* A retryable or target-fatal end: it counts against the target unless    *)
(* the context overflowed; another attempt follows unless a tool ran or    *)
(* the attempts are used up.                                               *)
Fail(j) ==
  LET again == ~exec[j].tools /\ exec[j].attempt < MaxAttempts IN
  /\ Running(j) /\ j \notin cancelled
  /\ EndAttempt(j, IF again THEN [exec[j] EXCEPT !.stage = "backoff"] ELSE Idle)
  /\ \/ health' = [health EXCEPT ![exec[j].target] = Failed(@)]
     \/ /\ CanRecover(j) => exec[j].phase # "first"
        /\ UNCHANGED health     (* a context overflow without recovery *)
  /\ IF again THEN UNCHANGED outcome ELSE Ends(j, "failed")
  /\ UNCHANGED <<job, cancelled, memory, runs, crashes>>

(* The request is fatal, or the driver raises (which ends as "failed" even *)
(* when the job was cancelled).                                            *)
FailForGood(j) ==
  /\ Running(j)
  /\ EndAttempt(j, Idle)
  /\ Ends(j, "failed")
  /\ UNCHANGED <<job, cancelled, health, memory, runs, crashes>>

-----------------------------------------------------------------------------
(* circuit_open_until passes.                                              *)
CircuitExpires(t) ==
  /\ health[t].open
  /\ health' = [health EXCEPT ![t].open = FALSE]
  /\ UNCHANGED <<job, outcome, exec, cancelled, semVars, memory, runs, crashes>>

(* The process dies and starts again: interrupt_active_jobs, new           *)
(* semaphores and counters.  Health and memory are in the database.        *)
Restart ==
  /\ crashes < MaxCrashes
  /\ crashes' = crashes + 1
  /\ exec' = [j \in Jobs |-> Idle]
  /\ outcome' = [j \in Jobs |-> IF outcome[j] = "running" THEN "interrupted"
                                                          ELSE outcome[j]]
  /\ cancelled' = {}
  /\ permits' = Capacity
  /\ active' = [t \in Targets |-> 0]
  /\ UNCHANGED <<job, runs>>

Crash == Restart /\ UNCHANGED <<health, memory>>

(* append_turn has committed, finish_job has not.  A fresh job has one     *)
(* transaction for both.                                                   *)
CrashInSuccess(j) ==
  /\ Running(j) /\ j \notin cancelled /\ ~Fresh(j)
  /\ Restart
  /\ health' = [health EXCEPT ![exec[j].target] = Healthy]
  /\ \E stored \in BOOLEAN : memory' = Remembered(j, stored)

-----------------------------------------------------------------------------
Init ==
  /\ job \in [Jobs -> [scope : Scopes, fresh : BOOLEAN, plan : Plans]]
  /\ outcome = [j \in Jobs |-> "none"]
  /\ exec = [j \in Jobs |-> Idle]
  /\ cancelled = {}
  /\ permits = Capacity
  /\ active = [t \in Targets |-> 0]
  /\ health = [t \in Targets |-> Healthy]
  /\ memory = [s \in Scopes |-> [turns |-> 0, replaced |-> 0,
                                 session |-> [t \in Targets |-> 0]]]
  /\ runs = 0 /\ crashes = 0

(* Steps of j's own coroutine. *)
Execute(j) ==
  \/ StopAtHead(j) \/ NoHealthyTarget(j) \/ StartAttempt(j)
  \/ Expire(j) \/ Poll(j) \/ Resume(j) \/ SetupFails(j)
  \/ ToolStarted(j) \/ Succeed(j) \/ Stop(j) \/ Recover(j)
  \/ Fail(j) \/ FailForGood(j)

Next ==
  \/ \E j \in Jobs : Begin(j) \/ Cancel(j) \/ Execute(j) \/ CrashInSuccess(j)
  \/ \E t \in Targets : CircuitExpires(t)
  \/ Crash

(* The loop goes on, the timed wait returns, the driver has a timeout: in    *)
(* each stage of the coroutine one of these is what it awaits.  A permit     *)
(* that comes in the very turn of a timeout is given back; that it does not  *)
(* happen forever is assumed (strong fairness of Resume).                    *)
GoesOn(j) ==
  \/ StopAtHead(j) \/ NoHealthyTarget(j) \/ StartAttempt(j)
  \/ Poll(j) \/ Expire(j)
  \/ Succeed(j) \/ Stop(j) \/ Recover(j) \/ Fail(j) \/ FailForGood(j)

Fairness == \A j \in Jobs : WF_vars(GoesOn(j)) /\ SF_vars(Resume(j))

Spec == Init /\ [][Next]_vars
FairSpec == Spec /\ Fairness

-----------------------------------------------------------------------------
(* Properties                                                              *)

(* Type invariant of the executor's state.                                 *)
ExecTypeOK ==
  /\ outcome \in [Jobs -> Outcomes \cup {"none", "running"}]
  /\ exec \in [Jobs -> [stage : Stages, phase : Phases,
                        attempt : 0..MaxAttempts, attempted : SUBSET Targets,
                        target : Targets \cup {0}, session : Nat,
                        tools : BOOLEAN]]
  /\ cancelled \subseteq Jobs
  /\ permits \in [Targets -> Nat] /\ active \in [Targets -> Nat]
  /\ health \in [Targets -> [failures : 0..3, open : BOOLEAN]]
  /\ memory \in [Scopes -> [turns : Nat, replaced : Nat,
                            session : [Targets -> Nat]]]
  /\ runs \in 0..MaxRuns /\ crashes \in 0..MaxCrashes

(* Every way out of an attempt, cancel, timeout, failure, recovery or      *)
(* success, gives back exactly the permit it took: permits and holders add *)
(* up to max_concurrency, and the active count that _select_target and the *)
(* dashboard read is the number of invocations.                            *)
PermitsAccounted ==
  \A t \in Targets :
    /\ permits[t] + Cardinality(At(t, {"granted", "running"})) = Capacity[t]
    /\ active[t] = Cardinality(At(t, {"running"}))

(* Step of j that invokes a driver within the execution that is under way. *)
Invokes(j) ==
  /\ exec'[j].stage = "running"
  /\ exec[j].stage # "running" \/ exec'[j].phase # exec[j].phase

(* Once the stream of an invocation has shown a tool call, the request is  *)
(* never sent again by the same execution: neither by the recovery from an *)
(* overflow nor by a further attempt on any target.                        *)
NoReplayAfterTools ==
  [][\A j \in Jobs : exec[j].tools /\ exec[j].stage # "idle" => ~Invokes(j)]_vars

(* Once the cancel event is set no driver is invoked, whichever wait       *)
(* (permit, timeout, backoff, first invocation) the cancel comes in.       *)
NoStartAfterCancel ==
  [][\A j \in cancelled : ~Invokes(j)]_vars

(* The session is read before the wait for a permit and used after it: it  *)
(* is still the session stored for the target then, and nothing that the   *)
(* scope has replaced since.                                               *)
ResumesCurrentSession ==
  \A j \in Jobs :
    /\ exec[j].stage \in {"waiting", "granted", "polling", "running"}
    /\ exec[j].phase = "first" /\ ~Fresh(j)
    => exec[j].session = memory[Scope(j)].session[exec[j].target]

(* A recovery from an oversized session or a fresh execution replaces the  *)
(* sessions of its scope: none from before is kept for any target, and no  *)
(* job of the scope resumes one.                                           *)
NoOutdatedSession ==
  /\ \A s \in Scopes, t \in Targets :
       memory[s].session[t] # 0 => memory[s].session[t] >= memory[s].replaced
  /\ \A j \in Jobs :
       exec[j].session # 0 => exec[j].session >= memory[Scope(j)].replaced

(* The turns a scope remembers are those of its succeeded jobs; only a     *)
(* crash between append_turn and finish_job can leave the turn of a job    *)
(* that is interrupted, never the success of a job without its turn.       *)
MemoryMatchesOutcome ==
  \A s \in Scopes :
    LET won == Cardinality({j \in Jobs : Scope(j) = s
                                         /\ outcome[j] = "succeeded"})
    IN memory[s].turns \in won .. won + crashes

(* Every execution ends: with waits for permits, recoveries, retries and   *)
(* open circuits, no job runs forever.                                     *)
ExecutionEnds ==
  \A j \in Jobs : outcome[j] = "running" ~> outcome[j] # "running"
=============================================================================
