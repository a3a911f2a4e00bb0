----------------------- MODULE TargetExecutorProofs -----------------------
(***************************************************************************)
(* The executor keeps its promises about sessions, cancellation and        *)
(* replay for any number of jobs, targets, permits and attempts.           *)
(***************************************************************************)
EXTENDS TargetExecutor, FiniteSetTheorems, TLAPS

ExecRec == [stage : Stages, phase : Phases, attempt : 0..MaxAttempts,
            attempted : SUBSET Targets, target : Targets \cup {0},
            session : Nat, tools : BOOLEAN]

JobRec == [scope : Scopes, fresh : BOOLEAN, plan : Plans]
MemRec == [turns : Nat, replaced : Nat, session : [Targets -> Nat]]

Engaged == {"waiting", "granted", "polling", "running"}

Typed ==
  /\ job \in [Jobs -> JobRec]
  /\ outcome \in [Jobs -> Outcomes \cup {"none", "running"}]
  /\ exec \in [Jobs -> ExecRec]
  /\ cancelled \subseteq Jobs
  /\ memory \in [Scopes -> MemRec]

(* What is true of each job: only a running one has a state, attempts are  *)
(* left at the head of the loop, tools act in a running invocation only.   *)
JobOK(i) ==
  /\ exec[i].stage = "idle" => exec[i] = Idle
  /\ exec[i].stage # "idle" => outcome[i] = "running"
  /\ AtHead(i) => exec[i].attempt < MaxAttempts
  /\ exec[i].stage \in Engaged => exec[i].target \in Targets
  /\ exec[i].tools => exec[i].stage = "running"
  /\ exec[i].session # 0 => exec[i].session >= memory[Scope(i)].replaced
  /\ exec[i].stage \in Engaged /\ exec[i].phase = "first" /\ ~Fresh(i)
       => exec[i].session = memory[Scope(i)].session[exec[i].target]

OnePerScope ==
  \A i, j \in Jobs :
    outcome[i] = "running" /\ outcome[j] = "running" /\ Scope(i) = Scope(j)
      => i = j

(* A stored session is not older than the last replacement.                *)
MemoryOK ==
  \A s \in Scopes :
    /\ memory[s].replaced <= memory[s].turns
    /\ \A t \in Targets :
         memory[s].session[t] # 0 => memory[s].session[t] >= memory[s].replaced

IInv == Typed /\ OnePerScope /\ MemoryOK /\ \A i \in Jobs : JobOK(i)

-----------------------------------------------------------------------------
(* The effect of a step on the executions: j goes on as e, some of the     *)
(* others are granted the permit they wait for.                            *)
GoesTo(j, e) ==
  /\ exec' \in [Jobs -> ExecRec]
  /\ exec'[j] = e
  /\ \A i \in Jobs \ {j} :
       \/ exec'[i] = exec[i]
       \/ /\ exec[i].stage = "waiting"
          /\ exec'[i] = [exec[i] EXCEPT !.stage = "granted"]

LEMMA SettleGoes ==
  ASSUME exec \in [Jobs -> ExecRec], NEW j \in Jobs, NEW e \in ExecRec,
         e.stage # "waiting",
         NEW t, NEW free, Settle(t, [exec EXCEPT ![j] = e], free)
  PROVE  GoesTo(j, e)
<1> DEFINE E == [exec EXCEPT ![j] = e]
<1>1. E \in [Jobs -> ExecRec] /\ E[j] = e /\ \A i \in Jobs \ {j} : E[i] = exec[i]
  OBVIOUS
<1>2. PICK G \in SUBSET {i \in Jobs : E[i].target = t /\ E[i].stage = "waiting"} :
        exec' = [i \in Jobs |-> IF i \in G
                                THEN [E[i] EXCEPT !.stage = "granted"] ELSE E[i]]
  BY DEF Settle
<1> HIDE DEF E
<1>3. \A i \in Jobs : [E[i] EXCEPT !.stage = "granted"] \in ExecRec
  BY <1>1 DEF ExecRec, Stages
<1>4. exec' \in [Jobs -> ExecRec]
  BY <1>1, <1>2, <1>3
<1>5. j \notin G
  BY <1>1, <1>2
<1> QED
  BY <1>1, <1>2, <1>4, <1>5 DEF GoesTo

LEMMA SetGoes ==
  ASSUME exec \in [Jobs -> ExecRec], NEW j \in Jobs, NEW e \in ExecRec,
         exec' = [exec EXCEPT ![j] = e]
  PROVE  GoesTo(j, e)
BY DEF GoesTo

LEMMA IdleTyped == Idle \in ExecRec /\ Idle.stage = "idle" /\ Idle.session = 0 /\ ~Idle.tools
BY ExecAssumption DEF Idle, ExecRec, Stages, Phases

LEMMA AcquireGoes ==
  ASSUME exec \in [Jobs -> ExecRec], NEW j \in Jobs, NEW e \in ExecRec,
         NEW t, Acquire(j, t, e)
  PROVE  \E s \in {"running", "waiting"} : GoesTo(j, [e EXCEPT !.stage = s])
<1>1. \A s \in {"running", "waiting"} : [e EXCEPT !.stage = s] \in ExecRec
  BY DEF ExecRec, Stages
<1>2. \E s \in {"running", "waiting"} :
         exec' = [exec EXCEPT ![j] = [e EXCEPT !.stage = s]]
  BY DEF Acquire
<1> QED
  BY <1>1, <1>2, SetGoes

(* A step that leaves the memory alone and starts no execution.            *)
LEMMA Keeps ==
  ASSUME IInv, NEW j \in Jobs, NEW e \in ExecRec, GoesTo(j, e),
         UNCHANGED <<job, memory>>, cancelled' \subseteq Jobs,
         outcome' \in [Jobs -> Outcomes \cup {"none", "running"}],
         \A i \in Jobs \ {j} : outcome'[i] = outcome[i],
         outcome'[j] = "running" => outcome[j] = "running",
         JobOK(j)'
  PROVE  IInv'
<1>1. Typed' /\ MemoryOK'
  BY DEF IInv, Typed, MemoryOK, GoesTo
<1>2. OnePerScope'
  <2> SUFFICES ASSUME NEW i \in Jobs, NEW k \in Jobs,
                      outcome'[i] = "running", outcome'[k] = "running",
                      Scope(i)' = Scope(k)'
               PROVE  i = k
    BY DEF OnePerScope
  <2> QED
    BY DEF IInv, OnePerScope, Scope
<1>3. ASSUME NEW i \in Jobs \ {j} PROVE JobOK(i)'
  <2>1. JobOK(i) /\ exec[i] \in ExecRec
    BY DEF IInv, Typed
  <2>2. CASE exec'[i] = exec[i]
    BY <2>1, <2>2 DEF JobOK, AtHead, Scope, Fresh
  <2>3. CASE /\ exec[i].stage = "waiting"
             /\ exec'[i] = [exec[i] EXCEPT !.stage = "granted"]
    BY <2>1, <2>3 DEF JobOK, AtHead, Scope, Fresh, ExecRec, Engaged
  <2> QED
    BY <2>2, <2>3 DEF GoesTo
<1> QED
  BY <1>1, <1>2, <1>3 DEF IInv

(* The execution of j is over.                                             *)
LEMMA EndKeeps ==
  ASSUME IInv, NEW j \in Jobs, NEW o \in Outcomes, GoesTo(j, Idle), Ends(j, o),
         UNCHANGED <<job, cancelled, memory>>
  PROVE  IInv'
<1>1. /\ outcome' \in [Jobs -> Outcomes \cup {"none", "running"}]
      /\ outcome'[j] = o /\ o # "running"
      /\ \A i \in Jobs \ {j} : outcome'[i] = outcome[i]
  BY DEF Ends, IInv, Typed, Outcomes
<1>2. JobOK(j)'
  BY IdleTyped DEF GoesTo, JobOK, AtHead, Engaged
<1> QED
  BY <1>1, <1>2, IdleTyped, Keeps DEF IInv, Typed

(* The execution of j goes on as e.                                        *)
LEMMA ProgressKeeps ==
  ASSUME IInv, NEW j \in Jobs, NEW e \in ExecRec, GoesTo(j, e),
         UNCHANGED <<job, cancelled, memory, outcome>>,
         exec[j].stage # "idle", e.stage # "idle",
         e.stage \in {"ready", "backoff"} => e.attempt < MaxAttempts,
         e.stage \in Engaged => e.target \in Targets,
         e.tools => e.stage = "running",
         e.session # 0 => e.session >= memory[Scope(j)].replaced,
         e.stage \in Engaged /\ e.phase = "first" /\ ~Fresh(j)
           => e.session = memory[Scope(j)].session[e.target]
  PROVE  IInv'
<1>1. JobOK(j) /\ exec'[j] = e
  BY DEF IInv, GoesTo
<1>2. JobOK(j)'
  BY <1>1 DEF JobOK, AtHead, Scope, Fresh
<1> QED
  BY <1>2, Keeps DEF IInv, Typed

(* The local state is disturbed in its stage only, among the await points  *)
(* of one attempt.                                                         *)
LEMMA MoveKeeps ==
  ASSUME IInv, NEW j \in Jobs, NEW s \in Engaged, exec[j].stage \in Engaged,
         exec[j].tools => s = "running",
         GoesTo(j, [exec[j] EXCEPT !.stage = s]),
         UNCHANGED <<job, cancelled, memory, outcome>>
  PROVE  IInv'
<1> DEFINE e == [exec[j] EXCEPT !.stage = s]
<1>1. exec[j] \in ExecRec /\ JobOK(j)
  BY DEF IInv, Typed
<1>2. /\ e \in ExecRec /\ e.stage = s /\ e.target = exec[j].target
      /\ e.tools = exec[j].tools /\ e.session = exec[j].session
      /\ e.phase = exec[j].phase
  BY <1>1 DEF ExecRec, Engaged, Stages
<1>3. GoesTo(j, e)
  OBVIOUS
<1> HIDE DEF e
<1>4. s # "idle" /\ s \notin {"ready", "backoff"} /\ exec[j].stage # "idle"
  BY DEF Engaged
<1> QED
  BY <1>1, <1>2, <1>3, <1>4, ProgressKeeps DEF JobOK

-----------------------------------------------------------------------------
LEMMA StopAtHeadKeeps ==
  ASSUME IInv, NEW j \in Jobs, StopAtHead(j) PROVE IInv'
BY SetGoes, IdleTyped, EndKeeps DEF StopAtHead, Done, IInv, Typed, Outcomes

LEMMA NoHealthyTargetKeeps ==
  ASSUME IInv, NEW j \in Jobs, NoHealthyTarget(j) PROVE IInv'
<1>1. /\ exec' = [exec EXCEPT ![j] = Idle] /\ Ends(j, "failed")
      /\ UNCHANGED <<job, cancelled, memory>>
  BY DEF NoHealthyTarget, Done
<1> QED
  BY <1>1, SetGoes, IdleTyped, EndKeeps DEF IInv, Typed, Outcomes

(* What _select_target returns is a target of the plan.                    *)
LEMMA SelectedTarget ==
  ASSUME IInv, NEW j \in Jobs, NEW attempted, NEW up,
         NEW t \in Selected(j, attempted, up)
  PROVE  t \in Targets
<1>1. job[j].plan \in Seq(Targets)
  BY ExecAssumption DEF IInv, Typed, JobRec
<1> QED
  BY <1>1 DEF Selected

LEMMA StartAttemptKeeps ==
  ASSUME IInv, NEW j \in Jobs, StartAttempt(j) PROVE IInv'
<1> DEFINE e(t, up) == [exec[j] EXCEPT
              !.phase = "first",
              !.attempt = @ + 1,
              !.attempted = Tried(j, up) \cup {t},
              !.target = t,
              !.session = IF Fresh(j) THEN 0 ELSE memory[Scope(j)].session[t],
              !.tools = FALSE]
<1>1. PICK up \in SUBSET Targets, t \in Targets : Acquire(j, t, e(t, up))
  BY SelectedTarget DEF StartAttempt
<1>2. UNCHANGED <<job, cancelled, memory, outcome>> /\ AtHead(j)
  BY DEF StartAttempt
<1>3. /\ exec[j] \in ExecRec /\ JobOK(j) /\ memory[Scope(j)] \in MemRec
      /\ Fresh(j) \in BOOLEAN /\ Scope(j) \in Scopes
  BY DEF IInv, Typed, JobRec, Scope, Fresh
<1>4. Tried(j, up) \subseteq Targets
  BY <1>3 DEF Tried, ExecRec
<1>5. /\ memory[Scope(j)].session[t] \in Nat
      /\ memory[Scope(j)].session[t] # 0
           => memory[Scope(j)].session[t] >= memory[Scope(j)].replaced
  BY <1>3 DEF IInv, MemoryOK, MemRec
<1>6. exec[j].attempt + 1 \in 0..MaxAttempts
  BY <1>2, <1>3, ExecAssumption DEF JobOK, ExecRec
<1>7. /\ e(t, up) \in ExecRec /\ e(t, up).phase = "first"
      /\ e(t, up).target = t /\ ~e(t, up).tools
      /\ e(t, up).session = IF Fresh(j) THEN 0 ELSE memory[Scope(j)].session[t]
  BY <1>3, <1>4, <1>5, <1>6 DEF ExecRec, Phases
<1> HIDE DEF e
<1>8. PICK s \in {"running", "waiting"} :
        GoesTo(j, [e(t, up) EXCEPT !.stage = s])
  BY <1>1, <1>7, AcquireGoes DEF IInv, Typed
<1> DEFINE f == [e(t, up) EXCEPT !.stage = s]
<1>9. /\ f \in ExecRec /\ f.stage = s /\ f.phase = "first" /\ f.target = t
      /\ ~f.tools /\ f.session = e(t, up).session
  BY <1>7 DEF ExecRec, Stages
<1>10. GoesTo(j, f)
  BY <1>8
<1> HIDE DEF f
<1> QED
  BY <1>2, <1>5, <1>7, <1>9, <1>10, ProgressKeeps DEF AtHead

LEMMA ExpireKeeps ==
  ASSUME IInv, NEW j \in Jobs, Expire(j) PROVE IInv'
<1> DEFINE e == [exec[j] EXCEPT !.stage = "polling"]
<1>1. exec[j] \in ExecRec /\ JobOK(j)
  BY DEF IInv, Typed
<1>2. e \in ExecRec /\ e.stage = "polling"
  BY <1>1 DEF ExecRec, Stages
<1>3. \E free : Settle(exec[j].target, [exec EXCEPT ![j] = e], free)
  BY DEF Expire
<1>4. GoesTo(j, e)
  BY <1>2, <1>3, SettleGoes DEF IInv, Typed
<1>5. exec[j].stage \in Engaged /\ ~exec[j].tools
  BY <1>1 DEF Expire, Engaged, JobOK
<1> QED
  BY <1>4, <1>5, MoveKeeps DEF Expire, Engaged

LEMMA PollKeeps ==
  ASSUME IInv, NEW j \in Jobs, Poll(j) PROVE IInv'
<1>1. CASE j \in cancelled
  BY <1>1, SetGoes, IdleTyped, EndKeeps DEF Poll, Done, IInv, Typed, Outcomes
<1>2. CASE j \notin cancelled
  <2>1. exec[j] \in ExecRec /\ JobOK(j) /\ exec \in [Jobs -> ExecRec]
    BY DEF IInv, Typed
  <2>2. PICK s \in {"running", "waiting"} :
          GoesTo(j, [exec[j] EXCEPT !.stage = s])
    BY <1>2, <2>1, AcquireGoes DEF Poll
  <2>3. s \in Engaged /\ exec[j].stage \in Engaged /\ ~exec[j].tools
    BY <2>1 DEF Poll, JobOK, Engaged
  <2> QED
    BY <1>2, <2>2, <2>3, MoveKeeps DEF Poll
<1> QED
  BY <1>1, <1>2

LEMMA ResumeKeeps ==
  ASSUME IInv, NEW j \in Jobs, Resume(j) PROVE IInv'
<1>1. exec[j] \in ExecRec /\ JobOK(j) /\ exec \in [Jobs -> ExecRec]
  BY DEF IInv, Typed
<1>2. CASE j \in cancelled
  <2>1. \E t, free : Settle(t, [exec EXCEPT ![j] = Idle], free)
    BY <1>2 DEF Resume, Done
  <2>2. GoesTo(j, Idle)
    BY <1>1, <2>1, IdleTyped, SettleGoes
  <2> QED
    BY <1>2, <2>2, EndKeeps DEF Resume, Outcomes
<1>3. CASE j \notin cancelled
  <2> DEFINE e == [exec[j] EXCEPT !.stage = "running"]
  <2>1. e \in ExecRec /\ e.stage = "running"
    BY <1>1 DEF ExecRec, Stages
  <2>2. \E t, free : Settle(t, [exec EXCEPT ![j] = e], free)
    BY <1>3 DEF Resume
  <2>3. GoesTo(j, e)
    BY <1>1, <2>1, <2>2, SettleGoes
  <2> QED
    BY <1>3, <2>3, MoveKeeps DEF Resume, Engaged
<1> QED
  BY <1>2, <1>3

LEMMA SetupFailsKeeps ==
  ASSUME IInv, NEW j \in Jobs, SetupFails(j) PROVE IInv'
<1>1. GoesTo(j, Idle)
  <2>1. \/ \E t, free : Settle(t, [exec EXCEPT ![j] = Idle], free)
        \/ exec' = [exec EXCEPT ![j] = Idle]
    BY DEF SetupFails, Done
  <2> QED
    BY <2>1, IdleTyped, SettleGoes, SetGoes DEF IInv, Typed
<1> QED
  BY <1>1, EndKeeps DEF SetupFails, Outcomes

-----------------------------------------------------------------------------
LEMMA ToolStartedKeeps ==
  ASSUME IInv, NEW j \in Jobs, ToolStarted(j) PROVE IInv'
<1> DEFINE e == [exec[j] EXCEPT !.tools = TRUE]
<1>1. exec[j] \in ExecRec /\ JobOK(j) /\ exec \in [Jobs -> ExecRec]
  BY DEF IInv, Typed
<1>2. /\ e \in ExecRec /\ e.stage = "running" /\ e.target = exec[j].target
      /\ e.session = exec[j].session /\ e.phase = exec[j].phase
  BY <1>1 DEF ExecRec, ToolStarted, Running
<1>3. GoesTo(j, e)
  BY <1>1, <1>2, SetGoes DEF ToolStarted
<1> HIDE DEF e
<1> QED
  BY <1>1, <1>2, <1>3, ProgressKeeps DEF ToolStarted, Running, JobOK, Engaged

LEMMA EndAttemptGoes ==
  ASSUME exec \in [Jobs -> ExecRec], NEW j \in Jobs, NEW e \in ExecRec,
         e.stage # "waiting", EndAttempt(j, e)
  PROVE  GoesTo(j, e)
BY SettleGoes DEF EndAttempt

LEMMA StopKeeps ==
  ASSUME IInv, NEW j \in Jobs, Stop(j) PROVE IInv'
BY EndAttemptGoes, IdleTyped, EndKeeps DEF Stop, IInv, Typed, Outcomes

LEMMA FailForGoodKeeps ==
  ASSUME IInv, NEW j \in Jobs, FailForGood(j) PROVE IInv'
BY EndAttemptGoes, IdleTyped, EndKeeps DEF FailForGood, IInv, Typed, Outcomes

LEMMA RecoverKeeps ==
  ASSUME IInv, NEW j \in Jobs, Recover(j) PROVE IInv'
<1> DEFINE e == [exec[j] EXCEPT !.phase = NextPhase(@), !.session = 0,
                                !.tools = FALSE]
<1>1. exec[j] \in ExecRec /\ JobOK(j) /\ exec \in [Jobs -> ExecRec]
  BY DEF IInv, Typed
<1>2. /\ e \in ExecRec /\ e.stage = "running" /\ e.target = exec[j].target
      /\ e.session = 0 /\ ~e.tools /\ e.phase # "first"
  BY <1>1 DEF ExecRec, Recover, Running, NextPhase, Phases
<1>3. GoesTo(j, e)
  BY <1>1, <1>2, SetGoes DEF Recover
<1> HIDE DEF e
<1> QED
  BY <1>1, <1>2, <1>3, ProgressKeeps DEF Recover, Running, JobOK, Engaged

LEMMA FailKeeps ==
  ASSUME IInv, NEW j \in Jobs, Fail(j) PROVE IInv'
<1>1. exec[j] \in ExecRec /\ JobOK(j) /\ exec \in [Jobs -> ExecRec]
  BY DEF IInv, Typed
<1> DEFINE again == ~exec[j].tools /\ exec[j].attempt < MaxAttempts
<1>2. CASE again
  <2> DEFINE e == [exec[j] EXCEPT !.stage = "backoff"]
  <2>1. /\ e \in ExecRec /\ e.stage = "backoff" /\ e.session = exec[j].session
        /\ e.attempt = exec[j].attempt /\ e.tools = exec[j].tools
    BY <1>1 DEF ExecRec, Stages
  <2>2. GoesTo(j, e) /\ UNCHANGED <<job, cancelled, memory, outcome>>
    BY <1>1, <1>2, <2>1, EndAttemptGoes DEF Fail
  <2> HIDE DEF e
  <2> QED
    BY <1>1, <1>2, <2>1, <2>2, ProgressKeeps DEF Fail, Running, JobOK, Engaged
<1>3. CASE ~again
  <2>1. GoesTo(j, Idle)
    BY <1>1, <1>3, EndAttemptGoes, IdleTyped DEF Fail
  <2> QED
    BY <1>3, <2>1, EndKeeps DEF Fail, Outcomes
<1> QED
  BY <1>2, <1>3

-----------------------------------------------------------------------------
(* What a success leaves in the memory of the job's scope.                 *)
LEMMA RememberedOK ==
  ASSUME IInv, NEW j \in Jobs, NEW stored \in BOOLEAN,
         exec[j].target \in Targets, memory' = Remembered(j, stored)
  PROVE  /\ memory' \in [Scopes -> MemRec]
         /\ \A s \in Scopes \ {Scope(j)} : memory'[s] = memory[s]
         /\ MemoryOK'
<1> DEFINE S == Scope(j)
           n == memory[S].turns + 1
           replace == Fresh(j) \/ exec[j].phase # "first"
           f == [u \in Targets |-> IF u = exec[j].target /\ stored THEN n
                                   ELSE IF replace THEN 0
                                   ELSE memory[S].session[u]]
           m == [turns |-> n,
                 replaced |-> IF replace THEN n ELSE memory[S].replaced,
                 session |-> f]
<1>1. /\ S \in Scopes /\ memory[S] \in MemRec /\ memory \in [Scopes -> MemRec]
  BY DEF IInv, Typed, Scope, JobRec
<1>2. memory' = [memory EXCEPT ![S] = m]
  BY DEF Remembered
<1>3. /\ m \in MemRec /\ m.replaced <= m.turns
      /\ \A t \in Targets : m.session[t] # 0 => m.session[t] >= m.replaced
  <2>1. /\ memory[S].turns \in Nat /\ memory[S].replaced \in Nat
        /\ memory[S].session \in [Targets -> Nat]
        /\ memory[S].replaced <= memory[S].turns
        /\ \A t \in Targets : memory[S].session[t] # 0
                => memory[S].session[t] >= memory[S].replaced
    BY <1>1 DEF MemRec, IInv, MemoryOK
  <2>2. f \in [Targets -> Nat]
    BY <2>1
  <2>3. \A t \in Targets : f[t] # 0 => f[t] >= m.replaced
    BY <2>1
  <2> QED
    BY <2>1, <2>2, <2>3 DEF MemRec
<1> HIDE DEF m, S
<1>4. memory'[S] = m /\ \A s \in Scopes \ {S} : memory'[s] = memory[s]
  BY <1>1, <1>2
<1>5. memory' \in [Scopes -> MemRec]
  BY <1>1, <1>2, <1>3
<1>6. MemoryOK'
  BY <1>3, <1>4 DEF IInv, MemoryOK
<1> QED
  BY <1>4, <1>5, <1>6 DEF S

(* No other job of the scope is under way, so nobody holds what the        *)
(* success replaces.                                                       *)
LEMMA SucceedKeeps ==
  ASSUME IInv, NEW j \in Jobs, Succeed(j) PROVE IInv'
<1>1. exec[j] \in ExecRec /\ JobOK(j) /\ exec \in [Jobs -> ExecRec]
  BY DEF IInv, Typed
<1>2. GoesTo(j, Idle)
  BY <1>1, EndAttemptGoes, IdleTyped DEF Succeed
<1>3. exec[j].target \in Targets /\ outcome[j] = "running"
  BY <1>1 DEF Succeed, Running, JobOK, Engaged
<1>4. /\ memory' \in [Scopes -> MemRec] /\ MemoryOK'
      /\ \A s \in Scopes \ {Scope(j)} : memory'[s] = memory[s]
  BY <1>3, RememberedOK DEF Succeed
<1>5. /\ UNCHANGED <<job, cancelled>>
      /\ outcome' \in [Jobs -> Outcomes \cup {"none", "running"}]
      /\ outcome'[j] = "succeeded"
      /\ \A i \in Jobs \ {j} : outcome'[i] = outcome[i]
  BY DEF Succeed, Ends, IInv, Typed, Outcomes
<1>6. Typed'
  BY <1>2, <1>4, <1>5 DEF IInv, Typed, GoesTo
<1>7. OnePerScope'
  BY <1>5 DEF IInv, OnePerScope, Scope
<1>8. JobOK(j)'
  BY <1>2, IdleTyped DEF GoesTo, JobOK, AtHead, Engaged
<1>9. ASSUME NEW i \in Jobs \ {j} PROVE JobOK(i)'
  <2>1. JobOK(i) /\ exec[i] \in ExecRec /\ Scope(i) \in Scopes
    BY DEF IInv, Typed, Scope, JobRec
  <2>2. CASE Scope(i) = Scope(j)
    <3>1. exec[i] = Idle
      BY <1>3, <2>1, <2>2 DEF IInv, OnePerScope, JobOK
    <3>2. exec'[i] = Idle
      BY <1>2, <3>1, IdleTyped DEF GoesTo
    <3> QED
      BY <3>2, IdleTyped DEF JobOK, AtHead, Engaged
  <2>3. CASE Scope(i) # Scope(j)
    <3>1. memory'[Scope(i)] = memory[Scope(i)] /\ outcome'[i] = outcome[i]
      BY <1>4, <1>5, <2>1, <2>3
    <3>2. CASE exec'[i] = exec[i]
      BY <1>5, <2>1, <3>1, <3>2 DEF JobOK, AtHead, Scope, Fresh
    <3>3. CASE /\ exec[i].stage = "waiting"
               /\ exec'[i] = [exec[i] EXCEPT !.stage = "granted"]
      BY <1>5, <2>1, <3>1, <3>3 DEF JobOK, AtHead, Scope, Fresh, ExecRec, Engaged
    <3> QED
      BY <1>2, <3>2, <3>3 DEF GoesTo
  <2> QED
    BY <2>2, <2>3
<1> QED
  BY <1>4, <1>6, <1>7, <1>8, <1>9 DEF IInv

-----------------------------------------------------------------------------
LEMMA BeginKeeps ==
  ASSUME IInv, NEW j \in Jobs, Begin(j) PROVE IInv'
<1> DEFINE e == [Idle EXCEPT !.stage = "ready"]
<1>1. /\ e \in ExecRec /\ e.stage = "ready" /\ e.attempt = 0 /\ ~e.tools
      /\ e.session = 0
  <2>1. Idle.attempt = 0
    BY DEF Idle
  <2> QED
    BY <2>1, IdleTyped DEF ExecRec, Stages
<1>2. GoesTo(j, e)
  BY <1>1, SetGoes DEF Begin, IInv, Typed
<1> HIDE DEF e
<1>3. /\ UNCHANGED <<job, memory>> /\ cancelled' \subseteq Jobs
      /\ outcome' \in [Jobs -> Outcomes \cup {"none", "running"}]
      /\ outcome'[j] = "running"
      /\ \A i \in Jobs \ {j} : /\ outcome'[i] = outcome[i]
                               /\ outcome[i] = "running" => Scope(i) # Scope(j)
  BY DEF Begin, IInv, Typed
<1>4. Typed' /\ MemoryOK'
  BY <1>2, <1>3 DEF IInv, Typed, MemoryOK, GoesTo
<1>5. OnePerScope'
  BY <1>3 DEF IInv, OnePerScope, Scope
<1>6. JobOK(j)'
  BY <1>1, <1>2, <1>3, ExecAssumption DEF JobOK, GoesTo, AtHead, Engaged
<1>7. ASSUME NEW i \in Jobs \ {j} PROVE JobOK(i)'
  <2>1. exec'[i] = exec[i] /\ JobOK(i)
    BY DEF Begin, IInv, Typed
  <2> QED
    BY <1>3, <2>1 DEF JobOK, AtHead, Scope, Fresh
<1> QED
  BY <1>4, <1>5, <1>6, <1>7 DEF IInv

(* Steps that leave executions, outcomes and memory alone.                 *)
LEMMA StutterKeeps ==
  ASSUME IInv, UNCHANGED <<job, outcome, exec, memory>>, cancelled' \subseteq Jobs
  PROVE  IInv'
<1>1. Typed' /\ OnePerScope' /\ MemoryOK'
  BY DEF IInv, Typed, OnePerScope, MemoryOK, Scope
<1>2. \A i \in Jobs : JobOK(i)'
  BY DEF IInv, JobOK, AtHead, Scope, Fresh
<1> QED
  BY <1>1, <1>2 DEF IInv

LEMMA RestartKeeps ==
  ASSUME IInv, Restart, memory' \in [Scopes -> MemRec], MemoryOK'
  PROVE  IInv'
<1>1. exec' \in [Jobs -> ExecRec] /\ \A i \in Jobs : exec'[i] = Idle
  BY IdleTyped DEF Restart
<1>2. /\ outcome' \in [Jobs -> Outcomes \cup {"none", "running"}]
      /\ \A i \in Jobs : outcome'[i] # "running"
  BY DEF Restart, IInv, Typed, Outcomes
<1>3. Typed' /\ OnePerScope'
  BY <1>1, <1>2 DEF IInv, Typed, OnePerScope, Restart
<1>4. \A i \in Jobs : JobOK(i)'
  BY <1>1, IdleTyped DEF JobOK, AtHead, Engaged
<1> QED
  BY <1>3, <1>4 DEF IInv

LEMMA InitOK == Init => IInv
<1> SUFFICES ASSUME Init PROVE IInv
  OBVIOUS
<1>1. memory \in [Scopes -> MemRec] /\ MemoryOK
  BY DEF Init, MemRec, MemoryOK
<1>2. exec \in [Jobs -> ExecRec] /\ \A i \in Jobs : exec[i] = Idle
  BY IdleTyped DEF Init
<1>3. Typed /\ OnePerScope
  BY <1>1, <1>2 DEF Init, Typed, JobRec, Outcomes, OnePerScope
<1>4. \A i \in Jobs : JobOK(i)
  BY <1>2, IdleTyped DEF JobOK, AtHead, Engaged
<1> QED
  BY <1>1, <1>3, <1>4 DEF IInv

LEMMA CrashKeeps ==
  ASSUME IInv, \/ Crash
               \/ \E j \in Jobs : CrashInSuccess(j)
  PROVE  IInv'
<1>1. CASE Crash
  BY <1>1, RestartKeeps DEF Crash, IInv, Typed, MemoryOK
<1>2. ASSUME NEW j \in Jobs, CrashInSuccess(j) PROVE IInv'
  <2>1. exec[j].target \in Targets
    BY <1>2 DEF CrashInSuccess, Running, IInv, JobOK, Engaged
  <2> QED
    BY <1>2, <2>1, RememberedOK, RestartKeeps DEF CrashInSuccess
<1> QED
  BY <1>1, <1>2

LEMMA ExecuteKeeps ==
  ASSUME IInv, NEW j \in Jobs, Execute(j) PROVE IInv'
BY StopAtHeadKeeps, NoHealthyTargetKeeps, StartAttemptKeeps, ExpireKeeps,
   PollKeeps, ResumeKeeps, SetupFailsKeeps, ToolStartedKeeps, SucceedKeeps,
   StopKeeps, RecoverKeeps, FailKeeps, FailForGoodKeeps
   DEF Execute

(* The inductive invariant: typing, one execution per scope, sessions not  *)
(* older than the last replacement, and each job's state consistent with   *)
(* the place it waits in (TargetExecutor.execute).                         *)
THEOREM InductiveInvariant == Spec => []IInv
<1>1. IInv /\ [Next]_vars => IInv'
  <2> SUFFICES ASSUME IInv, [Next]_vars PROVE IInv'
    OBVIOUS
  <2>1. CASE \E j \in Jobs : Begin(j) \/ Execute(j)
    BY <2>1, BeginKeeps, ExecuteKeeps
  <2>2. CASE \E j \in Jobs : Cancel(j)
    BY <2>2, StutterKeeps DEF Cancel, IInv, Typed
  <2>3. CASE Crash \/ \E j \in Jobs : CrashInSuccess(j)
    BY <2>3, CrashKeeps
  <2>4. CASE \E t \in Targets : CircuitExpires(t)
    BY <2>4, StutterKeeps DEF CircuitExpires, IInv, Typed
  <2>5. CASE UNCHANGED vars
    BY <2>5, StutterKeeps DEF vars, IInv, Typed
  <2> QED
    BY <2>1, <2>2, <2>3, <2>4, <2>5 DEF Next
<1> QED
  BY <1>1, InitOK, PTL DEF Spec

(* A session read before the wait for a permit is still the scope's        *)
(* session when the driver is invoked with it (execution.py, execute).     *)
THEOREM SessionsAreCurrent == Spec => []ResumesCurrentSession
<1>1. IInv => ResumesCurrentSession
  BY DEF IInv, JobOK, ResumesCurrentSession, Engaged
<1> QED
  BY <1>1, InductiveInvariant, PTL

(* No session from before the last replacement of its scope's sessions is  *)
(* kept or resumed (append_turn with clear_sessions and                    *)
(* finish_fresh_job_success).                                              *)
THEOREM SessionsAreNotOutdated == Spec => []NoOutdatedSession
<1>1. IInv => NoOutdatedSession
  BY DEF IInv, MemoryOK, JobOK, NoOutdatedSession
<1> QED
  BY <1>1, InductiveInvariant, PTL

-----------------------------------------------------------------------------
(* Who invokes a driver.                                                   *)

LEMMA QuietMove ==
  ASSUME NEW j \in Jobs, NEW e \in ExecRec, GoesTo(j, e), NEW i \in Jobs, Invokes(i)
  PROVE  i = j /\ e.stage = "running"
<1>1. CASE i = j
  BY <1>1 DEF GoesTo, Invokes
<1>2. CASE i # j
  <2>1. CASE exec'[i] = exec[i]
    BY <2>1 DEF Invokes
  <2>2. CASE exec[i] \in ExecRec /\ exec'[i] = [exec[i] EXCEPT !.stage = "granted"]
    BY <2>2 DEF Invokes, ExecRec
  <2>3. CASE exec[i] \notin ExecRec /\ exec'[i] = [exec[i] EXCEPT !.stage = "granted"]
    BY <2>3 DEF Invokes, GoesTo, ExecRec
  <2> QED
    BY <1>2, <2>1, <2>2, <2>3 DEF GoesTo
<1> QED
  BY <1>1, <1>2

(* An invocation is a step of the job's own coroutine, which has looked at *)
(* the cancel event and at the tool activity of the invocation before.     *)
LEMMA WhoInvokes ==
  ASSUME IInv, NEW j \in Jobs, Execute(j), NEW i \in Jobs, Invokes(i)
  PROVE  i = j /\ j \notin cancelled /\ ~exec[j].tools
<1>1. exec[j] \in ExecRec /\ JobOK(j) /\ exec \in [Jobs -> ExecRec]
  BY DEF IInv, Typed
<1>2. ~GoesTo(j, Idle)
  BY IdleTyped, QuietMove
<1>3. CASE StopAtHead(j) \/ NoHealthyTarget(j)
  BY <1>1, <1>2, <1>3, IdleTyped, SetGoes DEF StopAtHead, NoHealthyTarget, Done
<1>4. CASE StartAttempt(j)
  <2>1. i = j
    BY <1>1, <1>4 DEF StartAttempt, Acquire, Invokes
  <2> QED
    BY <1>1, <1>4, <2>1 DEF StartAttempt, AtHead, JobOK
<1>5. CASE Expire(j)
  <2> DEFINE e == [exec[j] EXCEPT !.stage = "polling"]
  <2>1. e \in ExecRec /\ e.stage = "polling"
    BY <1>1 DEF ExecRec, Stages
  <2>2. \E t, free : Settle(t, [exec EXCEPT ![j] = e], free)
    BY <1>5 DEF Expire
  <2>3. GoesTo(j, e)
    BY <1>1, <2>1, <2>2, SettleGoes
  <2> QED
    BY <2>1, <2>3, QuietMove
<1>6. CASE Poll(j)
  <2>1. i = j
    BY <1>1, <1>6 DEF Poll, Acquire, Done, Invokes
  <2>2. j \notin cancelled
    BY <1>1, <1>2, <1>6, IdleTyped, SetGoes DEF Poll, Done
  <2> QED
    BY <1>1, <1>6, <2>1, <2>2 DEF Poll, JobOK
<1>7. CASE Resume(j)
  <2>1. j \notin cancelled
    <3> SUFFICES ASSUME j \in cancelled PROVE FALSE
      OBVIOUS
    <3>1. \E t, free : Settle(t, [exec EXCEPT ![j] = Idle], free)
      BY <1>7 DEF Resume, Done
    <3> QED
      BY <1>1, <1>2, <3>1, IdleTyped, SettleGoes
  <2> DEFINE e == [exec[j] EXCEPT !.stage = "running"]
  <2>2. e \in ExecRec /\ e.stage = "running"
    BY <1>1 DEF ExecRec, Stages
  <2>3. \E t, free : Settle(t, [exec EXCEPT ![j] = e], free)
    BY <1>7, <2>1 DEF Resume
  <2>4. GoesTo(j, e)
    BY <1>1, <2>2, <2>3, SettleGoes
  <2>5. i = j
    BY <2>2, <2>4, QuietMove
  <2> QED
    BY <1>1, <1>7, <2>1, <2>5 DEF Resume, JobOK
<1>8. CASE SetupFails(j)
  <2>1. \/ \E t, free : Settle(t, [exec EXCEPT ![j] = Idle], free)
        \/ exec' = [exec EXCEPT ![j] = Idle]
    BY <1>8 DEF SetupFails, Done
  <2> QED
    BY <1>1, <1>2, <2>1, IdleTyped, SettleGoes, SetGoes
<1>9. CASE ToolStarted(j)
  BY <1>1, <1>9 DEF ToolStarted, Invokes, ExecRec
<1>10. CASE Recover(j)
  <2>1. i = j
    BY <1>1, <1>10 DEF Recover, Invokes
  <2> QED
    BY <1>10, <2>1 DEF Recover, CanRecover
<1>11. CASE Succeed(j) \/ Stop(j) \/ FailForGood(j)
  BY <1>1, <1>2, <1>11, IdleTyped, EndAttemptGoes DEF Succeed, Stop, FailForGood
<1>12. CASE Fail(j)
  <2> DEFINE e == [exec[j] EXCEPT !.stage = "backoff"]
  <2>1. e \in ExecRec /\ e.stage = "backoff"
    BY <1>1 DEF ExecRec, Stages
  <2>2. GoesTo(j, e) \/ GoesTo(j, Idle)
    BY <1>1, <1>12, <2>1, IdleTyped, EndAttemptGoes DEF Fail
  <2> QED
    BY <1>2, <2>1, <2>2, QuietMove
<1> QED
  BY <1>3, <1>4, <1>5, <1>6, <1>7, <1>8, <1>9, <1>10, <1>11, <1>12 DEF Execute

LEMMA OnlyExecuteInvokes ==
  ASSUME IInv, [Next]_vars, NEW i \in Jobs, Invokes(i)
  PROVE  Execute(i) /\ i \notin cancelled /\ ~exec[i].tools
<1>1. ASSUME NEW j \in Jobs, Execute(j)
      PROVE  Execute(i) /\ i \notin cancelled /\ ~exec[i].tools
  BY <1>1, WhoInvokes
<1>2. ASSUME NEW j \in Jobs, Begin(j) PROVE FALSE
  BY <1>2 DEF Begin, Idle, Invokes, IInv, Typed
<1>3. ASSUME UNCHANGED exec PROVE FALSE
  BY <1>3 DEF Invokes
<1>4. ASSUME Restart PROVE FALSE
  BY <1>4 DEF Restart, Idle, Invokes
<1> QED
  BY <1>1, <1>2, <1>3, <1>4
     DEF Next, vars, Cancel, CircuitExpires, Crash, CrashInSuccess

(* No driver is invoked for a job whose cancel event is set: every path    *)
(* out of an await of execute looks at the event first.                    *)
THEOREM CancelledStartNothing == Spec => NoStartAfterCancel
<1>1. IInv /\ [Next]_vars => [\A j \in cancelled : ~Invokes(j)]_vars
  BY OnlyExecuteInvokes DEF IInv, Typed
<1> QED
  BY <1>1, InductiveInvariant, PTL DEF Spec, NoStartAfterCancel

(* After a tool call no further invocation follows in the execution        *)
(* (replay_blocked in execute).                                            *)
THEOREM NothingReplayed == Spec => NoReplayAfterTools
<1>1. IInv /\ [Next]_vars =>
        [\A j \in Jobs : exec[j].tools /\ exec[j].stage # "idle"
                           => ~Invokes(j)]_vars
  BY OnlyExecuteInvokes
<1> QED
  BY <1>1, InductiveInvariant, PTL DEF Spec, NoReplayAfterTools

-----------------------------------------------------------------------------
(* The books of the semaphores.                                            *)

(* The jobs that are in one of the stages S of target t in E, and whether  *)
(* a job in local state e is one of them.                                  *)
Places(E, t, S) == {i \in Jobs : E[i].target = t /\ E[i].stage \in S}
Is(e, t, S) == IF e.target = t /\ e.stage \in S THEN 1 ELSE 0

Holding == {"granted", "running"}

LEMMA PlacesFinite ==
  ASSUME NEW E, NEW t, NEW S
  PROVE  IsFiniteSet(Places(E, t, S)) /\ Cardinality(Places(E, t, S)) \in Nat
<1>1. Places(E, t, S) \in SUBSET Jobs
  BY DEF Places
<1> QED
  BY <1>1, ExecAssumption, FS_Subset, FS_CardinalityType

LEMMA CountChange ==
  ASSUME NEW E \in [Jobs -> ExecRec], NEW j \in Jobs, NEW e \in ExecRec,
         NEW t, NEW S
  PROVE  Cardinality(Places([E EXCEPT ![j] = e], t, S))
           = Cardinality(Places(E, t, S)) + Is(e, t, S) - Is(E[j], t, S)
<1> DEFINE F == [E EXCEPT ![j] = e]
           A == Places(E, t, S)
           B == Places(F, t, S)
<1>1. F[j] = e /\ \A i \in Jobs \ {j} : F[i] = E[i]
  OBVIOUS
<1> HIDE DEF F
<1>2. IsFiniteSet(A) /\ Cardinality(A) \in Nat
  BY PlacesFinite
<1>3. CASE e.target = t /\ e.stage \in S
  <2>1. B = A \cup {j} /\ Is(e, t, S) = 1
    BY <1>1, <1>3 DEF Places, Is
  <2>2. Cardinality(B) = IF j \in A THEN Cardinality(A) ELSE Cardinality(A) + 1
    BY <1>2, <2>1, FS_AddElement
  <2>3. Is(E[j], t, S) = IF j \in A THEN 1 ELSE 0
    BY DEF Places, Is
  <2> QED
    BY <1>2, <2>1, <2>2, <2>3 DEF F
<1>4. CASE ~(e.target = t /\ e.stage \in S)
  <2>1. B = A \ {j} /\ Is(e, t, S) = 0
    BY <1>1, <1>4 DEF Places, Is
  <2>2. Cardinality(B) = IF j \in A THEN Cardinality(A) - 1 ELSE Cardinality(A)
    BY <1>2, <2>1, FS_RemoveElement
  <2>3. Is(E[j], t, S) = IF j \in A THEN 1 ELSE 0
    BY DEF Places, Is
  <2> QED
    BY <1>2, <2>1, <2>2, <2>3 DEF F
<1> QED
  BY <1>3, <1>4

(* The semaphore hands over its permits and loses none.                    *)
LEMMA SettleCounts ==
  ASSUME NEW E \in [Jobs -> ExecRec], NEW t \in Targets, NEW free \in Nat,
         permits \in [Targets -> Nat], Settle(t, E, free)
  PROVE  /\ permits' \in [Targets -> Nat]
         /\ permits'[t] + Cardinality(Places(exec', t, Holding))
              = free + Cardinality(Places(E, t, Holding))
         /\ \A u \in Targets \ {t} :
              /\ permits'[u] = permits[u]
              /\ Places(exec', u, Holding) = Places(E, u, Holding)
         /\ \A u : Places(exec', u, {"running"}) = Places(E, u, {"running"})
<1> DEFINE W == {i \in Jobs : E[i].target = t /\ E[i].stage = "waiting"}
           n == IF Cardinality(W) < free THEN Cardinality(W) ELSE free
<1>1. PICK G \in SUBSET W :
        /\ Cardinality(G) = n
        /\ exec' = [i \in Jobs |-> IF i \in G
                                   THEN [E[i] EXCEPT !.stage = "granted"]
                                   ELSE E[i]]
        /\ permits' = [permits EXCEPT ![t] = free - n]
  BY DEF Settle
<1>2. W = Places(E, t, {"waiting"})
  BY DEF Places
<1>3. Cardinality(W) \in Nat /\ IsFiniteSet(W)
  BY <1>2, PlacesFinite
<1>4. n \in Nat /\ free - n \in Nat
  BY <1>3
<1>5. \A i \in Jobs :
        /\ exec'[i].target = E[i].target
        /\ i \in G => exec'[i].stage = "granted" /\ E[i].stage = "waiting"
                      /\ E[i].target = t
        /\ i \notin G => exec'[i].stage = E[i].stage
  BY <1>1 DEF ExecRec
<1>6. Places(exec', t, Holding) = Places(E, t, Holding) \cup G
  BY <1>1, <1>5 DEF Places, Holding
<1>7. Places(E, t, Holding) \cap G = {}
  BY <1>1, <1>5 DEF Places, Holding
<1>8. Cardinality(Places(exec', t, Holding))
        = Cardinality(Places(E, t, Holding)) + n
  <2>1. IsFiniteSet(G)
    BY <1>3, FS_Subset
  <2>2. Cardinality(Places(E, t, Holding) \cup G)
          = Cardinality(Places(E, t, Holding)) + Cardinality(G) - 0
    BY <1>7, <2>1, PlacesFinite, FS_Union, FS_EmptySet
  <2>3. Cardinality(Places(E, t, Holding)) \in Nat
    BY PlacesFinite
  <2>4. Cardinality(Places(exec', t, Holding))
          = Cardinality(Places(E, t, Holding)) + Cardinality(G) - 0
    BY <1>6, <2>2
  <2>5. Cardinality(G) = n
    BY <1>1
  <2> HIDE DEF n, W
  <2> QED
    BY <1>4, <2>3, <2>4, <2>5
<1>9. permits' \in [Targets -> Nat] /\ permits'[t] = free - n
      /\ \A u \in Targets \ {t} : permits'[u] = permits[u]
  BY <1>1, <1>4
<1>10. \A u \in Targets \ {t} : Places(exec', u, Holding) = Places(E, u, Holding)
  BY <1>5 DEF Places, Holding
<1>11. \A u : Places(exec', u, {"running"}) = Places(E, u, {"running"})
  BY <1>5 DEF Places
<1>12. permits'[t] + Cardinality(Places(exec', t, Holding))
              = free + Cardinality(Places(E, t, Holding))
  <2> HIDE DEF n, W
  <2>1. Cardinality(Places(E, t, Holding)) \in Nat
    BY PlacesFinite
  <2> QED
    BY <1>4, <1>8, <1>9, <2>1
<1> QED
  BY <1>9, <1>10, <1>11, <1>12

Accounted ==
  /\ permits \in [Targets -> Nat]
  /\ active \in [Targets -> Nat]
  /\ PermitsAccounted

LEMMA PlacesAt ==
  ASSUME NEW t, NEW S PROVE At(t, S) = Places(exec, t, S)
BY DEF At, Places

(* A step whose books balance: j becomes e, the permits it took or gave    *)
(* back are those of its change of stage.                                  *)
LEMMA SetAccounts ==
  ASSUME IInv, Accounted, NEW j \in Jobs, NEW e \in ExecRec,
         exec' = [exec EXCEPT ![j] = e],
         permits' \in [Targets -> Nat], active' \in [Targets -> Nat],
         \A t \in Targets :
           /\ permits'[t] = permits[t] + Is(exec[j], t, Holding)
                                       - Is(e, t, Holding)
           /\ active'[t] = active[t] + Is(e, t, {"running"})
                                     - Is(exec[j], t, {"running"})
  PROVE  Accounted'
<1> DEFINE E == [exec EXCEPT ![j] = e]
<1>0. \A t, S : Cardinality(Places(E, t, S))
                  = Cardinality(Places(exec, t, S)) + Is(e, t, S)
                    - Is(exec[j], t, S)
  BY CountChange DEF IInv, Typed
<1>1. exec' = E
  OBVIOUS
<1> HIDE DEF E
<1>2. SUFFICES ASSUME NEW t \in Targets
               PROVE  /\ permits'[t] + Cardinality(Places(exec', t, Holding))
                           = Capacity[t]
                      /\ active'[t] = Cardinality(Places(exec', t, {"running"}))
  BY DEF Accounted, PermitsAccounted, At, Places, Holding
<1>3. /\ permits[t] + Cardinality(Places(exec, t, Holding)) = Capacity[t]
      /\ active[t] = Cardinality(Places(exec, t, {"running"}))
  BY PlacesAt DEF Accounted, PermitsAccounted, Holding
<1>4. \A S : /\ Cardinality(Places(exec, t, S)) \in Nat
             /\ Is(e, t, S) \in Nat /\ Is(exec[j], t, S) \in Nat
  BY PlacesFinite DEF Is
<1>5. permits[t] \in Nat /\ active[t] \in Nat /\ Capacity[t] \in Nat
  BY ExecAssumption DEF Accounted
<1> QED
  <2>1. /\ Cardinality(Places(exec', t, Holding))
             = Cardinality(Places(exec, t, Holding)) + Is(e, t, Holding)
               - Is(exec[j], t, Holding)
        /\ Cardinality(Places(exec', t, {"running"}))
             = Cardinality(Places(exec, t, {"running"})) + Is(e, t, {"running"})
               - Is(exec[j], t, {"running"})
    BY <1>0, <1>1
  <2>2. /\ permits'[t] = permits[t] + Is(exec[j], t, Holding)
                                    - Is(e, t, Holding)
        /\ active'[t] = active[t] + Is(e, t, {"running"})
                                  - Is(exec[j], t, {"running"})
    OBVIOUS
  <2> QED
    BY <1>3, <1>4, <1>5, <2>1, <2>2

LEMMA SettleAccounts ==
  ASSUME IInv, Accounted, NEW j \in Jobs, NEW e \in ExecRec,
         NEW t \in Targets, NEW free \in Nat,
         Settle(t, [exec EXCEPT ![j] = e], free),
         free = permits[t] + Is(exec[j], t, Holding) - Is(e, t, Holding),
         active' \in [Targets -> Nat],
         \A u \in Targets :
           active'[u] = active[u] + Is(e, u, {"running"})
                                  - Is(exec[j], u, {"running"}),
         \A u \in Targets \ {t} : Is(exec[j], u, Holding) = Is(e, u, Holding)
  PROVE  Accounted'
<1> DEFINE E == [exec EXCEPT ![j] = e]
<1>1. E \in [Jobs -> ExecRec]
  BY DEF IInv, Typed
<1>2. \A u, S : Cardinality(Places(E, u, S))
                  = Cardinality(Places(exec, u, S)) + Is(e, u, S)
                    - Is(exec[j], u, S)
  BY CountChange DEF IInv, Typed
<1>3. Settle(t, E, free)
  OBVIOUS
<1> HIDE DEF E
<1>4. /\ permits' \in [Targets -> Nat]
      /\ permits'[t] + Cardinality(Places(exec', t, Holding))
              = free + Cardinality(Places(E, t, Holding))
      /\ \A u \in Targets \ {t} :
              /\ permits'[u] = permits[u]
              /\ Places(exec', u, Holding) = Places(E, u, Holding)
      /\ \A u : Places(exec', u, {"running"}) = Places(E, u, {"running"})
  BY <1>1, <1>3, SettleCounts DEF Accounted
<1>5. SUFFICES ASSUME NEW u \in Targets
               PROVE  /\ permits'[u] + Cardinality(Places(exec', u, Holding))
                           = Capacity[u]
                      /\ active'[u] = Cardinality(Places(exec', u, {"running"}))
  BY <1>4 DEF Accounted, PermitsAccounted, At, Places, Holding
<1>6. /\ permits[u] + Cardinality(Places(exec, u, Holding)) = Capacity[u]
      /\ active[u] = Cardinality(Places(exec, u, {"running"}))
  BY PlacesAt DEF Accounted, PermitsAccounted, Holding
<1>7. \A S : /\ Cardinality(Places(exec, u, S)) \in Nat
             /\ Is(e, u, S) \in Nat /\ Is(exec[j], u, S) \in Nat
  BY PlacesFinite DEF Is
<1>8. permits[u] \in Nat /\ active[u] \in Nat /\ Capacity[u] \in Nat
  BY ExecAssumption DEF Accounted
<1>9. active'[u] = Cardinality(Places(exec', u, {"running"}))
  BY <1>2, <1>4, <1>6, <1>7, <1>8
<1>10. CASE u = t
  BY <1>2, <1>4, <1>6, <1>7, <1>8, <1>9, <1>10
<1>11. CASE u # t
  BY <1>2, <1>4, <1>6, <1>7, <1>8, <1>9, <1>11
<1> QED
  BY <1>10, <1>11

(* j moves between places without a permit, or stays where it is.          *)
LEMMA QuietAccounts ==
  ASSUME IInv, Accounted, NEW j \in Jobs, NEW e \in ExecRec,
         exec' = [exec EXCEPT ![j] = e], UNCHANGED semVars,
         \/ e.stage \notin Holding /\ exec[j].stage \notin Holding
         \/ e.stage = exec[j].stage /\ e.target = exec[j].target
  PROVE  Accounted'
<1>1. \A t : /\ Is(e, t, Holding) = Is(exec[j], t, Holding)
             /\ Is(e, t, {"running"}) = Is(exec[j], t, {"running"})
             /\ Is(e, t, Holding) \in Nat /\ Is(e, t, {"running"}) \in Nat
  BY DEF Is, Holding
<1>2. \A t \in Targets : permits[t] \in Nat /\ active[t] \in Nat
  BY DEF Accounted
<1>3. \A t \in Targets :
           /\ permits'[t] = permits[t] + Is(exec[j], t, Holding)
                                       - Is(e, t, Holding)
           /\ active'[t] = active[t] + Is(e, t, {"running"})
                                     - Is(exec[j], t, {"running"})
  BY <1>1, <1>2 DEF semVars
<1>4. permits' \in [Targets -> Nat] /\ active' \in [Targets -> Nat]
  BY DEF semVars, Accounted
<1> QED
  BY <1>3, <1>4, SetAccounts

LEMMA AcquireAccounts ==
  ASSUME IInv, Accounted, NEW j \in Jobs, NEW e \in ExecRec, e.target \in Targets,
         exec[j].stage \notin Holding, Acquire(j, e.target, e)
  PROVE  Accounted'
<1> DEFINE t == e.target
<1>1. /\ permits \in [Targets -> Nat] /\ active \in [Targets -> Nat]
      /\ t \in Targets
  BY DEF Accounted
<1>2. CASE Unlocked(t)
  <2> DEFINE f == [e EXCEPT !.stage = "running"]
  <2>1. f \in ExecRec /\ f.stage = "running" /\ f.target = t
    BY DEF ExecRec, Stages
  <2>2. /\ permits[t] > 0
        /\ exec' = [exec EXCEPT ![j] = f]
        /\ permits' = [permits EXCEPT ![t] = @ - 1]
        /\ active' = [active EXCEPT ![t] = @ + 1]
    BY <1>2 DEF Acquire, Unlocked
  <2> HIDE DEF f, t
  <2>3. permits' \in [Targets -> Nat] /\ active' \in [Targets -> Nat]
    BY <1>1, <2>2
  <2>4. \A u : /\ Is(exec[j], u, Holding) = 0 /\ Is(exec[j], u, {"running"}) = 0
               /\ Is(f, u, Holding) = IF u = t THEN 1 ELSE 0
               /\ Is(f, u, {"running"}) = IF u = t THEN 1 ELSE 0
    BY <2>1 DEF Is, Holding
  <2>5. \A u \in Targets :
           /\ permits'[u] = permits[u] + Is(exec[j], u, Holding)
                                       - Is(f, u, Holding)
           /\ active'[u] = active[u] + Is(f, u, {"running"})
                                     - Is(exec[j], u, {"running"})
    BY <1>1, <2>2, <2>4
  <2> QED
    BY <2>1, <2>2, <2>3, <2>5, SetAccounts
<1>3. CASE ~Unlocked(t)
  <2> DEFINE f == [e EXCEPT !.stage = "waiting"]
  <2>1. f \in ExecRec /\ f.stage = "waiting"
    BY DEF ExecRec, Stages
  <2>2. exec' = [exec EXCEPT ![j] = f] /\ UNCHANGED semVars
    BY <1>3 DEF Acquire
  <2> HIDE DEF f
  <2> QED
    BY <2>1, <2>2, QuietAccounts DEF Holding
<1> QED
  BY <1>2, <1>3

(* j gives back the permit it holds.                                       *)
LEMMA ReturnAccounts ==
  ASSUME IInv, Accounted, NEW j \in Jobs, NEW e \in ExecRec, e.stage \notin Holding,
         exec[j].stage = "granted",
         Settle(exec[j].target, [exec EXCEPT ![j] = e], permits[exec[j].target] + 1),
         UNCHANGED active
  PROVE  Accounted'
<1> DEFINE t == exec[j].target
<1>1. /\ permits \in [Targets -> Nat] /\ active \in [Targets -> Nat]
      /\ t \in Targets
  BY DEF Accounted, IInv, JobOK, Engaged
<1> HIDE DEF t
<1>2. \A u : /\ Is(exec[j], u, Holding) = IF u = t THEN 1 ELSE 0
             /\ Is(exec[j], u, {"running"}) = 0
             /\ Is(e, u, Holding) = 0 /\ Is(e, u, {"running"}) = 0
  BY DEF Is, Holding, t
<1>3. /\ permits[t] + 1 \in Nat
      /\ permits[t] + 1 = permits[t] + Is(exec[j], t, Holding) - Is(e, t, Holding)
      /\ \A u \in Targets :
           active'[u] = active[u] + Is(e, u, {"running"})
                                  - Is(exec[j], u, {"running"})
      /\ \A u \in Targets \ {t} : Is(exec[j], u, Holding) = Is(e, u, Holding)
      /\ active' \in [Targets -> Nat]
  BY <1>1, <1>2
<1>4. Settle(t, [exec EXCEPT ![j] = e], permits[t] + 1)
  BY DEF t
<1> QED
  BY <1>1, <1>3, <1>4, SettleAccounts

(* The end of an attempt gives back the permit and the active slot.        *)
LEMMA EndAttemptAccounts ==
  ASSUME IInv, Accounted, NEW j \in Jobs, NEW e \in ExecRec, e.stage \notin Holding,
         Running(j), EndAttempt(j, e)
  PROVE  Accounted'
<1> DEFINE t == exec[j].target
<1>1. /\ permits \in [Targets -> Nat] /\ active \in [Targets -> Nat]
      /\ t \in Targets
  BY DEF Accounted, IInv, JobOK, Engaged, Running
<1>2. active[t] >= 1
  <2>1. j \in Places(exec, t, {"running"})
    BY DEF Places, Running
  <2>2. /\ IsFiniteSet(Places(exec, t, {"running"}))
        /\ Cardinality(Places(exec, t, {"running"})) \in Nat
        /\ Cardinality(Places(exec, t, {"running"})) # 0
    BY <2>1, PlacesFinite, FS_EmptySet
  <2>3. active[t] = Cardinality(Places(exec, t, {"running"}))
    BY <1>1, PlacesAt DEF Accounted, PermitsAccounted
  <2> QED
    BY <2>2, <2>3
<1>3. /\ active' = [active EXCEPT ![t] = @ - 1]
      /\ Settle(t, [exec EXCEPT ![j] = e], permits[t] + 1)
  BY DEF EndAttempt
<1>4. \A u : /\ Is(exec[j], u, Holding) = IF u = t THEN 1 ELSE 0
             /\ Is(exec[j], u, {"running"}) = IF u = t THEN 1 ELSE 0
             /\ Is(e, u, Holding) = 0 /\ Is(e, u, {"running"}) = 0
  BY DEF Is, Holding, Running
<1> HIDE DEF t
<1>5. /\ permits[t] + 1 \in Nat
      /\ permits[t] + 1 = permits[t] + Is(exec[j], t, Holding) - Is(e, t, Holding)
      /\ \A u \in Targets :
           active'[u] = active[u] + Is(e, u, {"running"})
                                  - Is(exec[j], u, {"running"})
      /\ \A u \in Targets \ {t} : Is(exec[j], u, Holding) = Is(e, u, Holding)
      /\ active' \in [Targets -> Nat]
  BY <1>1, <1>2, <1>3, <1>4
<1> QED
  BY <1>1, <1>3, <1>5, SettleAccounts

-----------------------------------------------------------------------------
LEMMA HeadAccounts ==
  ASSUME IInv, Accounted, NEW j \in Jobs,
         StopAtHead(j) \/ NoHealthyTarget(j) \/ StartAttempt(j)
  PROVE  Accounted'
<1>1. exec[j] \in ExecRec /\ JobOK(j)
  BY DEF IInv, Typed
<1>2. AtHead(j) /\ exec[j].stage \notin Holding
  BY DEF StopAtHead, NoHealthyTarget, StartAttempt, AtHead, Holding
<1>3. CASE StopAtHead(j) \/ NoHealthyTarget(j)
  BY <1>2, <1>3, IdleTyped, QuietAccounts
     DEF StopAtHead, NoHealthyTarget, Done, Holding
<1>4. CASE StartAttempt(j)
  <2> DEFINE e(t, up) == [exec[j] EXCEPT
              !.phase = "first",
              !.attempt = @ + 1,
              !.attempted = Tried(j, up) \cup {t},
              !.target = t,
              !.session = IF Fresh(j) THEN 0 ELSE memory[Scope(j)].session[t],
              !.tools = FALSE]
  <2>1. PICK up \in SUBSET Targets, t \in Targets : Acquire(j, t, e(t, up))
    BY <1>4, SelectedTarget DEF StartAttempt
  <2>2. /\ memory[Scope(j)].session[t] \in Nat /\ Fresh(j) \in BOOLEAN
        /\ Tried(j, up) \subseteq Targets
    BY <1>1 DEF IInv, Typed, JobRec, MemRec, Scope, Fresh, Tried, ExecRec
  <2>3. exec[j].attempt + 1 \in 0..MaxAttempts
    BY <1>1, <1>2, ExecAssumption DEF JobOK, ExecRec
  <2>4. e(t, up) \in ExecRec /\ e(t, up).target = t
    BY <1>1, <2>2, <2>3 DEF ExecRec, Phases
  <2> HIDE DEF e
  <2> QED
    BY <1>2, <2>1, <2>4, AcquireAccounts
<1> QED
  BY <1>3, <1>4

LEMMA WaitAccounts ==
  ASSUME IInv, Accounted, NEW j \in Jobs, Expire(j) \/ Poll(j)
  PROVE  Accounted'
<1>1. exec[j] \in ExecRec /\ JobOK(j)
  BY DEF IInv, Typed
<1>2. exec[j].target \in Targets
  BY <1>1 DEF Expire, Poll, JobOK, Engaged
<1>3. CASE Expire(j)
  <2> DEFINE e == [exec[j] EXCEPT !.stage = "polling"]
             t == exec[j].target
  <2>1. e \in ExecRec /\ e.stage = "polling" /\ e.target = t
    BY <1>1 DEF ExecRec, Stages
  <2>2. UNCHANGED active
    BY <1>3 DEF Expire
  <2>3. CASE exec[j].stage = "granted"
             /\ Settle(t, [exec EXCEPT ![j] = e], permits[t] + 1)
    <3> HIDE DEF e
    <3> QED
      BY <2>1, <2>2, <2>3, ReturnAccounts DEF Holding
  <2>4. CASE exec[j].stage = "waiting"
             /\ Settle(t, [exec EXCEPT ![j] = e], permits[t])
    <3>1. \A u : /\ Is(exec[j], u, Holding) = 0 /\ Is(exec[j], u, {"running"}) = 0
                 /\ Is(e, u, Holding) = 0 /\ Is(e, u, {"running"}) = 0
      BY <2>1, <2>4 DEF Is, Holding
    <3> HIDE DEF e, t
    <3>2. t \in Targets /\ permits[t] \in Nat
      BY <1>2 DEF Accounted, t
    <3>3. permits[t] = permits[t] + Is(exec[j], t, Holding) - Is(e, t, Holding)
      BY <3>1, <3>2
    <3>4. \A u \in Targets :
            active'[u] = active[u] + Is(e, u, {"running"})
                                   - Is(exec[j], u, {"running"})
      BY <2>2, <3>1 DEF Accounted
    <3> QED
      BY <2>1, <2>2, <2>4, <3>1, <3>2, <3>3, <3>4, SettleAccounts DEF Accounted
  <2> QED
    BY <1>3, <2>3, <2>4 DEF Expire
<1>4. CASE Poll(j) /\ j \in cancelled
  BY <1>4, IdleTyped, QuietAccounts DEF Poll, Done, Holding
<1>5. CASE Poll(j) /\ j \notin cancelled
  BY <1>1, <1>2, <1>5, AcquireAccounts DEF Poll, Holding
<1> QED
  BY <1>3, <1>4, <1>5

LEMMA ResumeAccounts ==
  ASSUME IInv, Accounted, NEW j \in Jobs, Resume(j)
  PROVE  Accounted'
<1>1. exec[j] \in ExecRec /\ JobOK(j) /\ exec[j].stage = "granted"
  BY DEF IInv, Typed, Resume
<1>2. CASE j \in cancelled
  BY <1>1, <1>2, IdleTyped, ReturnAccounts DEF Resume, Done, Holding
<1>3. CASE j \notin cancelled
  <2> DEFINE e == [exec[j] EXCEPT !.stage = "running"]
             t == exec[j].target
  <2>1. e \in ExecRec /\ e.stage = "running" /\ e.target = t /\ t \in Targets
    BY <1>1 DEF ExecRec, Stages, JobOK, Engaged
  <2>2. /\ active' = [active EXCEPT ![t] = @ + 1]
        /\ Settle(t, [exec EXCEPT ![j] = e], permits[t])
    BY <1>3 DEF Resume
  <2>3. \A u : /\ Is(exec[j], u, Holding) = IF u = t THEN 1 ELSE 0
               /\ Is(exec[j], u, {"running"}) = 0
               /\ Is(e, u, Holding) = IF u = t THEN 1 ELSE 0
               /\ Is(e, u, {"running"}) = IF u = t THEN 1 ELSE 0
    BY <1>1, <2>1 DEF Is, Holding
  <2> HIDE DEF e, t
  <2>4. /\ permits[t] \in Nat
        /\ permits[t] = permits[t] + Is(exec[j], t, Holding) - Is(e, t, Holding)
        /\ active' \in [Targets -> Nat]
        /\ \A u \in Targets :
            active'[u] = active[u] + Is(e, u, {"running"})
                                   - Is(exec[j], u, {"running"})
    BY <2>1, <2>2, <2>3 DEF Accounted
  <2> QED
    BY <2>1, <2>2, <2>3, <2>4, SettleAccounts
<1> QED
  BY <1>2, <1>3

LEMMA SetupFailsAccounts ==
  ASSUME IInv, Accounted, NEW j \in Jobs, SetupFails(j)
  PROVE  Accounted'
<1>1. CASE exec[j].stage = "granted"
  BY <1>1, IdleTyped, ReturnAccounts DEF SetupFails, Done, Holding, AtHead
<1>2. CASE exec[j].stage # "granted"
  <2>1. /\ exec' = [exec EXCEPT ![j] = Idle] /\ UNCHANGED semVars
        /\ exec[j].stage \notin Holding
    BY <1>2 DEF SetupFails, Done, AtHead, Holding, semVars
  <2> QED
    BY <2>1, IdleTyped, QuietAccounts DEF Holding
<1> QED
  BY <1>1, <1>2

LEMMA InvocationAccounts ==
  ASSUME IInv, Accounted, NEW j \in Jobs,
         \/ ToolStarted(j) \/ Succeed(j) \/ Stop(j) \/ Recover(j)
         \/ Fail(j) \/ FailForGood(j)
  PROVE  Accounted'
<1>1. exec[j] \in ExecRec /\ JobOK(j)
  BY DEF IInv, Typed
<1>2. CASE Succeed(j) \/ Stop(j) \/ FailForGood(j)
  BY <1>2, IdleTyped, EndAttemptAccounts
     DEF Succeed, Stop, FailForGood, Holding
<1>3. CASE Fail(j)
  <2> DEFINE e == [exec[j] EXCEPT !.stage = "backoff"]
  <2>1. e \in ExecRec /\ e.stage = "backoff"
    BY <1>1 DEF ExecRec, Stages
  <2>2. Running(j) /\ (EndAttempt(j, e) \/ EndAttempt(j, Idle))
    BY <1>3 DEF Fail
  <2> HIDE DEF e
  <2> QED
    BY <2>1, <2>2, IdleTyped, EndAttemptAccounts DEF Holding
<1>4. CASE ToolStarted(j)
  <2> DEFINE e == [exec[j] EXCEPT !.tools = TRUE]
  <2>1. /\ e \in ExecRec /\ e.stage = exec[j].stage /\ e.target = exec[j].target
        /\ exec' = [exec EXCEPT ![j] = e] /\ UNCHANGED semVars
    BY <1>1, <1>4 DEF ExecRec, ToolStarted
  <2> HIDE DEF e
  <2> QED
    BY <2>1, QuietAccounts
<1>5. CASE Recover(j)
  <2> DEFINE e == [exec[j] EXCEPT !.phase = NextPhase(@), !.session = 0,
                                  !.tools = FALSE]
  <2>1. /\ e \in ExecRec /\ e.stage = exec[j].stage /\ e.target = exec[j].target
        /\ exec' = [exec EXCEPT ![j] = e] /\ UNCHANGED semVars
    BY <1>1, <1>5 DEF ExecRec, Recover, NextPhase, Phases
  <2> HIDE DEF e
  <2> QED
    BY <2>1, QuietAccounts
<1> QED
  BY <1>2, <1>3, <1>4, <1>5

LEMMA FreshBooks ==
  ASSUME \A j \in Jobs : exec[j].stage \notin Holding,
         permits = Capacity, active = [t \in Targets |-> 0]
  PROVE  Accounted
<1>1. \A t : At(t, {"granted", "running"}) = {} /\ At(t, {"running"}) = {}
  BY DEF At, Holding
<1>2. /\ permits \in [Targets -> Nat] /\ active \in [Targets -> Nat]
      /\ \A t \in Targets : permits[t] + 0 = Capacity[t] /\ active[t] = 0
  BY ExecAssumption
<1>3. Cardinality({}) = 0
  BY FS_EmptySet
<1> QED
  BY <1>1, <1>2, <1>3 DEF Accounted, PermitsAccounted

(* The typed form of PermitsBalance, the base of the type theorem.         *)
THEOREM BooksBalance == Spec => []Accounted
<1>1. Init => Accounted
  BY FreshBooks DEF Init, Idle, Holding
<1>2. IInv /\ Accounted /\ [Next]_vars => Accounted'
  <2> SUFFICES ASSUME IInv, Accounted, [Next]_vars PROVE Accounted'
    OBVIOUS
  <2>1. ASSUME NEW j \in Jobs, Execute(j) PROVE Accounted'
    BY <2>1, HeadAccounts, WaitAccounts, ResumeAccounts, SetupFailsAccounts,
       InvocationAccounts DEF Execute
  <2>2. ASSUME NEW j \in Jobs, Begin(j) PROVE Accounted'
    <3> DEFINE e == [Idle EXCEPT !.stage = "ready"]
    <3>1. e \in ExecRec /\ e.stage = "ready"
      BY IdleTyped DEF ExecRec, Stages
    <3>2. /\ exec' = [exec EXCEPT ![j] = e] /\ UNCHANGED semVars
          /\ exec[j].stage \notin Holding
      BY <2>2 DEF Begin, IInv, JobOK, Holding
    <3> HIDE DEF e
    <3> QED
      BY <3>1, <3>2, QuietAccounts DEF Holding
  <2>3. ASSUME UNCHANGED <<exec, permits, active>> PROVE Accounted'
    BY <2>3 DEF Accounted, PermitsAccounted, At
  <2>4. ASSUME Restart PROVE Accounted'
    <3>1. /\ \A j \in Jobs : exec'[j].stage \notin Holding
          /\ permits' = Capacity /\ active' = [t \in Targets |-> 0]
      BY <2>4 DEF Restart, Idle, Holding
    <3>2. \A t : At(t, {"granted", "running"})' = {} /\ At(t, {"running"})' = {}
      BY <3>1 DEF At, Holding
    <3>3. /\ permits' \in [Targets -> Nat] /\ active' \in [Targets -> Nat]
          /\ \A t \in Targets : permits'[t] + 0 = Capacity[t] /\ active'[t] = 0
      BY <3>1, ExecAssumption
    <3>4. Cardinality({}) = 0
      BY FS_EmptySet
    <3> QED
      BY <3>2, <3>3, <3>4 DEF Accounted, PermitsAccounted
  <2> QED
    BY <2>1, <2>2, <2>3, <2>4
       DEF Next, vars, semVars, Cancel, CircuitExpires, Crash, CrashInSuccess
<1> QED
  BY <1>1, <1>2, InductiveInvariant, PTL DEF Spec

(* Permits and holders always add up to max_concurrency, and the active    *)
(* counts are exact, whichever way attempts end (_acquire_target, the      *)
(* finally of execute).                                                    *)
THEOREM PermitsBalance == Spec => []PermitsAccounted
<1>1. Accounted => PermitsAccounted
  BY DEF Accounted
<1> QED
  BY <1>1, BooksBalance, PTL

-----------------------------------------------------------------------------
HealthRec == [failures : 0..3, open : BOOLEAN]

(* Health and the bounded counters. *)
CountersOK ==
  /\ health \in [Targets -> HealthRec]
  /\ runs \in 0..MaxRuns /\ crashes \in 0..MaxCrashes

LEMMA HealthKeeps ==
  ASSUME CountersOK, NEW t \in Targets,
         \/ health' = [health EXCEPT ![t] = Healthy]
         \/ health' = [health EXCEPT ![t] = Failed(@)]
         \/ health' = [health EXCEPT ![t].open = FALSE]
         \/ UNCHANGED health
  PROVE  health' \in [Targets -> HealthRec]
<1>1. health \in [Targets -> HealthRec] /\ health[t] \in HealthRec
  BY DEF CountersOK
<1>2. Healthy \in HealthRec
  BY DEF Healthy, HealthRec
<1>3. [health[t] EXCEPT !.open = FALSE] \in HealthRec
  BY <1>1 DEF HealthRec
<1>4. Failed(health[t]) \in HealthRec
  <2>1. health[t].failures \in 0..3
    BY <1>1 DEF HealthRec
  <2>2. (health[t].failures >= 2) \in BOOLEAN
    OBVIOUS
  <2> QED
    BY <2>1, <2>2 DEF Failed, HealthRec
<1> QED
  BY <1>1, <1>2, <1>3, <1>4

LEMMA CountersHold == Spec => []CountersOK
<1>1. Init => CountersOK
  BY ExecAssumption DEF Init, CountersOK, HealthRec, Healthy
<1>2. IInv /\ CountersOK /\ [Next]_vars => CountersOK'
  <2> SUFFICES ASSUME IInv, CountersOK, [Next]_vars PROVE CountersOK'
    OBVIOUS
  <2>1. /\ runs' \in 0..MaxRuns /\ crashes' \in 0..MaxCrashes
    <3>1. /\ runs' = runs \/ (runs' = runs + 1 /\ runs < MaxRuns)
          /\ crashes' = crashes \/ (crashes' = crashes + 1 /\ crashes < MaxCrashes)
      BY DEF Next, vars, Execute, Begin, Cancel, StopAtHead, NoHealthyTarget,
             StartAttempt, Expire, Poll, Resume, SetupFails, ToolStarted,
             Succeed, Stop, Recover, Fail, FailForGood, CircuitExpires, Crash,
             CrashInSuccess, Restart
    <3> QED
      BY <3>1, ExecAssumption DEF CountersOK
  <2>2. \A j \in Jobs : Running(j) => exec[j].target \in Targets
    BY DEF IInv, JobOK, Running, Engaged
  <2>3. \/ UNCHANGED health
        \/ \E t \in Targets :
             \/ health' = [health EXCEPT ![t] = Healthy]
             \/ health' = [health EXCEPT ![t] = Failed(@)]
             \/ health' = [health EXCEPT ![t].open = FALSE]
    BY <2>2 DEF Next, vars, Execute, Begin, Cancel, StopAtHead,
           NoHealthyTarget, StartAttempt, Expire, Poll, Resume, SetupFails,
           ToolStarted, Succeed, Stop, Recover, Fail, FailForGood,
           CircuitExpires, Crash, CrashInSuccess
  <2>4. health' \in [Targets -> HealthRec]
    BY <2>3, HealthKeeps DEF CountersOK
  <2> QED
    BY <2>1, <2>4 DEF CountersOK
<1> QED
  BY <1>1, <1>2, InductiveInvariant, PTL DEF Spec

(* The executor's state is always well formed; in particular no attempt    *)
(* is made beyond max_attempts.                                            *)
THEOREM ExecTypeCorrect == Spec => []ExecTypeOK
<1>1. IInv /\ Accounted /\ CountersOK => ExecTypeOK
  BY DEF IInv, Typed, Accounted, CountersOK, ExecTypeOK, ExecRec, MemRec,
         HealthRec
<1> QED
  BY <1>1, InductiveInvariant, BooksBalance, CountersHold, PTL
-----------------------------------------------------------------------------
Won(s) == {j \in Jobs : Scope(j) = s /\ outcome[j] = "succeeded"}

LEMMA WonFinite == \A s : IsFiniteSet(Won(s)) /\ Cardinality(Won(s)) \in Nat
<1>1. \A s : Won(s) \in SUBSET Jobs
  BY DEF Won
<1> QED
  BY <1>1, ExecAssumption, FS_Subset, FS_CardinalityType

(* A step without a new turn: no execution succeeds, and no success is     *)
(* taken back.                                                             *)
LEMMA NoNewTurn ==
  ASSUME MemoryMatchesOutcome, crashes \in Nat, crashes' \in Nat, crashes' >= crashes,
         UNCHANGED <<job, memory>>, memory \in [Scopes -> MemRec],
         \A j \in Jobs : outcome'[j] = "succeeded" <=> outcome[j] = "succeeded"
  PROVE  MemoryMatchesOutcome'
<1> SUFFICES ASSUME NEW s \in Scopes
             PROVE  memory'[s].turns \in Cardinality(Won(s)') .. Cardinality(Won(s)') + crashes'
  BY DEF MemoryMatchesOutcome, Won
<1>1. Won(s)' = Won(s)
  BY DEF Won, Scope
<1>2. memory[s].turns \in Cardinality(Won(s)) .. Cardinality(Won(s)) + crashes
  BY DEF MemoryMatchesOutcome, Won
<1>3. Cardinality(Won(s)) \in Nat /\ memory'[s].turns = memory[s].turns
  BY WonFinite
<1> QED
  BY <1>1, <1>2, <1>3

LEMMA OneMoreTurn ==
  ASSUME IInv, NEW j \in Jobs, Running(j), NEW stored \in BOOLEAN,
         memory' = Remembered(j, stored)
  PROVE  \A s \in Scopes : memory'[s].turns =
           IF s = Scope(j) THEN memory[s].turns + 1 ELSE memory[s].turns
<1>1. memory \in [Scopes -> MemRec] /\ Scope(j) \in Scopes
  BY DEF IInv, Typed, JobRec, Scope
<1> QED
  BY <1>1 DEF Remembered

LEMMA SucceedRemembers ==
  ASSUME IInv, MemoryMatchesOutcome, crashes \in Nat, NEW j \in Jobs, Succeed(j)
  PROVE  MemoryMatchesOutcome'
<1> SUFFICES ASSUME NEW s \in Scopes
             PROVE  memory'[s].turns \in Cardinality(Won(s)') .. Cardinality(Won(s)') + crashes'
  BY DEF MemoryMatchesOutcome, Won
<1>1. /\ memory'[s].turns =
           IF s = Scope(j) THEN memory[s].turns + 1 ELSE memory[s].turns
      /\ UNCHANGED <<job, crashes>>
  BY OneMoreTurn DEF Succeed
<1>2. outcome[j] = "running" /\ outcome' = [outcome EXCEPT ![j] = "succeeded"]
      /\ outcome \in [Jobs -> Outcomes \cup {"none", "running"}]
  BY DEF IInv, Typed, JobOK, Succeed, Running, Ends
<1>3. memory[s].turns \in Cardinality(Won(s)) .. Cardinality(Won(s)) + crashes
  BY DEF MemoryMatchesOutcome, Won
<1>4. Cardinality(Won(s)) \in Nat /\ IsFiniteSet(Won(s)) /\ memory[s].turns \in Nat
  BY WonFinite DEF IInv, Typed, MemRec
<1>5. CASE s = Scope(j)
  <2>1. Won(s)' = Won(s) \cup {j} /\ j \notin Won(s)
    BY <1>1, <1>2, <1>5 DEF Won, Scope
  <2>2. Cardinality(Won(s)') = Cardinality(Won(s)) + 1
    BY <1>4, <2>1, FS_AddElement
  <2> QED
    BY <1>1, <1>3, <1>4, <1>5, <2>2
<1>6. CASE s # Scope(j)
  <2>1. Won(s)' = Won(s)
    BY <1>1, <1>2, <1>6 DEF Won, Scope
  <2> QED
    BY <1>1, <1>3, <1>4, <1>6, <2>1
<1> QED
  BY <1>5, <1>6

LEMMA CrashInSuccessRemembers ==
  ASSUME IInv, MemoryMatchesOutcome, crashes \in Nat, NEW j \in Jobs, CrashInSuccess(j)
  PROVE  MemoryMatchesOutcome'
<1> SUFFICES ASSUME NEW s \in Scopes
             PROVE  memory'[s].turns \in Cardinality(Won(s)') .. Cardinality(Won(s)') + crashes'
  BY DEF MemoryMatchesOutcome, Won
<1>1. /\ memory'[s].turns =
           IF s = Scope(j) THEN memory[s].turns + 1 ELSE memory[s].turns
      /\ UNCHANGED job /\ crashes' = crashes + 1
  BY OneMoreTurn DEF CrashInSuccess, Restart
<1>2. \A i \in Jobs : outcome'[i] = "succeeded" <=> outcome[i] = "succeeded"
  BY DEF CrashInSuccess, Restart
<1>3. memory[s].turns \in Cardinality(Won(s)) .. Cardinality(Won(s)) + crashes
  BY DEF MemoryMatchesOutcome, Won
<1>4. Won(s)' = Won(s) /\ Cardinality(Won(s)) \in Nat
  BY <1>1, <1>2, WonFinite DEF Won, Scope
<1>5. memory[s].turns \in Nat
  BY DEF IInv, Typed, MemRec
<1> QED
  BY <1>1, <1>3, <1>4, <1>5

LEMMA NextRemembers ==
  ASSUME IInv, CountersOK, MemoryMatchesOutcome, [Next]_vars
  PROVE  MemoryMatchesOutcome'
<1>1. crashes \in Nat /\ memory \in [Scopes -> MemRec]
  BY ExecAssumption DEF CountersOK, IInv, Typed
<1>2. ASSUME NEW j \in Jobs, Succeed(j) \/ CrashInSuccess(j)
      PROVE  MemoryMatchesOutcome'
  BY <1>1, <1>2, SucceedRemembers, CrashInSuccessRemembers
<1>3. ASSUME NEW j \in Jobs, Begin(j) \/ Cancel(j) \/ (Execute(j) /\ ~Succeed(j))
      PROVE  MemoryMatchesOutcome'
  <2>1. UNCHANGED <<job, memory, crashes>>
    BY <1>3 DEF Begin, Cancel, Execute, StopAtHead, NoHealthyTarget, StartAttempt,
       Expire, Poll, Resume, SetupFails, ToolStarted, Stop, Recover, Fail, FailForGood
  <2>2. Execute(j) => outcome[j] = "running"
    <3>1. Execute(j) => exec[j].stage # "idle"
      BY DEF Execute, StopAtHead, NoHealthyTarget, StartAttempt, AtHead,
         Expire, Poll, Resume, SetupFails, ToolStarted, Succeed, Stop, Recover, Fail,
         FailForGood, Running
    <3> QED
      BY <3>1 DEF IInv, JobOK
  <2>3. outcome' = outcome \/
        \E o \in {"running", "cancelled", "failed"} : outcome' = [outcome EXCEPT ![j] = o]
    BY <1>3 DEF Begin, Cancel, Execute, StopAtHead, NoHealthyTarget, StartAttempt, Ends,
       Expire, Poll, Resume, SetupFails, ToolStarted, Stop, Recover, Fail, FailForGood
  <2>4. outcome' = outcome \/ outcome[j] # "succeeded"
    BY <1>3, <2>2 DEF Begin, Cancel
  <2>5. outcome \in [Jobs -> Outcomes \cup {"none", "running"}]
    BY DEF IInv, Typed
  <2>6. \A i \in Jobs : outcome'[i] = "succeeded" <=> outcome[i] = "succeeded"
    BY <2>3, <2>4, <2>5
  <2> QED
    BY <1>1, <2>1, <2>6, NoNewTurn
<1>4. CASE Crash
  <2>1. /\ UNCHANGED <<job, memory>> /\ crashes' = crashes + 1
        /\ \A j \in Jobs : outcome'[j] = "succeeded" <=> outcome[j] = "succeeded"
    BY <1>4 DEF Crash, Restart
  <2> QED
    BY <1>1, <2>1, NoNewTurn
<1>5. CASE UNCHANGED <<job, memory, outcome, crashes>>
  BY <1>1, <1>5, NoNewTurn
<1> QED
  BY <1>2, <1>3, <1>4, <1>5 DEF Next, vars, CircuitExpires

(* A scope remembers one turn for each of its succeeded jobs, and at most  *)
(* one more for each crash: no success loses its turn, no failed or        *)
(* cancelled attempt leaves one (append_turn, finish_fresh_job_success).   *)
THEOREM TurnsMatchSuccesses == Spec => []MemoryMatchesOutcome
<1>1. Init => MemoryMatchesOutcome
  <2> SUFFICES ASSUME Init, NEW s \in Scopes
               PROVE  memory[s].turns \in Cardinality(Won(s)) .. Cardinality(Won(s)) + crashes
    BY DEF MemoryMatchesOutcome, Won
  <2>1. Won(s) = {} /\ Cardinality({}) = 0
    BY FS_EmptySet DEF Init, Won
  <2> QED
    BY <2>1 DEF Init
<1> QED
  BY <1>1, NextRemembers, CountersHold, InductiveInvariant, PTL DEF Spec

-----------------------------------------------------------------------------
(* What JobRuntime may take an execution for: JobRunner.run records one    *)
(* state when the executor is back (FinalState there, for a daemon that is *)
(* not closing), and nothing of the execution is left.                     *)

FinalStates(j) == {"failed", IF j \in cancelled THEN "cancelled" ELSE "succeeded"}

Starts(j) ==
  /\ outcome[j] \in {"none", "failed", "cancelled", "interrupted"}
  /\ \A i \in Jobs : outcome[i] = "running" => Scope(i) # Scope(j)
  /\ outcome' = [outcome EXCEPT ![j] = "running"] /\ j \notin cancelled'

Finishes(j) ==
  /\ outcome[j] = "running"
  /\ \E s \in FinalStates(j) : outcome' = [outcome EXCEPT ![j] = s]
  /\ exec'[j] = Idle

Interrupts ==
  outcome' = [j \in Jobs |-> IF outcome[j] = "running" THEN "interrupted" ELSE outcome[j]]

ExecutionsAreRuns ==
  [][outcome' # outcome => Interrupts \/ \E j \in Jobs : Starts(j) \/ Finishes(j)]_vars

LEMMA ExecuteFinishes ==
  ASSUME IInv, NEW j \in Jobs, Execute(j), outcome' # outcome
  PROVE  Finishes(j)
<1>1. exec[j] \in ExecRec /\ JobOK(j) /\ exec \in [Jobs -> ExecRec]
  BY DEF IInv, Typed
<1>2. GoesTo(j, Idle) => exec'[j] = Idle
  BY DEF GoesTo
<1>3. CASE StopAtHead(j) \/ NoHealthyTarget(j)
  <2>1. exec'[j] = Idle
    BY <1>1, <1>2, <1>3, IdleTyped, SetGoes DEF StopAtHead, NoHealthyTarget, Done
  <2> QED
    BY <1>1, <1>3, <2>1 DEF StopAtHead, NoHealthyTarget, Ends, Finishes, FinalStates, JobOK, AtHead
<1>4. CASE Poll(j)
  <2>1. j \in cancelled /\ exec' = [exec EXCEPT ![j] = Idle] /\ Ends(j, "cancelled")
    BY <1>4 DEF Poll, Done
  <2>2. exec'[j] = Idle
    BY <1>1, <1>2, <2>1, IdleTyped, SetGoes
  <2> QED
    BY <1>1, <1>4, <2>1, <2>2 DEF Poll, Ends, Finishes, FinalStates, JobOK
<1>5. CASE Resume(j)
  <2>1. j \in cancelled /\ Ends(j, "cancelled") /\ \E t, free : Settle(t, [exec EXCEPT ![j] = Idle], free)
    BY <1>5 DEF Resume, Done
  <2>2. exec'[j] = Idle
    BY <1>1, <1>2, <2>1, IdleTyped, SettleGoes
  <2> QED
    BY <1>1, <1>5, <2>1, <2>2 DEF Resume, Ends, Finishes, FinalStates, JobOK
<1>6. CASE SetupFails(j)
  <2>1. \/ \E t, free : Settle(t, [exec EXCEPT ![j] = Idle], free)
        \/ exec' = [exec EXCEPT ![j] = Idle]
    BY <1>6 DEF SetupFails, Done
  <2>2. exec'[j] = Idle
    BY <1>1, <1>2, <2>1, IdleTyped, SettleGoes, SetGoes
  <2>3. exec[j].stage # "idle"
    BY <1>6 DEF SetupFails, AtHead
  <2> QED
    BY <1>1, <1>6, <2>2, <2>3 DEF SetupFails, Ends, Finishes, FinalStates, JobOK
<1>7. CASE Succeed(j) \/ Stop(j) \/ FailForGood(j)
  <2>1. exec'[j] = Idle
    BY <1>1, <1>2, <1>7, IdleTyped, EndAttemptGoes DEF Succeed, Stop, FailForGood
  <2>2. outcome[j] = "running"
    BY <1>1, <1>7 DEF Succeed, Stop, FailForGood, Running, JobOK
  <2> QED
    BY <1>7, <2>1, <2>2 DEF Succeed, Stop, FailForGood, Ends, Finishes, FinalStates
<1>8. CASE Fail(j)
  <2>1. EndAttempt(j, Idle) /\ Ends(j, "failed") /\ Running(j)
    BY <1>8 DEF Fail
  <2>2. exec'[j] = Idle
    BY <1>1, <1>2, <2>1, IdleTyped, EndAttemptGoes
  <2> QED
    BY <1>1, <2>1, <2>2 DEF Running, Ends, Finishes, FinalStates, JobOK
<1> QED
  BY <1>3, <1>4, <1>5, <1>6, <1>7, <1>8 DEF Execute, StartAttempt, Expire, ToolStarted, Recover

(* The link to JobRuntime: seen from the records an execution is a start,  *)
(* beside no job of its scope and with its cancel event clear, and one     *)
(* end, with a state that FinalState allows, after which no await, permit  *)
(* or session of it is left; or a restart interrupts all of them.          *)
THEOREM ExecutionsLookLikeRuns == Spec => ExecutionsAreRuns
<1>1. IInv /\ [Next]_vars =>
        [outcome' # outcome => Interrupts \/ \E j \in Jobs : Starts(j) \/ Finishes(j)]_vars
  <2> SUFFICES ASSUME IInv, Next, outcome' # outcome
               PROVE  Interrupts \/ \E j \in Jobs : Starts(j) \/ Finishes(j)
    BY DEF vars
  <2>1. ASSUME NEW j \in Jobs, Begin(j) PROVE Starts(j)
    BY <2>1 DEF Begin, Starts
  <2>2. ASSUME NEW j \in Jobs, Execute(j) PROVE Finishes(j)
    BY <2>2, ExecuteFinishes
  <2>3. Restart => Interrupts
    BY DEF Restart, Interrupts
  <2> QED
    BY <2>1, <2>2, <2>3 DEF Next, Cancel, CircuitExpires, Crash, CrashInSuccess
<1> QED
  BY <1>1, InductiveInvariant, PTL DEF Spec, ExecutionsAreRuns
=============================================================================
