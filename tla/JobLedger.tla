------------------------------ MODULE JobLedger ------------------------------
(***************************************************************************)
(* What the daemon promises its clients about job records: the contract of *)
(* job_submit, job_cancel, job_retry and of a restart, without scheduler,  *)
(* workers, waiters or queues.  JobRuntime implements it.                  *)
(*                                                                         *)
(* A step may take the daemon down with it (up' = FALSE): a crash between  *)
(* two commits of the step.  Only a daemon that stays up owes a settled    *)
(* ledger; the next Recover settles the rest.                              *)
(***************************************************************************)
EXTENDS Integers, FiniteSets

CONSTANTS
  Jobs,         (* job ids, numbered in the order of their creation *)
  MaxRunning,   (* jobs that run together, in all projects          *)
  MaxReaders    (* readers that run together in one project         *)

VARIABLES
  kind,    (* project, access mode and session scope of a job *)
  deps,    (* the jobs a job depends on                       *)
  state,   (* the state of its record                         *)
  up       (* the daemon is running                           *)

vars == <<kind, deps, state, up>>

Unsuccessful == {"failed", "cancelled", "interrupted"}
Terminal     == Unsuccessful \cup {"succeeded"}

Running == {j \in Jobs : state[j] = "running"}
Reader(j) == kind[j].mode = "parallel_read"
SameProject(i, j) == kind[i].project = kind[j].project

(* Two jobs may run at the same time. *)
Compatible(i, j) ==
  SameProject(i, j) =>
    Reader(i) /\ Reader(j) /\ kind[i].scope # kind[j].scope

(* Job j may run beside the jobs R. *)
MayJoin(j, R) ==
  /\ Cardinality(R) < MaxRunning
  /\ \A i \in R : Compatible(i, j)
  /\ Reader(j) =>
       Cardinality({i \in R : Reader(i) /\ SameProject(i, j)}) < MaxReaders

HasFailedDependency(j, st) == \E i \in deps[j] : st[i] \in Unsuccessful

(* No queued job waits for a dependency that cannot succeed any more. *)
Settled(st) ==
  \A j \in Jobs : st[j] = "queued" => ~HasFailedDependency(j, st)

(* The records become st, apart from queued jobs that are cancelled        *)
(* because a dependency ended without success; a daemon that stays up      *)
(* leaves none of those behind.                                            *)
Settle(st) ==
  /\ \E C \in SUBSET {j \in Jobs : st[j] = "queued"} :
       /\ state' = [j \in Jobs |-> IF j \in C THEN "cancelled" ELSE st[j]]
       /\ \A j \in C : HasFailedDependency(j, state')
  /\ up' => Settled(state')

-----------------------------------------------------------------------------
Init ==
  /\ \A j \in Jobs : \A i \in deps[j] : i < j
  /\ state = [j \in Jobs |-> "none"]
  /\ ~up

Create(j) ==
  /\ up /\ state[j] = "none"
  /\ \A i \in Jobs : i < j => state[i] # "none"
  /\ Settle([state EXCEPT ![j] = "queued"])

Begin(j) ==
  /\ up /\ up' /\ state[j] = "queued"
  /\ \A i \in deps[j] : state[i] = "succeeded"
  /\ MayJoin(j, Running)
  /\ state' = [state EXCEPT ![j] = "running"]

End(j, s) ==
  /\ up /\ state[j] = "running"
  /\ Settle([state EXCEPT ![j] = s])

Withdraw(j) ==
  /\ up /\ state[j] = "queued"
  /\ Settle([state EXCEPT ![j] = "cancelled"])

Reset(j) ==
  /\ up /\ up' /\ state[j] \in Unsuccessful
  /\ ~HasFailedDependency(j, state)
  /\ state' = [state EXCEPT ![j] = "queued"]

Stop == up /\ ~up' /\ UNCHANGED state

Recover ==
  /\ ~up
  /\ Settle([j \in Jobs |-> IF state[j] = "running" THEN "interrupted"
                                                    ELSE state[j]])

Next ==
  /\ \/ \E j \in Jobs : \/ Create(j) \/ Begin(j) \/ Withdraw(j) \/ Reset(j)
                        \/ \E s \in Terminal : End(j, s)
     \/ Stop
     \/ Recover
  /\ UNCHANGED <<kind, deps>>

Spec == Init /\ [][Next]_vars

=============================================================================
