------------------------------ MODULE Admission ------------------------------
(***************************************************************************)
(* Who may run beside whom: the admission rules of the scheduler           *)
(* (_schedule in src/openmcp/scheduler.py).  Pure operators over the kinds *)
(* of the jobs; ProjectScheduler applies them, ScheduleLoop compares them  *)
(* with the loop of the code.                                              *)
(***************************************************************************)
EXTENDS Integers, FiniteSets

CONSTANTS
  Jobs,               (* job ids, numbered in the order of their creation  *)
  Workers,            (* the worker coroutines; max_jobs is their number   *)
  Projects,           (* project ids                                       *)
  Scopes,             (* (workflow, context_key) pairs                     *)
  MaxProjectReaders   (* readers admitted together in one project          *)

ASSUME SchedAssumption ==
  /\ Jobs \subseteq Nat \ {0}
  /\ IsFiniteSet(Jobs)
  /\ IsFiniteSet(Workers)
  /\ Workers # {}                     (* max_jobs >= 1 *)
  /\ MaxProjectReaders \in Nat \ {0}

Modes == {"parallel_read", "exclusive"}
Kinds == [project : Projects, mode : Modes, scope : Scopes]

VARIABLE kind   (* kind[j]: project, access mode and session scope of job j; *)
                (* immutable once the job exists                             *)

MaxJobs == Cardinality(Workers)

Reader(j) == kind[j].mode = "parallel_read"
SameProject(i, j) == kind[i].project = kind[j].project
SameScope(i, j) == SameProject(i, j) /\ kind[i].scope = kind[j].scope

(* Two jobs may run together: other projects always, in one project only   *)
(* readers of different session scopes.                                    *)
Compatible(i, j) ==
  SameProject(i, j) => Reader(i) /\ Reader(j) /\ ~SameScope(i, j)

ReadersWith(j, B) == {i \in B : Reader(i) /\ SameProject(i, j)}

(* Broken variants of Fits: an exclusive job that waits for exclusive jobs *)
(* only, and a reader limit that is off by one.                            *)
FitsBesideReaders(j, B) ==
  /\ Cardinality(B) < MaxJobs
  /\ \A i \in B : SameProject(i, j) => Reader(i) /\ ~SameScope(i, j)
  /\ Reader(j) => Cardinality(ReadersWith(j, B)) < MaxProjectReaders

FitsOneReaderMore(j, B) ==
  /\ Cardinality(B) < MaxJobs
  /\ \A i \in B : Compatible(i, j)
  /\ Reader(j) => Cardinality(ReadersWith(j, B)) <= MaxProjectReaders

(* Job j fits beside the reserved jobs B.                                  *)
Fits(j, B) ==
  /\ Cardinality(B) < MaxJobs
  /\ \A i \in B : Compatible(i, j)
  /\ Reader(j) => Cardinality(ReadersWith(j, B)) < MaxProjectReaders

(* Broken variant: a barrier for its own session scope only.               *)
BehindBarrierOfScope(j, front, isReady) ==
  \E i \in front \cap isReady : ~Reader(i) /\ SameScope(i, j)

(* A ready exclusive job of j's project in front of it: the writer barrier *)
(* that holds later readers back.                                          *)
BehindBarrier(j, front, isReady) ==
  \E i \in front \cap isReady : ~Reader(i) /\ SameProject(i, j)

(* The jobs that _schedule reserves, given the pending jobs P in the order *)
(* q and the reserved jobs B.  The loop rescans _pending after each        *)
(* reservation; a reservation never makes an earlier job eligible (it      *)
(* takes a slot, and a barrier it removes from _pending it puts in         *)
(* _active), so the loop is one pass in FIFO order: a job is reserved when *)
(* it fits beside B and the jobs reserved in front of it.                  *)
Admitted(A, P, q, B, isReady) ==
  \A j \in P :
    j \in A <=> /\ j \in isReady
                /\ Reader(j) => ~BehindBarrier(j, q[j], isReady)
                /\ Fits(j, B \cup (A \cap q[j]))

=============================================================================
