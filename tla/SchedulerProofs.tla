--------------------------- MODULE SchedulerProofs ---------------------------
(***************************************************************************)
(* The scheduler keeps its promises under arbitrary callers, for any       *)
(* number of jobs, workers, projects and scopes: the rules of admission    *)
(* (Admission), the scheduler (ProjectScheduler), and its loop as the code *)
(* runs it (ScheduleLoop).                                                 *)
(***************************************************************************)
EXTENDS ProjectScheduler, ScheduleLoop, FiniteSetTheorems, SequenceTheorems,
        WellFoundedInduction, TLAPS

(***************************************************************************)
(* Admission: one pass keeps the reservations safe, whatever the queue     *)
(* holds.                                                                  *)
(***************************************************************************)

(* q gives each job of P the jobs of P in front of it, in a total order.   *)
InOrder(P, q) ==
  /\ \A j \in P : q[j] \subseteq P /\ j \notin q[j]
  /\ \A i, j \in P : i # j => i \in q[j] \/ j \in q[i]
  /\ \A i, j \in P : i \in q[j] => q[i] \subseteq q[j]

(* Jobs that may be reserved together: the rules and both limits.          *)
Admissible(B) ==
  /\ \A i, j \in B : i # j => Compatible(i, j)
  /\ Cardinality(B) <= MaxJobs
  /\ \A j \in B : Reader(j) => Cardinality(ReadersWith(j, B)) <= MaxProjectReaders

LEMMA CompatibleSym ==
  ASSUME NEW i, NEW j, Compatible(i, j)
  PROVE  Compatible(j, i)
BY DEF Compatible, SameScope, SameProject

LEMMA FiniteJobs ==
  ASSUME NEW B \in SUBSET Jobs
  PROVE  IsFiniteSet(B) /\ Cardinality(B) \in Nat
BY SchedAssumption, FS_Subset, FS_CardinalityType

(* A set that grows by at most one element.                                *)
LEMMA OneMore ==
  ASSUME NEW S \in SUBSET Jobs, NEW T \in SUBSET Jobs, NEW j \in Jobs,
         T \subseteq S \cup {j}
  PROVE  Cardinality(T) <= Cardinality(S) + 1
<1>1. IsFiniteSet(S) /\ Cardinality(S) \in Nat
  BY FiniteJobs
<1>2. IsFiniteSet(S \cup {j}) /\ Cardinality(S \cup {j}) <= Cardinality(S) + 1
  <2>1. /\ IsFiniteSet(S \cup {j})
        /\ Cardinality(S \cup {j}) = IF j \in S THEN Cardinality(S) ELSE Cardinality(S) + 1
    BY <1>1, FS_AddElement
  <2> QED
    BY <1>1, <2>1
<1>3. Cardinality(T) <= Cardinality(S \cup {j})
  BY <1>2, FS_Subset
<1>4. Cardinality(T) \in Nat /\ Cardinality(S \cup {j}) \in Nat
  BY FiniteJobs
<1> QED
  BY <1>1, <1>2, <1>3, <1>4

(* Among some jobs of a queue there is a last one.                         *)
LEMMA LastInQueue ==
  ASSUME NEW P \in SUBSET Jobs, NEW q \in [Jobs -> SUBSET Jobs],
         InOrder(P, q), NEW T \in SUBSET P, T # {}
  PROVE  \E j \in T : T \ {j} \subseteq q[j]
<1> DEFINE behind == {Jobs \ q[j] : j \in T}
<1>1. IsWellFoundedOn(StrictSubsetOrdering(Jobs), SUBSET Jobs)
  BY SchedAssumption, FS_StrictSubsetOrderingWellFounded, FS_FiniteSubsetsOfFinite
<1>2. behind \subseteq SUBSET Jobs /\ behind # {}
  OBVIOUS
<1>3. PICK x \in behind :
        \A y \in behind : <<y, x>> \notin StrictSubsetOrdering(Jobs)
  BY <1>1, <1>2, WFMin
<1>4. PICK j \in T : x = Jobs \ q[j]
  BY <1>3
<1>5. ASSUME NEW i \in T, i # j PROVE i \in q[j]
  <2>1. SUFFICES ASSUME i \notin q[j] PROVE FALSE
    OBVIOUS
  <2>2. j \in q[i] /\ q[j] \subseteq q[i] /\ j \notin q[j]
    BY <1>5, <2>1 DEF InOrder
  <2>3. /\ Jobs \ q[i] \subseteq Jobs \ q[j]
        /\ Jobs \ q[i] # Jobs \ q[j]
    <3>1. j \in Jobs \ q[j] /\ j \notin Jobs \ q[i]
      BY <2>2
    <3> QED
      BY <2>2, <3>1
  <2>4. <<Jobs \ q[i], Jobs \ q[j]>> \in StrictSubsetOrdering(Jobs)
    BY <2>3 DEF StrictSubsetOrdering
  <2>5. Jobs \ q[i] \in behind
    OBVIOUS
  <2> QED
    BY <1>3, <1>4, <2>4, <2>5
<1> QED
  BY <1>5

(* One pass of _schedule: the reservations it adds keep the set safe.      *)
THEOREM AdmissionKeepsSafe ==
  ASSUME NEW P \in SUBSET Jobs, NEW q \in [Jobs -> SUBSET Jobs], InOrder(P, q),
         NEW B \in SUBSET Jobs, P \cap B = {}, Admissible(B),
         NEW A \in SUBSET P, NEW isReady, Admitted(A, P, q, B, isReady)
  PROVE  Admissible(B \cup A)
<1>1. ASSUME NEW j \in A PROVE Fits(j, B \cup (A \cap q[j]))
  BY DEF Admitted
<1>2. MaxJobs \in Nat /\ MaxProjectReaders \in Nat
  BY SchedAssumption, FS_CardinalityType DEF MaxJobs
<1>3. ASSUME NEW i \in B \cup A, NEW j \in B \cup A, i # j
      PROVE  Compatible(i, j)
  <2>1. CASE i \in B /\ j \in B
    BY <1>3, <2>1 DEF Admissible
  <2>2. CASE i \in B /\ j \in A
    BY <1>1, <2>2 DEF Fits
  <2>3. CASE i \in A /\ j \in B
    BY <1>1, <2>3, CompatibleSym DEF Fits
  <2>4. CASE i \in A /\ j \in A
    <3>1. i \in q[j] \/ j \in q[i]
      BY <1>3, <2>4 DEF InOrder
    <3> QED
      BY <1>1, <2>4, <3>1, CompatibleSym DEF Fits
  <2> QED
    BY <2>1, <2>2, <2>3, <2>4
<1>4. Cardinality(B \cup A) <= MaxJobs
  <2>1. CASE A = {}
    BY <2>1 DEF Admissible
  <2>2. CASE A # {}
    <3>1. PICK j \in A : A \ {j} \subseteq q[j]
      BY <2>2, LastInQueue
    <3>2. Cardinality(B \cup (A \cap q[j])) < MaxJobs
      BY <1>1 DEF Fits
    <3>3. Cardinality(B \cup A) <= Cardinality(B \cup (A \cap q[j])) + 1
      BY <3>1, OneMore
    <3>4. /\ Cardinality(B \cup A) \in Nat
          /\ Cardinality(B \cup (A \cap q[j])) \in Nat
      BY FiniteJobs
    <3> QED
      BY <1>2, <3>2, <3>3, <3>4
  <2> QED
    BY <2>1, <2>2
<1>5. ASSUME NEW j \in B \cup A, Reader(j)
      PROVE  Cardinality(ReadersWith(j, B \cup A)) <= MaxProjectReaders
  <2> DEFINE T == ReadersWith(j, A)
  <2>1. CASE T = {}
    <3>1. j \in B /\ ReadersWith(j, B \cup A) = ReadersWith(j, B)
      BY <1>5, <2>1 DEF ReadersWith, SameProject
    <3> QED
      BY <1>5, <3>1 DEF Admissible
  <2>2. CASE T # {}
    <3>0. T \in SUBSET P
      BY DEF ReadersWith
    <3> HIDE DEF T
    <3>1. PICK i \in T : T \ {i} \subseteq q[i]
      BY <2>2, <3>0, LastInQueue
    <3> USE DEF T
    <3>2. i \in A /\ Reader(i) /\ SameProject(i, j)
      BY DEF ReadersWith
    <3> DEFINE S == ReadersWith(i, B \cup (A \cap q[i]))
    <3>3. Cardinality(S) < MaxProjectReaders
      BY <1>1, <3>2 DEF Fits
    <3>4. ReadersWith(j, B \cup A) \subseteq S \cup {i}
      BY <3>1, <3>2 DEF ReadersWith, SameProject
    <3>5. S \in SUBSET Jobs /\ ReadersWith(j, B \cup A) \in SUBSET Jobs /\ i \in Jobs
      BY <3>2 DEF ReadersWith
    <3>6. Cardinality(ReadersWith(j, B \cup A)) <= Cardinality(S) + 1
      BY <3>4, <3>5, OneMore
    <3>7. Cardinality(S) \in Nat /\ Cardinality(ReadersWith(j, B \cup A)) \in Nat
      BY <3>5, FiniteJobs
    <3> HIDE DEF S
    <3> QED
      BY <1>2, <3>3, <3>6, <3>7
  <2> QED
    BY <2>1, <2>2
<1> QED
  BY <1>3, <1>4, <1>5 DEF Admissible

(* Reservations that are given back leave the rest safe.                   *)
LEMMA SubsetAdmissible ==
  ASSUME NEW B \in SUBSET Jobs, Admissible(B), NEW D \in SUBSET B
  PROVE  Admissible(D)
<1>1. MaxJobs \in Nat /\ MaxProjectReaders \in Nat
  BY SchedAssumption, FS_CardinalityType DEF MaxJobs
<1>2. Cardinality(D) <= MaxJobs
  <2>1. Cardinality(D) <= Cardinality(B)
    BY FiniteJobs, FS_Subset
  <2> QED
    BY <1>1, <2>1, FiniteJobs DEF Admissible
<1>3. ASSUME NEW j \in D, Reader(j)
      PROVE  Cardinality(ReadersWith(j, D)) <= MaxProjectReaders
  <2>1. /\ ReadersWith(j, D) \in SUBSET ReadersWith(j, B)
        /\ ReadersWith(j, B) \in SUBSET Jobs
    BY DEF ReadersWith
  <2>2. Cardinality(ReadersWith(j, D)) <= Cardinality(ReadersWith(j, B))
    BY <2>1, FiniteJobs, FS_Subset
  <2>3. Cardinality(ReadersWith(j, B)) <= MaxProjectReaders
    BY <1>3 DEF Admissible
  <2>4. /\ Cardinality(ReadersWith(j, D)) \in Nat
        /\ Cardinality(ReadersWith(j, B)) \in Nat
    BY <2>1, FiniteJobs
  <2> QED
    BY <1>1, <2>2, <2>3, <2>4
<1> QED
  BY <1>2, <1>3 DEF Admissible
-----------------------------------------------------------------------------
(* What one pass of admission means for the jobs that still wait.          *)

(* A job that fits beside some jobs fits beside fewer of them.             *)
LEMMA FitsFewer ==
  ASSUME NEW j \in Jobs, NEW B \in SUBSET Jobs, NEW D \in SUBSET B, Fits(j, B)
  PROVE  Fits(j, D)
<1>1. Cardinality(D) <= Cardinality(B)
  BY FiniteJobs, FS_Subset
<1>2. Cardinality(ReadersWith(j, D)) <= Cardinality(ReadersWith(j, B))
  <2>1. ReadersWith(j, D) \in SUBSET ReadersWith(j, B) /\ ReadersWith(j, B) \in SUBSET Jobs
    BY DEF ReadersWith
  <2> QED
    BY <2>1, FiniteJobs, FS_Subset
<1>3. /\ Cardinality(D) \in Nat /\ Cardinality(B) \in Nat
      /\ Cardinality(ReadersWith(j, D)) \in Nat /\ Cardinality(ReadersWith(j, B)) \in Nat
  <2>1. ReadersWith(j, D) \in SUBSET Jobs /\ ReadersWith(j, B) \in SUBSET Jobs
    BY DEF ReadersWith
  <2> QED
    BY <2>1, FiniteJobs
<1>4. MaxJobs \in Nat
  BY SchedAssumption, FS_CardinalityType DEF MaxJobs
<1> QED
  BY <1>1, <1>2, <1>3, <1>4, SchedAssumption DEF Fits

(* Nobody overtakes a ready exclusive job in its project.                  *)
LEMMA NoOvertaking ==
  ASSUME NEW P \in SUBSET Jobs, NEW q \in [Jobs -> SUBSET Jobs], InOrder(P, q),
         NEW B \in SUBSET Jobs, NEW R, NEW A \in SUBSET P, Admitted(A, P, q, B, R),
         NEW i \in P \ A, i \in R, ~Reader(i), NEW j \in A, SameProject(i, j)
  PROVE  j \in q[i]
<1> SUFFICES ASSUME j \notin q[i]
             PROVE  FALSE
  OBVIOUS
<1>1. i \in q[j] /\ q[i] \subseteq q[j]
  BY DEF InOrder
<1>2. ~Reader(j)
  BY <1>1 DEF Admitted, BehindBarrier
<1>3. Fits(j, B \cup (A \cap q[j]))
  BY DEF Admitted
<1>4. Fits(i, B \cup (A \cap q[j]))
  BY <1>2, <1>3 DEF Fits, Compatible, SameProject, SameScope
<1>5. Fits(i, B \cup (A \cap q[i]))
  <2>1. B \cup (A \cap q[i]) \in SUBSET (B \cup (A \cap q[j]))
    BY <1>1
  <2> QED
    BY <1>4, <2>1, FitsFewer
<1> QED
  BY <1>5 DEF Admitted

-----------------------------------------------------------------------------
(***************************************************************************)
(* The scheduler.  ExecutionExclusion is not inductive: it needs that the  *)
(* queue is totally ordered (so that one pass cannot admit two jobs that   *)
(* ignore each other), that the reserved jobs are admissible together      *)
(* although most of them are not running yet, and that a dispatch is in    *)
(* one place only (IInv).  NoLostWork needs more (WorkInv): every          *)
(* reservation was handed to a worker and there are workers enough to get  *)
(* to it.                                                                  *)
(***************************************************************************)

(* A dispatch is held by one worker or is in the workers' queue, not both; *)
(* its generation is not in the future; a pending job's live dispatch has  *)
(* not been handed out.                                                    *)
DispatchOK(P, rq, g, wk) ==
  /\ \A j \in P : /\ g[j] # 0
                  /\ <<j, g[j]>> \notin rq
                  /\ \A w \in Workers : wk[w] # <<j, g[j]>>
  /\ \A w \in Workers : wk[w] \notin rq
  /\ \A v, w \in Workers : v # w /\ wk[v] = wk[w] => wk[v] = NoDispatch
  /\ \A d \in rq : d[2] <= g[d[1]]
  /\ \A w \in Workers : wk[w] # NoDispatch => wk[w][2] <= g[wk[w][1]]

(* Every live dispatch is pending or reserved.                             *)
CurrentOK ==
  /\ current = pending \cup active
  /\ pending \cap active = {}
  /\ flagged \subseteq active

IInv ==
  /\ SchedTypeOK
  /\ CurrentOK
  /\ InOrder(pending, ahead)
  /\ Admissible(active)
  /\ DispatchOK(pending, readyq, gen, worker)

-----------------------------------------------------------------------------
LEMMA NoDispatchIsNone == NoDispatch \notin Dispatch
BY SchedAssumption DEF NoDispatch, Dispatch

(* A queue without some of its jobs.                                       *)
LEMMA RemoveInOrder ==
  ASSUME NEW P \in SUBSET Jobs, NEW q \in [Jobs -> SUBSET Jobs], InOrder(P, q),
         NEW C \in SUBSET Jobs
  PROVE  InOrder(P \ C, [j \in Jobs |-> q[j] \ C])
BY DEF InOrder

(* A queue with one more job at its end.                                   *)
LEMMA AppendInOrder ==
  ASSUME NEW P \in SUBSET Jobs, NEW q \in [Jobs -> SUBSET Jobs], InOrder(P, q),
         NEW j \in Jobs \ P
  PROVE  InOrder(P \cup {j}, [q EXCEPT ![j] = P])
<1> DEFINE r == [q EXCEPT ![j] = P]
<1>1. r[j] = P /\ \A i \in P : r[i] = q[i] /\ r[i] \subseteq P
  BY DEF InOrder
<1> HIDE DEF r
<1> QED
  BY <1>1 DEF InOrder

(* What every method that ends with _schedule relies on.                   *)
LEMMA ScheduleKeeps ==
  ASSUME NEW P \in SUBSET Jobs, NEW q \in [Jobs -> SUBSET Jobs],
         NEW B \in SUBSET Jobs, NEW rq \in SUBSET Dispatch, NEW isReady,
         UNCHANGED kind, gen' \in [Jobs -> Nat],
         InOrder(P, q), P \cap B = {}, Admissible(B),
         DispatchOK(P, rq, gen', worker'),
         Schedule(P, q, B, rq, isReady)
  PROVE  /\ pending' \subseteq Jobs /\ active' \subseteq Jobs
         /\ ahead' \in [Jobs -> SUBSET Jobs]
         /\ readyq' \subseteq Dispatch
         /\ pending' \cup active' = P \cup B
         /\ pending' \cap active' = {}
         /\ B \subseteq active'
         /\ InOrder(pending, ahead)'
         /\ Admissible(active)'
         /\ DispatchOK(pending, readyq, gen, worker)'
<1>1. PICK A \in SUBSET P :
        /\ Admitted(A, P, q, B, isReady) \/ A = {}
        /\ pending' = P \ A
        /\ ahead' = [j \in Jobs |-> IF j \in P \ A THEN q[j] \ A ELSE {}]
        /\ active' = B \cup A
        /\ readyq' = rq \cup {<<j, gen'[j]>> : j \in A}
  BY DEF Schedule
<1>2. /\ pending' \subseteq Jobs /\ active' \subseteq Jobs
      /\ ahead' \in [Jobs -> SUBSET Jobs]
      /\ pending' \cup active' = P \cup B
      /\ pending' \cap active' = {}
      /\ B \subseteq active'
  BY <1>1
<1>3. readyq' \subseteq Dispatch
  BY <1>1 DEF Dispatch, DispatchOK
<1>4. InOrder(pending', ahead')
  BY <1>1 DEF InOrder
<1>5. Admissible(active')
  <2>1. CASE A = {}
    BY <1>1, <2>1
  <2>2. CASE Admitted(A, P, q, B, isReady)
    BY <1>1, <2>2, AdmissionKeepsSafe
  <2> QED
    BY <1>1, <2>1, <2>2
<1>6. DispatchOK(pending', readyq', gen', worker')
  BY <1>1, <1>2 DEF DispatchOK, NoDispatch
<1>7. Admissible(active)'
  BY <1>5 DEF Admissible, Compatible, ReadersWith, Reader, SameProject, SameScope
<1> QED
  BY <1>2, <1>3, <1>4, <1>6, <1>7 DEF InOrder, DispatchOK

(* The whole invariant after such a method, from what is left to show.     *)
LEMMA ScheduleEstablishes ==
  ASSUME NEW P \in SUBSET Jobs, NEW q \in [Jobs -> SUBSET Jobs],
         NEW B \in SUBSET Jobs, NEW rq \in SUBSET Dispatch, NEW isReady,
         IInv, UNCHANGED kind,
         phase' \in {"down", "started", "closing"},
         gen' \in [Jobs -> Nat], termWait' \in [Jobs -> Nat],
         open' \subseteq Dispatch, exited' \subseteq Workers,
         worker' \in [Workers -> Dispatch \cup {NoDispatch}],
         current' = P \cup B, flagged' \subseteq B,
         InOrder(P, q), P \cap B = {}, Admissible(B),
         DispatchOK(P, rq, gen', worker'),
         Schedule(P, q, B, rq, isReady)
  PROVE  IInv'
<1>1. /\ pending' \subseteq Jobs /\ active' \subseteq Jobs
      /\ ahead' \in [Jobs -> SUBSET Jobs]
      /\ readyq' \subseteq Dispatch
      /\ pending' \cup active' = P \cup B
      /\ pending' \cap active' = {}
      /\ B \subseteq active'
      /\ InOrder(pending, ahead)'
      /\ Admissible(active)'
      /\ DispatchOK(pending, readyq, gen, worker)'
  BY ScheduleKeeps
<1>2. SchedTypeOK'
  BY <1>1 DEF IInv, SchedTypeOK
<1>3. CurrentOK'
  BY <1>1 DEF CurrentOK
<1> QED
  BY <1>1, <1>2, <1>3 DEF IInv

(* The queue that start builds.                                            *)
LEMMA FifoInOrder ==
  ASSUME NEW Q \in SUBSET Jobs
  PROVE  LET q == [j \in Jobs |-> {i \in Q : i < j}]
         IN  q \in [Jobs -> SUBSET Jobs] /\ InOrder(Q, q)
<1> DEFINE q == [j \in Jobs |-> {i \in Q : i < j}]
<1>1. q \in [Jobs -> SUBSET Jobs]
  OBVIOUS
<1>2. \A j \in Q : q[j] = {i \in Q : i < j}
  OBVIOUS
<1>3. \A j \in Q : j \in Int
  BY SchedAssumption
<1> HIDE DEF q
<1>4. \A j \in Q : q[j] \subseteq Q /\ j \notin q[j]
  BY <1>2, <1>3
<1>5. \A i, j \in Q : i # j => i \in q[j] \/ j \in q[i]
  BY <1>2, <1>3
<1>6. \A i, j \in Q : i \in q[j] => q[i] \subseteq q[j]
  BY <1>2, <1>3
<1>7. q \in [Jobs -> SUBSET Jobs] /\ InOrder(Q, q)
  BY <1>1, <1>4, <1>5, <1>6 DEF InOrder
<1> QED
  BY <1>7 DEF q

LEMMA StartKeeps ==
  ASSUME IInv, NEW Q \in SUBSET Jobs, NEW isReady, Start(Q, isReady)
  PROVE  IInv'
<1> DEFINE q == [j \in Jobs |-> {i \in Q : i < j}]
<1>1. q \in [Jobs -> SUBSET Jobs] /\ InOrder(Q, q)
  BY FifoInOrder
<1>2. Admissible({})
  BY SchedAssumption, FS_EmptySet, FS_CardinalityType DEF Admissible, MaxJobs
<1>3. DispatchOK(Q, {}, gen', worker')
  BY DEF Start, DispatchOK, NoDispatch
<1>4. Schedule(Q, q, {}, {}, isReady)
  BY DEF Start
<1>5. open' \subseteq Dispatch
  BY DEF Start, Dispatch
<1> HIDE DEF q
<1> QED
  BY <1>1, <1>2, <1>3, <1>4, <1>5, ScheduleEstablishes DEF Start

LEMMA EnqueueKeeps ==
  ASSUME IInv, NEW j \in Jobs, NEW isReady, Enqueue(j, isReady)
  PROVE  IInv'
<1>1. CASE j \in current
  BY <1>1 DEF Enqueue, IInv, SchedTypeOK, CurrentOK, InOrder, DispatchOK,
         Admissible, Compatible, ReadersWith, Reader, SameProject, SameScope,
         admissionVars
<1>2. CASE j \notin current
  <2> DEFINE P == pending \cup {j}
             q == [ahead EXCEPT ![j] = pending]
  <2>1. /\ gen' = [gen EXCEPT ![j] = @ + 1]
        /\ Schedule(P, q, active, readyq, isReady)
        /\ UNCHANGED <<kind, phase, worker, exited, flagged, termWait>>
        /\ current' = current \cup {j}
        /\ open' = open \cup {<<j, gen[j] + 1>>}
    BY <1>2 DEF Enqueue
  <2>2. /\ P \in SUBSET Jobs /\ P \cap active = {}
        /\ q \in [Jobs -> SUBSET Jobs] /\ InOrder(P, q)
    BY <1>2, AppendInOrder DEF IInv, SchedTypeOK, CurrentOK
  <2>3. gen' \in [Jobs -> Nat] /\ open' \subseteq Dispatch
    BY <2>1 DEF IInv, SchedTypeOK, Dispatch
  <2>4. DispatchOK(P, readyq, gen', worker')
    <3>1. /\ gen \in [Jobs -> Nat] /\ readyq \subseteq Dispatch
          /\ worker \in [Workers -> Dispatch \cup {NoDispatch}]
          /\ j \notin pending /\ pending \subseteq Jobs
          /\ DispatchOK(pending, readyq, gen, worker)
      BY <1>2 DEF IInv, SchedTypeOK, CurrentOK
    <3>2. gen'[j] = gen[j] + 1 /\ \A i \in Jobs : gen'[i] >= gen[i]
      BY <2>1, <3>1
    <3>3. <<j, gen'[j]>> \notin readyq
      BY <3>1, <3>2 DEF DispatchOK, Dispatch
    <3>4. ASSUME NEW w \in Workers PROVE worker[w] # <<j, gen'[j]>>
      BY <3>1, <3>2 DEF DispatchOK, Dispatch, NoDispatch
    <3>5. \A d \in readyq : d[2] <= gen'[d[1]]
      BY <3>1, <3>2, <2>3 DEF DispatchOK, Dispatch
    <3>6. \A w \in Workers : worker[w] # NoDispatch =>
                               worker[w][2] <= gen'[worker[w][1]]
      BY <3>1, <3>2, <2>3 DEF DispatchOK, Dispatch
    <3>7. \A i \in pending : gen'[i] = gen[i]
      BY <2>1, <3>1
    <3>8. worker' = worker
      BY <2>1
    <3> QED
      BY <3>1, <3>2, <3>3, <3>4, <3>5, <3>6, <3>7, <3>8 DEF DispatchOK
  <2>5. current' = P \cup active /\ flagged' \subseteq active
    BY <2>1 DEF IInv, CurrentOK
  <2> HIDE DEF P, q
  <2> QED
    BY <2>1, <2>2, <2>3, <2>4, <2>5, ScheduleEstablishes
       DEF IInv, SchedTypeOK
<1> QED
  BY <1>1, <1>2

(* _release of any jobs; the caller has set readyq and worker.             *)
LEMMA ReleaseKeeps ==
  ASSUME IInv, NEW S \in SUBSET Jobs, NEW quiet, NEW isReady,
         NEW rq \in SUBSET readyq,
         UNCHANGED <<kind, phase, gen, exited>>,
         worker' \in [Workers -> Dispatch \cup {NoDispatch}],
         \A w \in Workers : worker'[w] = worker[w] \/ worker'[w] = NoDispatch,
         Release(S, quiet, rq, isReady)
  PROVE  IInv'
<1> DEFINE C == S \cap current
           P == pending \ C
           q == [j \in Jobs |-> ahead[j] \ C]
           B == active \ C
<1>1. /\ P \in SUBSET Jobs /\ B \in SUBSET Jobs /\ P \cap B = {}
      /\ q \in [Jobs -> SUBSET Jobs]
  BY DEF IInv, SchedTypeOK, CurrentOK
<1>2. InOrder(P, q)
  <2>1. /\ C \in SUBSET Jobs /\ pending \in SUBSET Jobs
        /\ ahead \in [Jobs -> SUBSET Jobs] /\ InOrder(pending, ahead)
    BY DEF IInv, SchedTypeOK
  <2> HIDE DEF C
  <2> QED
    BY <2>1, RemoveInOrder
<1>3. Admissible(B)
  BY SubsetAdmissible DEF IInv, SchedTypeOK
<1>4. DispatchOK(P, rq, gen', worker')
  BY NoDispatchIsNone DEF IInv, SchedTypeOK, DispatchOK, NoDispatch, Dispatch
<1>5. /\ current' = P \cup B /\ flagged' \subseteq B
      /\ open' \subseteq Dispatch
      /\ Schedule(P, q, B, rq, isReady)
  BY DEF Release, IInv, SchedTypeOK, CurrentOK
<1>6. termWait' \in [Jobs -> Nat]
  BY DEF Release, IInv, SchedTypeOK
<1>7. /\ rq \in SUBSET Dispatch /\ gen' \in [Jobs -> Nat]
      /\ phase' \in {"down", "started", "closing"}
      /\ exited' \subseteq Workers /\ UNCHANGED kind
  BY DEF IInv, SchedTypeOK
<1> HIDE DEF P, q, B
<1> QED
  BY <1>1, <1>2, <1>3, <1>4, <1>5, <1>6, <1>7, ScheduleEstablishes

(* Methods that leave the queue and the reservations alone.                *)
LEMMA NoScheduleKeeps ==
  ASSUME IInv, UNCHANGED <<kind, phase, current, gen, admissionVars, termWait>>,
         readyq' \subseteq readyq, open' \subseteq open,
         exited' \subseteq Workers, flagged' \subseteq active,
         worker' \in [Workers -> Dispatch \cup {NoDispatch}],
         DispatchOK(pending, readyq', gen, worker')
  PROVE  IInv'
<1>1. SchedTypeOK'
  BY DEF IInv, SchedTypeOK, admissionVars
<1>2. CurrentOK' /\ InOrder(pending, ahead)'
  BY DEF IInv, CurrentOK, InOrder, admissionVars
<1>3. Admissible(active)'
  BY DEF IInv, Admissible, Compatible, ReadersWith, Reader, SameProject,
         SameScope, admissionVars
<1>4. DispatchOK(pending, readyq, gen, worker)'
  BY DEF DispatchOK, admissionVars
<1> QED
  BY <1>1, <1>2, <1>3, <1>4 DEF IInv

LEMMA WorkerKeeps ==
  ASSUME IInv, NEW w \in Workers, NEW isReady,
         \/ \E d \in readyq : \/ TakeDispatch(w, d) \/ SkipDispatch(w, d)
                              \/ TakeAndReturn(w, d, isReady)
         \/ WorkerReturn(w, isReady)
         \/ WorkerExit(w)
  PROVE  IInv'
<1> USE DEF IInv, SchedTypeOK, CurrentOK
<1>1. CASE \E d \in readyq : TakeDispatch(w, d)
  <2>1. PICK d \in readyq : TakeDispatch(w, d)
    BY <1>1
  <2>2. DispatchOK(pending, readyq', gen, worker')
    <3>1. /\ d \in Dispatch /\ d[1] \in active /\ d # NoDispatch
          /\ readyq' = readyq \ {d}
          /\ worker' = [worker EXCEPT ![w] = d]
      BY <2>1, NoDispatchIsNone DEF TakeDispatch
    <3>2. \A j \in pending : d # <<j, gen[j]>>
      BY <3>1
    <3>3. d[2] <= gen[d[1]]
      BY DEF DispatchOK
    <3> QED
      BY <3>1, <3>2, <3>3 DEF DispatchOK
  <2> QED
    BY <2>1, <2>2, NoScheduleKeeps DEF TakeDispatch
<1>2. CASE \E d \in readyq : SkipDispatch(w, d)
  <2>1. DispatchOK(pending, readyq', gen, worker')
    BY <1>2 DEF SkipDispatch, DispatchOK
  <2> QED
    BY <1>2, <2>1, NoScheduleKeeps DEF SkipDispatch
<1>3. CASE \E d \in readyq : TakeAndReturn(w, d, isReady)
  <2>1. PICK d \in readyq : TakeAndReturn(w, d, isReady)
    BY <1>3
  <2>2. /\ {d[1]} \in SUBSET Jobs /\ readyq \ {d} \in SUBSET readyq
        /\ UNCHANGED <<kind, phase, gen, exited, worker>>
        /\ Release({d[1]}, {}, readyq \ {d}, isReady)
    BY <2>1 DEF TakeAndReturn, Dispatch
  <2>3. worker' \in [Workers -> Dispatch \cup {NoDispatch}]
    BY <2>2
  <2> HIDE DEF IInv
  <2> QED
    BY <2>2, <2>3, ReleaseKeeps
<1>4. CASE WorkerReturn(w, isReady)
  <2> DEFINE d == worker[w]
  <2>1. /\ UNCHANGED <<kind, phase, gen, exited>>
        /\ d \in Dispatch
        /\ worker' = [worker EXCEPT ![w] = NoDispatch]
        /\ worker' \in [Workers -> Dispatch \cup {NoDispatch}]
        /\ \A v \in Workers : worker'[v] = worker[v] \/ worker'[v] = NoDispatch
    BY <1>4 DEF WorkerReturn
  <2>2. CASE IsLive(d)
    <3>1. {d[1]} \in SUBSET Jobs /\ Release({d[1]}, {}, readyq, isReady)
      BY <1>4, <2>1, <2>2 DEF WorkerReturn, Dispatch
    <3> HIDE DEF IInv, d
    <3> QED
      BY <2>1, <3>1, ReleaseKeeps
  <2>3. CASE ~IsLive(d)
    <3>1. /\ open' = open \ {d}
          /\ termWait' \in [Jobs -> Nat]
          /\ Schedule(pending, ahead, active, readyq, isReady)
          /\ UNCHANGED <<current, flagged>>
      BY <1>4, <2>3 DEF WorkerReturn
    <3>2. DispatchOK(pending, readyq, gen', worker')
      BY <2>1, NoDispatchIsNone DEF DispatchOK, NoDispatch, Dispatch
    <3>3. /\ open' \subseteq Dispatch /\ flagged' \subseteq active
          /\ gen' \in [Jobs -> Nat] /\ current' = pending \cup active
          /\ phase' \in {"down", "started", "closing"} /\ exited' \subseteq Workers
      BY <2>1, <3>1
    <3> QED
      BY <2>1, <3>1, <3>2, <3>3, ScheduleEstablishes
  <2> QED
    BY <2>2, <2>3
<1>5. CASE WorkerExit(w)
  <2>1. DispatchOK(pending, readyq', gen, worker')
    BY <1>5 DEF WorkerExit
  <2> QED
    BY <1>5, <2>1, NoScheduleKeeps DEF WorkerExit
<1> QED
  BY <1>1, <1>2, <1>3, <1>4, <1>5

LEMMA BeginCloseKeeps ==
  ASSUME IInv, BeginClose
  PROVE  IInv'
<1>1. SchedTypeOK' /\ CurrentOK'
  BY DEF BeginClose, IInv, SchedTypeOK, CurrentOK
<1>2. InOrder(pending, ahead)'
  BY DEF BeginClose, InOrder
<1>3. Admissible(active)'
  BY DEF BeginClose, IInv, Admissible, Compatible, ReadersWith, Reader,
         SameProject, SameScope
<1>4. DispatchOK(pending, readyq, gen, worker)'
  BY DEF BeginClose, IInv, DispatchOK
<1> QED
  BY <1>1, <1>2, <1>3, <1>4 DEF IInv

(* An empty scheduler.                                                     *)
LEMMA ForgetKeeps ==
  ASSUME IInv, Forget
  PROVE  IInv'
<1>1. SchedTypeOK' /\ CurrentOK' /\ InOrder(pending, ahead)'
  BY DEF Forget, IInv, SchedTypeOK, CurrentOK, InOrder
<1>2. Admissible(active)'
  BY SchedAssumption, FS_EmptySet, FS_CardinalityType
     DEF Forget, Admissible, MaxJobs
<1>3. DispatchOK(pending, readyq, gen, worker)'
  BY DEF Forget, DispatchOK, NoDispatch
<1> QED
  BY <1>1, <1>2, <1>3 DEF IInv

LEMMA InitEstablishes ==
  ASSUME SchedInit
  PROVE  IInv
<1>1. SchedTypeOK /\ CurrentOK /\ InOrder(pending, ahead)
  BY DEF SchedInit, SchedTypeOK, CurrentOK, InOrder
<1>2. Admissible(active)
  BY SchedAssumption, FS_EmptySet, FS_CardinalityType
     DEF SchedInit, Admissible, MaxJobs
<1>3. DispatchOK(pending, readyq, gen, worker)
  BY DEF SchedInit, DispatchOK, NoDispatch
<1> QED
  BY <1>1, <1>2, <1>3 DEF IInv

LEMMA StutterKeeps ==
  ASSUME IInv, UNCHANGED schedVars
  PROVE  IInv'
BY DEF IInv, SchedTypeOK, CurrentOK, InOrder, DispatchOK, Admissible,
       Compatible, ReadersWith, Reader, SameProject, SameScope, schedVars

-----------------------------------------------------------------------------
(* Every step of the scheduler keeps the invariant.                        *)
LEMMA StepKeeps ==
  ASSUME IInv, [SchedNext]_schedVars
  PROVE  IInv'
<1>1. CASE Callers
  <2>1. CASE \E Q \in SUBSET Jobs : \E isReady \in SUBSET Q : Start(Q, isReady)
    BY <2>1, StartKeeps
  <2>2. CASE \E j \in Jobs : \E isReady \in SUBSET (pending \cup {j}) :
               Enqueue(j, isReady)
    BY <2>2, EnqueueKeeps
  <2>3. CASE \E S \in SUBSET current :
               \E quiet \in SUBSET {j \in S : Started(j)} :
                 \E isReady \in SUBSET pending : ReleaseJobs(S, quiet, isReady)
    <3>1. PICK S, quiet, isReady :
            S \in SUBSET current /\ ReleaseJobs(S, quiet, isReady)
      BY <2>3
    <3>2. /\ S \in SUBSET Jobs /\ readyq \in SUBSET readyq
          /\ worker' \in [Workers -> Dispatch \cup {NoDispatch}]
          /\ UNCHANGED <<kind, phase, gen, worker, exited>>
          /\ Release(S, quiet, readyq, isReady)
      BY <3>1 DEF ReleaseJobs, IInv, SchedTypeOK
    <3> QED
      BY <3>2, ReleaseKeeps
  <2>4. CASE \E j \in current : RequestCancel(j)
    <3>1. PICK j \in current : RequestCancel(j)
      BY <2>4
    <3>2. j \in active
      BY <3>1 DEF RequestCancel, Started, Live, IInv, CurrentOK, DispatchOK
    <3>3. DispatchOK(pending, readyq', gen, worker')
      BY <3>1 DEF RequestCancel, IInv
    <3> QED
      BY <3>1, <3>2, <3>3, NoScheduleKeeps
         DEF RequestCancel, IInv, SchedTypeOK, CurrentOK
  <2>5. CASE BeginClose
    BY <2>5, BeginCloseKeeps
  <2> QED
    BY <1>1, <2>1, <2>2, <2>3, <2>4, <2>5 DEF Callers
<1>2. CASE WorkerSteps
  <2>1. CASE FinishClose
    BY <2>1, ForgetKeeps DEF FinishClose
  <2> QED
    BY <1>2, <2>1, WorkerKeeps DEF WorkerSteps
<1>3. CASE Crash
  BY <1>3, ForgetKeeps DEF Crash
<1>4. CASE UNCHANGED schedVars
  BY <1>4, StutterKeeps
<1> QED
  BY <1>1, <1>2, <1>3, <1>4 DEF SchedNext

(* The inductive invariant holds in every state of the scheduler, whoever  *)
(* calls it and whatever is_ready answers.                                 *)
THEOREM InductiveInvariant == SchedSpec => []IInv
<1>1. SchedInit => IInv
  BY InitEstablishes
<1>2. IInv /\ [SchedNext]_schedVars => IInv'
  BY StepKeeps
<1> QED
  BY <1>1, <1>2, PTL DEF SchedSpec

(* Every variable of the scheduler keeps its type.                         *)
THEOREM TypeCorrect == SchedSpec => []SchedTypeOK
<1>1. IInv => SchedTypeOK
  BY DEF IInv
<1> QED
  BY <1>1, InductiveInvariant, PTL

(* Executing workers run reserved jobs, each its own.                      *)
LEMMA ExecutingIsActive ==
  ASSUME IInv, NEW w \in Workers, Executing(w)
  PROVE  worker[w] = Live(worker[w][1]) /\ worker[w][1] \in active
<1>1. worker[w] \in Dispatch
  BY DEF Executing, IInv, SchedTypeOK
<1>2. worker[w] = Live(worker[w][1])
  BY <1>1 DEF Executing, IsLive, Live, Dispatch
<1>3. worker[w][1] \notin pending
  BY <1>2 DEF Live, IInv, DispatchOK
<1> QED
  BY <1>2, <1>3 DEF Executing, IsLive, IInv, CurrentOK

(* No two workers ever run jobs that exclude each other.                   *)
THEOREM WorkersExclude == SchedSpec => []ExecutionExclusion
<1>1. IInv => ExecutionExclusion
  <2> SUFFICES ASSUME IInv, NEW v \in Workers, NEW w \in Workers, v # w,
                      Executing(v), Executing(w)
               PROVE  Compatible(worker[v][1], worker[w][1])
    BY DEF ExecutionExclusion
  <2>1. /\ worker[v] = Live(worker[v][1]) /\ worker[v][1] \in active
        /\ worker[w] = Live(worker[w][1]) /\ worker[w][1] \in active
    BY ExecutingIsActive
  <2>2. worker[v] # worker[w]
    BY DEF IInv, DispatchOK, Executing
  <2>3. worker[v][1] # worker[w][1]
    BY <2>1, <2>2
  <2> QED
    BY <2>1, <2>3 DEF IInv, Admissible
<1> QED
  BY <1>1, InductiveInvariant, PTL

(* Neither the workers nor the readers of a project are overcommitted.     *)
THEOREM LimitsHold == SchedSpec => []AdmissionLimits
<1>1. IInv => AdmissionLimits
  BY DEF IInv, Admissible, AdmissionLimits
<1> QED
  BY <1>1, InductiveInvariant, PTL

-----------------------------------------------------------------------------
(* NoLostWork.  The completion events and the workers' queue need an       *)
(* invariant of their own: the generation kept in _terminal_waiters is     *)
(* never that of a live dispatch (or close would wake the waiters of a job *)
(* that still runs), a reserved job is with a worker or in the queue, and  *)
(* a worker leaves only when the queue is empty for good.                  *)
HandedOut == \A j \in active : Started(j) \/ Live(j) \in readyq

WorkInv ==
  /\ \A j \in Jobs : termWait[j] <= gen[j]
  /\ \A j \in current : termWait[j] < gen[j] /\ Live(j) \in open
  /\ NoLostWaiter
  /\ HandedOut
  /\ exited # {} => phase = "closing" /\ readyq = {}

(* What _schedule hands to the workers.                                    *)
LEMMA ScheduleHandsOut ==
  ASSUME NEW P, NEW q, NEW B, NEW rq, NEW isReady, Schedule(P, q, B, rq, isReady)
  PROVE  /\ pending' \cup active' = P \cup B
         /\ \A j \in active' : j \in B \/ <<j, gen'[j]>> \in readyq'
         /\ rq \subseteq readyq'
         /\ phase' # "started" => readyq' = rq
BY DEF Schedule

LEMMA StartKeepsWork ==
  ASSUME IInv, WorkInv, NEW Q \in SUBSET Jobs, NEW isReady, Start(Q, isReady)
  PROVE  WorkInv'
<1>1. /\ phase' = "started" /\ exited' = {} /\ current' = Q
      /\ gen' = [j \in Jobs |-> IF j \in Q THEN 1 ELSE 0]
      /\ termWait' = [j \in Jobs |-> 0]
      /\ open' = {<<j, 1>> : j \in Q}
  BY DEF Start
<1>2. \A j \in active' : <<j, gen'[j]>> \in readyq'
  BY ScheduleHandsOut DEF Start
<1>3. NoLostWaiter'
  BY <1>1 DEF NoLostWaiter, IsLive
<1>4. HandedOut'
  BY <1>2 DEF HandedOut, Live
<1> QED
  BY <1>1, <1>3, <1>4 DEF WorkInv, Live

LEMMA EnqueueKeepsWork ==
  ASSUME IInv, WorkInv, NEW j \in Jobs, NEW isReady, Enqueue(j, isReady)
  PROVE  WorkInv'
<1>1. CASE j \in current
  BY <1>1 DEF Enqueue, WorkInv, NoLostWaiter, HandedOut, IsLive, Live, Started,
              admissionVars
<1>2. CASE j \notin current
  <2>1. /\ gen' = [gen EXCEPT ![j] = @ + 1]
        /\ UNCHANGED <<phase, worker, exited, termWait>>
        /\ current' = current \cup {j}
        /\ open' = open \cup {<<j, gen[j] + 1>>}
        /\ Schedule(pending \cup {j}, [ahead EXCEPT ![j] = pending], active,
                    readyq, isReady)
    BY <1>2 DEF Enqueue
  <2>2. /\ \A i \in active' : i \in active \/ <<i, gen'[i]>> \in readyq'
        /\ readyq \subseteq readyq'
        /\ phase' # "started" => readyq' = readyq
    BY <2>1, ScheduleHandsOut
  <2>3. /\ gen \in [Jobs -> Nat] /\ termWait \in [Jobs -> Nat]
        /\ open \subseteq Dispatch /\ current \subseteq Jobs /\ active \subseteq current
    BY DEF IInv, SchedTypeOK, CurrentOK
  <2>4. gen'[j] = gen[j] + 1 /\ \A i \in Jobs \ {j} : gen'[i] = gen[i]
    BY <2>1, <2>3
  <2>5. /\ \A i \in Jobs : termWait'[i] <= gen'[i]
        /\ \A i \in current' : termWait'[i] < gen'[i]
    BY <2>1, <2>3, <2>4 DEF WorkInv
  <2>6. \A i \in current' : <<i, gen'[i]>> \in open'
    BY <1>2, <2>1, <2>3, <2>4 DEF WorkInv, Live
  <2>7. NoLostWaiter'
    <3> SUFFICES ASSUME NEW d \in open'
                 PROVE  \/ d[1] \in current' /\ d[2] = gen'[d[1]]
                        \/ \E w \in Workers : worker'[w] = d
      BY DEF NoLostWaiter, IsLive
    <3>1. CASE d = <<j, gen[j] + 1>>
      BY <3>1, <2>1, <2>4
    <3>2. CASE d \in open
      BY <3>2, <1>2, <2>1, <2>3, <2>4 DEF WorkInv, NoLostWaiter, IsLive, Dispatch
    <3> QED
      BY <3>1, <3>2, <2>1
  <2>8. HandedOut'
    BY <1>2, <2>1, <2>2, <2>3, <2>4 DEF WorkInv, HandedOut, Started, Live
  <2> QED
    BY <2>1, <2>2, <2>5, <2>6, <2>7, <2>8 DEF WorkInv, Live
<1> QED
  BY <1>1, <1>2

(* _release: the dispatches it ends are open no more, or a worker holds    *)
(* them; what leaves the workers' queue is among them.                     *)
LEMMA ReleaseKeepsWork ==
  ASSUME IInv, WorkInv, NEW S \in SUBSET Jobs, NEW quiet, NEW isReady,
         NEW rq \in SUBSET readyq,
         \A d \in readyq \ rq : d[1] \in S,
         UNCHANGED <<kind, phase, gen, exited>>,
         \A w \in Workers :
           \/ worker'[w] = worker[w]
           \/ \E j \in (S \cap current) \ quiet : worker[w] = Live(j),
         \A j \in S \cap quiet : Started(j),
         Release(S, quiet, rq, isReady)
  PROVE  WorkInv'
<1> DEFINE C == S \cap current
<1>1. /\ current' = current \ C
      /\ open' = open \ {Live(j) : j \in C \ quiet}
      /\ termWait' = [j \in Jobs |-> IF j \in C \cap quiet THEN gen[j]
                                                           ELSE termWait[j]]
      /\ Schedule(pending \ C, [j \in Jobs |-> ahead[j] \ C], active \ C, rq,
                  isReady)
  BY DEF Release
<1>2. /\ \A j \in active' : j \in active \ C \/ <<j, gen[j]>> \in readyq'
      /\ rq \subseteq readyq'
      /\ phase' # "started" => readyq' = rq
  BY <1>1, ScheduleHandsOut
<1>3. /\ gen \in [Jobs -> Nat] /\ termWait \in [Jobs -> Nat]
      /\ open \subseteq Dispatch /\ current \subseteq Jobs /\ active \subseteq current
  BY DEF IInv, SchedTypeOK, CurrentOK
<1>4. ASSUME NEW j \in Jobs \ (C \ quiet), NEW w \in Workers, worker[w] = Live(j)
      PROVE  worker'[w] = Live(j)
  BY <1>4 DEF Live
<1>5. /\ \A j \in Jobs : termWait'[j] <= gen'[j]
      /\ \A j \in current' : termWait'[j] < gen'[j]
  BY <1>1, <1>3 DEF WorkInv
<1>6. \A j \in current' : <<j, gen'[j]>> \in open'
  BY <1>1, <1>3 DEF WorkInv, Live
<1>7. NoLostWaiter'
  <2> SUFFICES ASSUME NEW d \in open'
               PROVE  \/ d[1] \in current' /\ d[2] = gen[d[1]]
                      \/ \E w \in Workers : worker'[w] = d
    BY DEF NoLostWaiter, IsLive
  <2>1. d \in open /\ d = <<d[1], d[2]>> /\ d[1] \in Jobs
    BY <1>1, <1>3 DEF Dispatch
  <2>2. CASE d[1] \in C /\ d[2] = gen[d[1]]
    <3>1. d = Live(d[1]) /\ d[1] \in quiet
      BY <2>1, <2>2, <1>1 DEF Live
    <3>2. PICK w \in Workers : worker[w] = Live(d[1])
      BY <2>2, <3>1 DEF Started
    <3> QED
      BY <3>1, <3>2, <2>1, <1>4
  <2>3. CASE d[1] \in current \ C /\ d[2] = gen[d[1]]
    BY <2>3, <1>1
  <2>4. CASE ~IsLive(d)
    <3>1. PICK w \in Workers : worker[w] = d
      BY <2>1, <2>4 DEF WorkInv, NoLostWaiter
    <3>2. \A j \in current : d # Live(j)
      BY <2>1, <2>4 DEF IsLive, Live
    <3> QED
      BY <3>1, <3>2
  <2> QED
    BY <2>2, <2>3, <2>4 DEF IsLive
<1>8. HandedOut'
  <2> SUFFICES ASSUME NEW j \in active', <<j, gen[j]>> \notin readyq'
               PROVE  \E w \in Workers : worker'[w] = <<j, gen[j]>>
    BY DEF HandedOut, Started, Live
  <2>1. j \in active \ C /\ j \in Jobs
    BY <1>2, <1>3
  <2>2. Live(j) \notin readyq
    BY <2>1, <1>2, <1>3 DEF Live
  <2>3. PICK w \in Workers : worker[w] = Live(j)
    BY <2>1, <2>2 DEF WorkInv, HandedOut, Started
  <2> QED
    BY <2>1, <2>3, <1>4 DEF Live
<1>9. exited' # {} => phase' = "closing" /\ readyq' = {}
  BY <1>2 DEF WorkInv
<1> QED
  BY <1>5, <1>6, <1>7, <1>8, <1>9 DEF WorkInv, Live

LEMMA RequestCancelKeepsWork ==
  ASSUME IInv, WorkInv, NEW j \in Jobs, RequestCancel(j)
  PROVE  WorkInv'
BY DEF RequestCancel, admissionVars, WorkInv, NoLostWaiter, HandedOut, IsLive,
       Live, Started

LEMMA WorkerKeepsWork ==
  ASSUME IInv, WorkInv, NEW w \in Workers, NEW isReady,
         \/ \E d \in readyq : \/ TakeDispatch(w, d) \/ SkipDispatch(w, d)
                              \/ TakeAndReturn(w, d, isReady)
         \/ WorkerReturn(w, isReady)
         \/ WorkerExit(w)
  PROVE  WorkInv'
<1>1. /\ gen \in [Jobs -> Nat] /\ termWait \in [Jobs -> Nat]
      /\ open \subseteq Dispatch /\ readyq \subseteq Dispatch
      /\ worker \in [Workers -> Dispatch \cup {NoDispatch}]
      /\ current \subseteq Jobs /\ active \subseteq current
  BY DEF IInv, SchedTypeOK, CurrentOK
<1>2. ASSUME NEW d \in readyq, TakeDispatch(w, d) PROVE WorkInv'
  <2>1. /\ UNCHANGED <<phase, current, gen, active, exited, open, termWait>>
        /\ worker[w] = NoDispatch /\ worker' = [worker EXCEPT ![w] = d]
        /\ readyq' = readyq \ {d}
    BY <1>2 DEF TakeDispatch, Idle, admissionVars
  <2>2. NoLostWaiter'
    BY <1>1, <2>1, NoDispatchIsNone DEF WorkInv, NoLostWaiter, IsLive
  <2>3. HandedOut'
    BY <1>1, <2>1, NoDispatchIsNone DEF WorkInv, HandedOut, Started, Live, Dispatch
  <2> QED
    BY <2>1, <2>2, <2>3 DEF WorkInv, Live
<1>3. ASSUME NEW d \in readyq, SkipDispatch(w, d) PROVE WorkInv'
  <2>1. /\ UNCHANGED <<phase, current, gen, active, worker, exited, open, termWait>>
        /\ ~(IsLive(d) /\ d[1] \in active)
        /\ readyq' = readyq \ {d}
    BY <1>3 DEF SkipDispatch, admissionVars
  <2>2. \A j \in active : Live(j) # d
    BY <1>1, <2>1 DEF IsLive, Live
  <2> QED
    BY <1>1, <2>1, <2>2 DEF WorkInv, NoLostWaiter, HandedOut, IsLive, Live, Started
<1>4. ASSUME NEW d \in readyq, TakeAndReturn(w, d, isReady) PROVE WorkInv'
  <2>1. /\ UNCHANGED <<kind, phase, gen, worker, exited>>
        /\ Release({d[1]}, {}, readyq \ {d}, isReady)
        /\ {d[1]} \in SUBSET Jobs /\ readyq \ {d} \in SUBSET readyq
    BY <1>1, <1>4 DEF TakeAndReturn, Dispatch
  <2> QED
    BY <2>1, ReleaseKeepsWork
<1>5. ASSUME WorkerReturn(w, isReady) PROVE WorkInv'
  <2> DEFINE d == worker[w]
  <2>1. /\ UNCHANGED <<kind, phase, gen, exited>>
        /\ d \in Dispatch /\ d = <<d[1], d[2]>> /\ d[1] \in Jobs
        /\ worker' = [worker EXCEPT ![w] = NoDispatch]
    BY <1>1, <1>5 DEF WorkerReturn, Dispatch
  <2>2. CASE IsLive(d)
    <3>1. /\ {d[1]} \in SUBSET Jobs /\ readyq \in SUBSET readyq
          /\ Release({d[1]}, {}, readyq, isReady)
      BY <1>5, <2>1, <2>2 DEF WorkerReturn
    <3>2. \A v \in Workers :
            \/ worker'[v] = worker[v]
            \/ \E j \in ({d[1]} \cap current) \ {} : worker[v] = Live(j)
      BY <1>1, <2>1, <2>2 DEF IsLive, Live
    <3> HIDE DEF d
    <3> QED
      BY <2>1, <3>1, <3>2, ReleaseKeepsWork
  <2>3. CASE ~IsLive(d)
    <3>1. /\ open' = open \ {d}
          /\ termWait' = [termWait EXCEPT ![d[1]] = IF @ = d[2] THEN 0 ELSE @]
          /\ Schedule(pending, ahead, active, readyq, isReady)
          /\ UNCHANGED current
      BY <1>5, <2>3 DEF WorkerReturn
    <3>2. /\ \A j \in active' : j \in active \/ <<j, gen'[j]>> \in readyq'
          /\ readyq \subseteq readyq'
          /\ phase' # "started" => readyq' = readyq
      BY <3>1, ScheduleHandsOut
    <3>3. \A j \in current : Live(j) # d
      BY <2>1, <2>3 DEF IsLive, Live
    <3>4. \A v \in Workers : worker[v] # d => worker'[v] = worker[v]
      BY <1>1, <2>1
    <3>5. \A j \in Jobs : termWait'[j] <= termWait[j]
      BY <1>1, <2>1, <3>1
    <3>6. /\ \A j \in Jobs : termWait'[j] <= gen'[j]
          /\ \A j \in current' : termWait'[j] < gen'[j]
      <4>1. termWait' \in [Jobs -> Nat]
        BY <1>1, <2>1, <3>1
      <4> QED
        BY <1>1, <2>1, <3>1, <3>5, <4>1 DEF WorkInv
    <3>7. \A j \in current' : <<j, gen'[j]>> \in open'
      BY <2>1, <3>1, <3>3 DEF WorkInv, Live
    <3>8. NoLostWaiter'
      BY <2>1, <3>1, <3>4 DEF WorkInv, NoLostWaiter, IsLive
    <3>9. HandedOut'
      <4> SUFFICES ASSUME NEW j \in active', <<j, gen'[j]>> \notin readyq'
                   PROVE  \E v \in Workers : worker'[v] = <<j, gen'[j]>>
        BY DEF HandedOut, Started, Live
      <4>1. j \in active /\ Live(j) \notin readyq
        BY <2>1, <3>2 DEF Live
      <4>2. PICK v \in Workers : worker[v] = Live(j)
        BY <4>1 DEF WorkInv, HandedOut, Started
      <4>3. worker'[v] = Live(j)
        BY <1>1, <3>3, <3>4, <4>1, <4>2
      <4> QED
        BY <2>1, <4>3 DEF Live
    <3> QED
      BY <2>1, <3>2, <3>6, <3>7, <3>8, <3>9 DEF WorkInv, Live
  <2> QED
    BY <2>2, <2>3
<1>6. ASSUME WorkerExit(w) PROVE WorkInv'
  BY <1>6 DEF WorkerExit, admissionVars, WorkInv, NoLostWaiter, HandedOut,
              IsLive, Live, Started
<1> QED
  BY <1>2, <1>3, <1>4, <1>5, <1>6

LEMMA BeginCloseKeepsWork ==
  ASSUME IInv, WorkInv, BeginClose
  PROVE  WorkInv'
<1>1. /\ phase' = "closing" /\ phase = "started"
      /\ open' = open \ ({Live(j) : j \in pending}
                            \cup {<<j, termWait[j]>> : j \in Jobs})
      /\ current' = current \ pending
      /\ UNCHANGED <<gen, active, readyq, worker, exited, termWait>>
  BY DEF BeginClose
<1>2. /\ gen \in [Jobs -> Nat] /\ termWait \in [Jobs -> Nat]
      /\ open \subseteq Dispatch /\ current \subseteq Jobs
  BY DEF IInv, SchedTypeOK
<1>3. \A j \in current' : <<j, gen'[j]>> \in open'
  BY <1>1, <1>2 DEF WorkInv, Live
<1>4. NoLostWaiter'
  <2> SUFFICES ASSUME NEW d \in open'
               PROVE  \/ d[1] \in current' /\ d[2] = gen[d[1]]
                      \/ \E w \in Workers : worker[w] = d
    BY <1>1 DEF NoLostWaiter, IsLive
  <2>1. d \in open /\ d = <<d[1], d[2]>> /\ \A j \in pending : d # Live(j)
    BY <1>1, <1>2 DEF Dispatch
  <2>2. \/ d[1] \in current /\ d[2] = gen[d[1]]
        \/ \E w \in Workers : worker[w] = d
    BY <2>1 DEF WorkInv, NoLostWaiter, IsLive
  <2> QED
    BY <1>1, <2>1, <2>2 DEF Live
<1>5. HandedOut'
  BY <1>1 DEF WorkInv, HandedOut, Started, Live
<1> QED
  BY <1>1, <1>2, <1>3, <1>4, <1>5 DEF WorkInv, Live

LEMMA ForgetKeepsWork ==
  ASSUME Forget
  PROVE  WorkInv'
BY DEF Forget, WorkInv, NoLostWaiter, HandedOut

LEMMA DisjointUnion ==
  ASSUME NEW S, NEW T, IsFiniteSet(S), IsFiniteSet(T), S \cap T = {}
  PROVE  Cardinality(S \cup T) = Cardinality(S) + Cardinality(T)
<1>1. Cardinality(S \cup T)
        = Cardinality(S) + Cardinality(T) - Cardinality(S \cap T)
  BY FS_Union
<1>2. Cardinality(S \cap T) = 0
  BY FS_EmptySet
<1>3. Cardinality(S) \in Nat /\ Cardinality(T) \in Nat
  BY FS_CardinalityType
<1> QED
  BY <1>1, <1>2, <1>3

(* There is a worker for every reserved job that has not started: at most  *)
(* as many jobs are reserved as there are workers, the executing workers   *)
(* are as many as the started jobs at most, and no worker has left while a *)
(* reserved job is in the queue.                                           *)
LEMMA EnoughWorkers ==
  ASSUME IInv, WorkInv
  PROVE  Cardinality({j \in active : ~Started(j)})
           <= Cardinality({w \in Workers \ exited : ~Executing(w)})
<1> DEFINE U == {j \in active : ~Started(j)}
           S == active \ U
           E == {w \in Workers : Executing(w)}
           F == {w \in Workers \ exited : ~Executing(w)}
<1>1. /\ active \in SUBSET Jobs /\ IsFiniteSet(active)
      /\ Cardinality(active) \in Nat /\ Cardinality(active) <= Cardinality(Workers)
  BY FiniteJobs DEF IInv, SchedTypeOK, Admissible, MaxJobs
<1>2. /\ IsFiniteSet(U) /\ IsFiniteSet(S) /\ IsFiniteSet(E) /\ IsFiniteSet(F)
      /\ Cardinality(U) \in Nat /\ Cardinality(S) \in Nat
      /\ Cardinality(E) \in Nat /\ Cardinality(F) \in Nat
      /\ Cardinality(Workers) \in Nat
  <2>1. IsFiniteSet(Workers)
    BY SchedAssumption
  <2>2. U \in SUBSET active /\ S \in SUBSET active
    OBVIOUS
  <2>3. E \in SUBSET Workers /\ F \in SUBSET Workers
    OBVIOUS
  <2> HIDE DEF U, S, E, F
  <2>4. IsFiniteSet(U) /\ IsFiniteSet(S)
    BY <1>1, <2>2, FS_Subset
  <2>5. IsFiniteSet(E) /\ IsFiniteSet(F)
    BY <2>1, <2>3, FS_Subset
  <2> QED
    BY <2>1, <2>4, <2>5, FS_CardinalityType
<1>3. CASE exited # {}
  <2>1. U = {}
    BY <1>3 DEF WorkInv, HandedOut
  <2> QED
    BY <1>2, <2>1, FS_EmptySet
<1>4. CASE exited = {}
  <2>1. Cardinality(E) <= Cardinality(S)
    <3> DEFINE f == [w \in E |-> worker[w][1]]
    <3>1. \A w \in E : worker[w] = Live(worker[w][1]) /\ worker[w][1] \in S
      BY ExecutingIsActive DEF Started
    <3>2. f \in [E -> S]
      BY <3>1
    <3>3. ASSUME NEW v \in E, NEW w \in E, f[v] = f[w] PROVE v = w
      <4>1. worker[v] = worker[w]
        BY <3>1, <3>3
      <4>2. worker[v] # NoDispatch
        BY DEF Executing
      <4> QED
        BY <4>1, <4>2 DEF IInv, DispatchOK
    <3>4. f \in Injection(E, S)
      BY <3>2, <3>3 DEF Injection, IsInjective
    <3> HIDE DEF E, S, f
    <3> QED
      BY <3>4, <1>2, FS_Injection
  <2>2. Cardinality(active) = Cardinality(U) + Cardinality(S)
    <3>1. active = U \cup S /\ U \cap S = {}
      OBVIOUS
    <3> HIDE DEF U, S
    <3> QED
      BY <3>1, <1>2, DisjointUnion
  <2>3. Cardinality(Workers) = Cardinality(E) + Cardinality(F)
    <3>1. Workers = E \cup F /\ E \cap F = {}
      BY <1>4
    <3> HIDE DEF E, F
    <3> QED
      BY <3>1, <1>2, DisjointUnion
  <2> HIDE DEF U, S, E, F
  <2>4. Cardinality(U) <= Cardinality(F)
    BY <1>1, <1>2, <2>1, <2>2, <2>3
  <2> QED
    BY <2>4 DEF U, F
<1> QED
  BY <1>3, <1>4

LEMMA WorkInvSuffices ==
  ASSUME IInv, WorkInv
  PROVE  NoLostWork
<1>1. NoGhostDispatch
  BY DEF IInv, CurrentOK, WorkInv, NoGhostDispatch
<1>2. ReservedHasWorker
  BY EnoughWorkers DEF WorkInv, HandedOut, ReservedHasWorker
<1> QED
  BY <1>1, <1>2 DEF NoLostWork, WorkInv

LEMMA StepKeepsWork ==
  ASSUME IInv, WorkInv, [SchedNext]_schedVars
  PROVE  WorkInv'
<1>1. CASE Callers
  <2>1. CASE \E Q \in SUBSET Jobs : \E isReady \in SUBSET Q : Start(Q, isReady)
    BY <2>1, StartKeepsWork
  <2>2. CASE \E j \in Jobs : \E isReady \in SUBSET (pending \cup {j}) :
               Enqueue(j, isReady)
    BY <2>2, EnqueueKeepsWork
  <2>3. CASE \E S \in SUBSET current :
               \E quiet \in SUBSET {j \in S : Started(j)} :
                 \E isReady \in SUBSET pending : ReleaseJobs(S, quiet, isReady)
    <3>1. PICK S, quiet, isReady : /\ S \in SUBSET current
                                   /\ quiet \in SUBSET {j \in S : Started(j)}
                                   /\ ReleaseJobs(S, quiet, isReady)
      BY <2>3
    <3>2. /\ S \in SUBSET Jobs /\ readyq \in SUBSET readyq
          /\ \A j \in S \cap quiet : Started(j)
          /\ UNCHANGED <<kind, phase, gen, worker, exited>>
          /\ Release(S, quiet, readyq, isReady)
      BY <3>1 DEF ReleaseJobs, IInv, SchedTypeOK
    <3> QED
      BY <3>2, ReleaseKeepsWork
  <2>4. CASE \E j \in current : RequestCancel(j)
    BY <2>4, RequestCancelKeepsWork DEF IInv, SchedTypeOK
  <2>5. CASE BeginClose
    BY <2>5, BeginCloseKeepsWork
  <2> QED
    BY <1>1, <2>1, <2>2, <2>3, <2>4, <2>5 DEF Callers
<1>2. CASE WorkerSteps
  <2>1. CASE FinishClose
    BY <2>1, ForgetKeepsWork DEF FinishClose
  <2> QED
    BY <1>2, <2>1, WorkerKeepsWork DEF WorkerSteps
<1>3. CASE Crash
  BY <1>3, ForgetKeepsWork DEF Crash
<1>4. CASE UNCHANGED schedVars
  BY <1>4 DEF schedVars, WorkInv, NoLostWaiter, HandedOut, IsLive, Live, Started
<1> QED
  BY <1>1, <1>2, <1>3, <1>4 DEF SchedNext

(* No waiter is forgotten, no dispatch is a ghost, and every reserved job  *)
(* has a worker, through cancels, early completions, retries and close.    *)
THEOREM NothingIsLost == SchedSpec => []NoLostWork
<1>1. SchedInit => WorkInv
  BY DEF SchedInit, WorkInv, NoLostWaiter, HandedOut
<1>2. IInv /\ WorkInv /\ [SchedNext]_schedVars => WorkInv'
  BY StepKeepsWork
<1>3. IInv /\ WorkInv => NoLostWork
  BY WorkInvSuffices
<1> QED
  BY <1>1, <1>2, <1>3, InductiveInvariant, PTL DEF SchedSpec

-----------------------------------------------------------------------------
(***************************************************************************)
(* The loop of _schedule, which rescans _pending after each reservation,   *)
(* reserves what one pass in FIFO order reserves.                          *)
(*                                                                         *)
(* The invariant: what has been selected passes the test of Admitted, and  *)
(* a job that was passed over, because one behind it was selected, fails   *)
(* it.  The test looks only at what stands in front of a job, so later     *)
(* selections, which all stand behind, do not change it.                   *)
(***************************************************************************)

Others == Jobs \ held
InFront(j) == {i \in Others : i < j}
Selected == reserved \ held

(* The test of Admitted for one job, when the jobs S have been selected.   *)
Passes(j, S) ==
  /\ j \in ready
  /\ Reader(j) => ~BehindBarrier(j, InFront(j), ready)
  /\ Fits(j, held \cup (S \cap InFront(j)))

Typed ==
  /\ held \in SUBSET Jobs /\ ready \in SUBSET Others
  /\ waiting \in Seq(Jobs) /\ Ordered(waiting)
  /\ arriving \in Seq(Jobs) /\ Ordered(arriving)
  /\ held \subseteq reserved /\ reserved \in SUBSET Jobs

(* Every other job is selected, waits or arrives behind all of these.      *)
Queued ==
  /\ ToSet(waiting) \cap reserved = {}
  /\ Selected \cup ToSet(waiting) \cup ToSet(arriving) = Others
  /\ \A i \in Selected \cup ToSet(waiting), k \in ToSet(arriving) : i < k

LoopInv ==
  /\ Typed
  /\ Queued
  /\ \A j \in Selected : Passes(j, Selected)
  /\ \A k \in ToSet(waiting) : (\E j \in Selected : k < j) => ~Passes(k, Selected)

-----------------------------------------------------------------------------
(* Queues.                                                                 *)

LEMMA JobNumbers ==
  Jobs \subseteq Nat
BY SchedAssumption

LEMMA Least ==
  ASSUME NEW T \in SUBSET Nat, T # {}
  PROVE  \E x \in T : \A y \in T : x <= y
<1>1. PICK x \in T : \A y \in T : ~(<<y, x>> \in OpToRel(<, Nat))
  BY NatLessThanWellFounded, WFMin
<1>2. ASSUME NEW y \in T PROVE x <= y
  <2>1. ~(<<y, x>> \in {ss \in Nat \X Nat : ss[1] < ss[2]})
    BY <1>1 DEF OpToRel
  <2>2. x \in Nat /\ y \in Nat /\ <<y, x>> \in Nat \X Nat
    OBVIOUS
  <2>3. ~(y < x)
    BY <2>1, <2>2
  <2> QED
    BY <2>2, <2>3
<1> QED
  BY <1>2

(* A queue in order that holds as many jobs as S holds all of them.        *)
LEMMA QueueHoldsAll ==
  ASSUME NEW S \in SUBSET Jobs, NEW s \in Queues(S)
  PROVE  s \in Seq(Jobs) /\ Ordered(s) /\ ToSet(s) = S
<1>1. IsFiniteSet(S) /\ Cardinality(S) \in Nat
  BY FiniteJobs
<1>2. s \in [1..Cardinality(S) -> S] /\ Ordered(s)
  BY DEF Queues
<1>3. s \in Seq(Jobs)
  <2>1. s \in [1..Cardinality(S) -> Jobs]
    BY <1>2
  <2> QED
    BY <1>1, <2>1, SeqDef
<1>4. s \in Injection(1..Cardinality(S), S)
  <2>1. ASSUME NEW i \in 1..Cardinality(S), NEW k \in 1..Cardinality(S), s[i] = s[k]
        PROVE  i = k
    <3>1. s[i] \in Nat /\ s[k] \in Nat
      BY <1>2, JobNumbers
    <3>2. (i < k => s[i] < s[k]) /\ (k < i => s[k] < s[i])
      BY <1>2 DEF Ordered
    <3>3. i \in Nat /\ k \in Nat
      BY <1>1
    <3> QED
      BY <2>1, <3>1, <3>2, <3>3
  <2> QED
    BY <1>2, <2>1 DEF Injection, IsInjective
<1>5. s \in Surjection(1..Cardinality(S), S)
  <2>1. Cardinality(1..Cardinality(S)) = Cardinality(S)
    BY <1>1, FS_Interval
  <2> QED
    BY <1>1, <1>4, <2>1, FS_Injection
<1> QED
  BY <1>2, <1>3, <1>5 DEF Surjection, ToSet

(* Positions in a queue are as the numbers of the jobs.                    *)
LEMMA Positions ==
  ASSUME waiting \in Seq(Jobs), Ordered(waiting), NEW j \in ToSet(waiting)
  PROVE  /\ Position(j) \in DOMAIN waiting /\ waiting[Position(j)] = j /\ Position(j) \in Nat
         /\ \A i \in ToSet(waiting) : /\ Position(i) < Position(j) <=> i < j
                                      /\ Position(i) <= Position(j) <=> i <= j
<1>1. ASSUME NEW i \in ToSet(waiting)
      PROVE  Position(i) \in DOMAIN waiting /\ waiting[Position(i)] = i
  <2>1. \E k \in DOMAIN waiting : waiting[k] = i
    BY DEF ToSet
  <2> QED
    BY <2>1 DEF Position
<1>2. DOMAIN waiting \subseteq Nat
  BY LenProperties
<1>3. \A k \in DOMAIN waiting : waiting[k] \in Nat
  BY JobNumbers, LenProperties
<1>4. ASSUME NEW i \in ToSet(waiting)
      PROVE  /\ Position(i) < Position(j) <=> i < j
             /\ Position(i) <= Position(j) <=> i <= j
  <2>1. /\ Position(i) \in Nat /\ Position(j) \in Nat /\ i \in Nat /\ j \in Nat
        /\ Position(i) \in DOMAIN waiting /\ Position(j) \in DOMAIN waiting
        /\ waiting[Position(i)] = i /\ waiting[Position(j)] = j
    BY <1>1, <1>2, <1>3
  <2>2. (Position(i) < Position(j) => i < j) /\ (Position(j) < Position(i) => j < i)
    BY <2>1 DEF Ordered
  <2>3. Position(i) = Position(j) => i = j
    BY <2>1
  <2> QED
    BY <2>1, <2>2, <2>3
<1> QED
  BY <1>1, <1>2, <1>4

LEMMA Removed ==
  ASSUME NEW s \in Seq(Jobs), Ordered(s), NEW p \in DOMAIN s
  PROVE  /\ RemoveAt(s, p) \in Seq(Jobs) /\ Ordered(RemoveAt(s, p))
         /\ ToSet(RemoveAt(s, p)) = ToSet(s) \ {s[p]}
<1> DEFINE a == SubSeq(s, 1, p - 1)
           b == SubSeq(s, p + 1, Len(s))
           t == RemoveAt(s, p)
<1>1. Len(s) \in Nat /\ DOMAIN s = 1..Len(s) /\ p \in 1..Len(s) /\ s \in [1..Len(s) -> Jobs]
  BY LenProperties
<1>2. a \in Seq(Jobs) /\ Len(a) = p - 1 /\ \A i \in 1..p - 1 : a[i] = s[i]
  <2>1. \A i \in 1..p - 1 : s[i] \in Jobs
    BY <1>1
  <2>2. /\ SubSeq(s, 1, p - 1) \in Seq(Jobs)
        /\ Len(SubSeq(s, 1, p - 1)) = IF 1 <= p - 1 THEN (p - 1) - 1 + 1 ELSE 0
        /\ \A i \in 1..(p - 1) - 1 + 1 : SubSeq(s, 1, p - 1)[i] = s[1 + i - 1]
    <3>1. 1 \in Int /\ p - 1 \in Int
      BY <1>1
    <3> QED
      BY <2>1, <3>1, SubSeqProperties
  <2>3. (p - 1) - 1 + 1 = p - 1 /\ (~(1 <= p - 1) => p - 1 = 0) /\ \A i \in 1..p - 1 : 1 + i - 1 = i
    BY <1>1
  <2> QED
    BY <2>2, <2>3
<1>3. b \in Seq(Jobs) /\ Len(b) = Len(s) - p /\ \A i \in 1..Len(s) - p : b[i] = s[p + i]
  <2>1. \A i \in p + 1..Len(s) : s[i] \in Jobs
    BY <1>1
  <2>2. /\ SubSeq(s, p + 1, Len(s)) \in Seq(Jobs)
        /\ Len(SubSeq(s, p + 1, Len(s))) = IF p + 1 <= Len(s) THEN Len(s) - (p + 1) + 1 ELSE 0
        /\ \A i \in 1..Len(s) - (p + 1) + 1 : SubSeq(s, p + 1, Len(s))[i] = s[(p + 1) + i - 1]
    <3>1. p + 1 \in Int /\ Len(s) \in Int
      BY <1>1
    <3> QED
      BY <2>1, <3>1, SubSeqProperties
  <2>3. /\ Len(s) - (p + 1) + 1 = Len(s) - p /\ (~(p + 1 <= Len(s)) => Len(s) - p = 0)
        /\ \A i \in 1..Len(s) - p : (p + 1) + i - 1 = p + i
    BY <1>1
  <2> QED
    BY <2>2, <2>3
<1> HIDE DEF a, b
<1>4. t = a \o b
  BY DEF RemoveAt, a, b
<1>5. /\ t \in Seq(Jobs) /\ Len(t) = Len(s) - 1
      /\ \A i \in 1..Len(s) - 1 : t[i] = IF i < p THEN s[i] ELSE s[i + 1]
  <2>1. a \o b \in Seq(Jobs) /\ Len(a \o b) = Len(a) + Len(b)
    BY <1>2, <1>3, ConcatProperties
  <2>2. ASSUME NEW i \in 1..Len(s) - 1
        PROVE  (a \o b)[i] = IF i < p THEN s[i] ELSE s[i + 1]
    <3>1. CASE i < p
      <4>1. i \in 1..Len(a)
        BY <1>1, <1>2, <3>1
      <4>2. (a \o b)[i] = a[i]
        BY <1>2, <1>3, <4>1
      <4> QED
        BY <1>1, <1>2, <3>1, <4>1, <4>2
    <3>2. CASE ~(i < p)
      <4>1. i - Len(a) \in 1..Len(b) /\ p + (i - Len(a)) = i + 1 /\ i > Len(a)
        BY <1>1, <1>2, <1>3, <3>2
      <4>2. (a \o b)[i] = b[i - Len(a)]
        BY <1>1, <1>2, <1>3, <4>1
      <4> QED
        BY <1>1, <1>3, <3>2, <4>1, <4>2
    <3> QED
      BY <3>1, <3>2
  <2>3. Len(a \o b) = Len(s) - 1
    BY <1>1, <1>2, <1>3, <2>1
  <2> QED
    BY <1>4, <2>1, <2>2, <2>3
<1> HIDE DEF t
<1>6. DOMAIN t = 1..Len(s) - 1
  BY <1>5, LenProperties
<1>7. Ordered(t)
  <2> SUFFICES ASSUME NEW i \in DOMAIN t, NEW k \in DOMAIN t, i < k
               PROVE  t[i] < t[k]
    BY DEF Ordered
  <2>1. i \in 1..Len(s) /\ i + 1 \in 1..Len(s) /\ k \in 1..Len(s) /\ k + 1 \in 1..Len(s)
    BY <1>1, <1>6
  <2>2. \A x, y \in 1..Len(s) : x < y => s[x] < s[y]
    BY <1>1 DEF Ordered
  <2>3. t[i] = (IF i < p THEN s[i] ELSE s[i + 1]) /\ t[k] = (IF k < p THEN s[k] ELSE s[k + 1])
    BY <1>5, <1>6
  <2>4. CASE i < p /\ k < p
    BY <2>1, <2>2, <2>3, <2>4
  <2>5. CASE i < p /\ ~(k < p)
    BY <1>1, <2>1, <2>2, <2>3, <2>5
  <2>6. CASE ~(i < p)
    BY <1>1, <2>1, <2>2, <2>3, <2>6
  <2> QED
    BY <2>4, <2>5, <2>6
<1>8. ToSet(t) = ToSet(s) \ {s[p]}
  <2>1. ASSUME NEW i \in DOMAIN t PROVE t[i] \in ToSet(s) \ {s[p]}
    <3>1. PICK x \in DOMAIN s : x # p /\ t[i] = s[x]
      <4>1. CASE i < p
        BY <1>1, <1>5, <1>6, <4>1
      <4>2. CASE ~(i < p)
        BY <1>1, <1>5, <1>6, <4>2
      <4> QED
        BY <4>1, <4>2
    <3>2. s[x] # s[p]
      <4>1. (x < p => s[x] < s[p]) /\ (p < x => s[p] < s[x])
        BY DEF Ordered
      <4>2. x \in 1..Len(s) /\ p \in 1..Len(s)
        BY <1>1
      <4>3. s[x] \in Jobs /\ s[p] \in Jobs
        BY <1>1, <4>2
      <4>4. s[x] \in Nat /\ s[p] \in Nat /\ x \in Nat /\ p \in Nat
        <5>1. s[x] \in Nat /\ s[p] \in Nat
          BY <4>3, JobNumbers
        <5> QED
          BY <1>1, <4>2, <5>1
      <4> QED
        BY <3>1, <4>1, <4>4
    <3> QED
      BY <3>1, <3>2 DEF ToSet
  <2>2. ASSUME NEW x \in DOMAIN s, s[x] # s[p] PROVE s[x] \in ToSet(t)
    <3>1. CASE x < p
      <4>1. x \in DOMAIN t /\ t[x] = s[x]
        BY <1>1, <1>5, <1>6, <3>1
      <4> QED
        BY <4>1 DEF ToSet
    <3>2. CASE x > p
      <4>1. x - 1 \in DOMAIN t /\ t[x - 1] = s[x]
        BY <1>1, <1>5, <1>6, <3>2
      <4> QED
        BY <4>1 DEF ToSet
    <3>3. x # p /\ x \in Nat /\ p \in Nat
      BY <1>1, <2>2
    <3> QED
      BY <3>1, <3>2, <3>3
  <2> QED
    BY <2>1, <2>2 DEF ToSet
<1> QED
  BY <1>5, <1>7, <1>8 DEF t

LEMMA Appended ==
  ASSUME NEW s \in Seq(Jobs), Ordered(s), NEW j \in Jobs, \A i \in ToSet(s) : i < j
  PROVE  /\ Append(s, j) \in Seq(Jobs) /\ Ordered(Append(s, j))
         /\ ToSet(Append(s, j)) = ToSet(s) \cup {j}
<1> DEFINE t == Append(s, j)
<1>1. /\ t \in Seq(Jobs) /\ Len(t) = Len(s) + 1
      /\ \A i \in 1..Len(s) : t[i] = s[i]
      /\ t[Len(s) + 1] = j
  BY AppendProperties
<1> HIDE DEF t
<1>2. Len(s) \in Nat /\ DOMAIN s = 1..Len(s) /\ DOMAIN t = 1..Len(s) + 1
  BY <1>1, LenProperties
<1>3. ToSet(t) = ToSet(s) \cup {j}
  BY <1>1, <1>2 DEF ToSet
<1>4. Ordered(t)
  <2> SUFFICES ASSUME NEW i \in DOMAIN t, NEW k \in DOMAIN t, i < k
               PROVE  t[i] < t[k]
    BY DEF Ordered
  <2>1. i \in 1..Len(s) /\ t[i] = s[i] /\ s[i] \in ToSet(s)
    BY <1>1, <1>2 DEF ToSet
  <2>2. CASE k = Len(s) + 1
    BY <1>1, <2>1, <2>2
  <2>3. CASE k # Len(s) + 1
    <3>1. k \in 1..Len(s) /\ t[k] = s[k]
      BY <1>1, <1>2, <2>3
    <3> QED
      BY <1>2, <2>1, <3>1 DEF Ordered
  <2> QED
    BY <2>2, <2>3
<1> QED
  BY <1>1, <1>3, <1>4 DEF t

LEMMA FirstArrives ==
  ASSUME NEW s \in Seq(Jobs), Ordered(s), s # <<>>
  PROVE  /\ Head(s) \in Jobs /\ Tail(s) \in Seq(Jobs) /\ Ordered(Tail(s))
         /\ ToSet(s) = {Head(s)} \cup ToSet(Tail(s))
         /\ \A i \in ToSet(Tail(s)) : Head(s) < i
<1> DEFINE t == Tail(s)
<1>1. /\ t \in Seq(Jobs) /\ Len(t) = Len(s) - 1 /\ \A i \in 1..Len(s) - 1 : t[i] = s[i + 1]
      /\ Head(s) \in Jobs /\ Head(s) = s[1]
  <2>1. /\ Head(s) \in Jobs
        /\ Tail(s) \in Seq(Jobs)
        /\ Len(Tail(s)) = Len(s)-1
        /\ \A i \in 1 .. Len(Tail(s)) : Tail(s)[i] = s[i+1]
    BY HeadTailProperties
  <2>2. Head(s) = s[1]
    OBVIOUS
  <2> QED
    BY <2>1, <2>2
<1> HIDE DEF t
<1>2. Len(s) \in Nat \ {0} /\ DOMAIN s = 1..Len(s) /\ DOMAIN t = 1..Len(s) - 1
  BY <1>1, LenProperties, EmptySeq
<1>3. \A x, y \in 1..Len(s) : x < y => s[x] < s[y]
  BY <1>2 DEF Ordered
<1>4. \A i \in DOMAIN t : i + 1 \in 1..Len(s) /\ t[i] = s[i + 1] /\ 1 < i + 1 /\ i \in Nat
  BY <1>1, <1>2
<1>5. Ordered(t)
  <2> SUFFICES ASSUME NEW i \in DOMAIN t, NEW k \in DOMAIN t, i < k
               PROVE  t[i] < t[k]
    BY DEF Ordered
  <2>1. i + 1 < k + 1
    BY <1>4
  <2> QED
    BY <1>3, <1>4, <2>1
<1>6. \A i \in ToSet(t) : Head(s) < i
  <2>1. 1 \in 1..Len(s)
    BY <1>2
  <2> QED
    BY <1>1, <1>3, <1>4, <2>1 DEF ToSet
<1>7. ToSet(s) = {Head(s)} \cup ToSet(t)
  <2>1. ASSUME NEW x \in 1..Len(s) PROVE s[x] \in {Head(s)} \cup ToSet(t)
    <3>1. CASE x = 1
      BY <1>1, <3>1
    <3>2. CASE x # 1
      <4>1. x - 1 \in DOMAIN t /\ (x - 1) + 1 = x
        BY <1>2, <3>2
      <4>2. t[x - 1] = s[x]
        BY <1>4, <4>1
      <4> QED
        BY <4>1, <4>2 DEF ToSet
    <3> QED
      BY <3>1, <3>2
  <2>2. Head(s) \in ToSet(s)
    BY <1>1, <1>2 DEF ToSet
  <2>3. ToSet(t) \subseteq ToSet(s)
    BY <1>2, <1>4 DEF ToSet
  <2> QED
    BY <1>2, <2>1, <2>2, <2>3 DEF ToSet
<1> QED
  BY <1>1, <1>5, <1>6, <1>7 DEF t

-----------------------------------------------------------------------------
(* One iteration.                                                          *)

(* The conditions of the inner loop on the reserved jobs are those of Fits.*)
LEMMA FitsReserved ==
  ASSUME reserved \in SUBSET Jobs, NEW j \in Jobs
  PROVE  Fits(j, reserved) <=>
           LET beside == {i \in reserved : SameProject(i, j)} IN
           /\ Cardinality(reserved) < MaxJobs
           /\ \A i \in beside : kind[i].scope # kind[j].scope
           /\ ~Reader(j) => beside = {}
           /\ Reader(j) => /\ \A i \in beside : Reader(i)
                           /\ Cardinality({i \in beside : Reader(i)}) < MaxProjectReaders
<1> DEFINE beside == {i \in reserved : SameProject(i, j)}
<1>1. {i \in beside : Reader(i)} = ReadersWith(j, reserved)
  BY DEF ReadersWith
<1>2. (\A i \in reserved : Compatible(i, j)) <=>
        /\ \A i \in beside : kind[i].scope # kind[j].scope
        /\ ~Reader(j) => beside = {}
        /\ Reader(j) => \A i \in beside : Reader(i)
  BY DEF Compatible, SameScope
<1> HIDE DEF beside
<1> QED
  BY <1>1, <1>2 DEF Fits, beside

LEMMA Standing ==
  ASSUME Typed, Queued
  PROVE  /\ ToSet(waiting) \subseteq Jobs /\ ToSet(waiting) \subseteq Others
         /\ Selected \subseteq Others /\ Others \subseteq Jobs
         /\ reserved = held \cup Selected
         /\ \A j \in ToSet(waiting) : InFront(j) \subseteq Selected \cup ToSet(waiting)
<1>1. ToSet(waiting) \subseteq Others /\ Selected \subseteq Others /\ Others \subseteq Jobs
  BY DEF Queued, Others
<1>2. reserved = held \cup Selected
  BY DEF Typed, Selected
<1>3. ASSUME NEW j \in ToSet(waiting), NEW i \in InFront(j)
      PROVE  i \in Selected \cup ToSet(waiting)
  <2>1. i < j /\ i \in Others /\ i \in Nat /\ j \in Nat
    BY <1>1, JobNumbers DEF InFront
  <2>2. i \notin ToSet(arriving)
    BY <2>1 DEF Queued
  <2> QED
    BY <2>1, <2>2 DEF Queued
<1> QED
  BY <1>1, <1>2, <1>3

(* An eligible job passes the test: a ready exclusive job in front of it   *)
(* would be waiting, and a barrier, or be reserved, and exclude it.        *)
LEMMA EligiblePasses ==
  ASSUME Typed, Queued, NEW j \in Candidates
  PROVE  Passes(j, Selected)
<1>1. j \in ToSet(waiting) /\ Eligible(j) /\ Cardinality(reserved) < MaxJobs
  BY DEF Candidates
<1>2. j \in Jobs /\ reserved \in SUBSET Jobs /\ j \in ready
  BY <1>1, Standing DEF Typed, Eligible
<1>3. Fits(j, reserved)
  BY <1>1, <1>2, FitsReserved DEF Eligible
<1>4. Fits(j, held \cup (Selected \cap InFront(j)))
  <2>1. held \cup (Selected \cap InFront(j)) \in SUBSET reserved
    BY Standing
  <2> QED
    BY <1>2, <1>3, <2>1, FitsFewer
<1>5. ASSUME Reader(j), NEW i \in InFront(j) \cap ready, ~Reader(i), SameProject(i, j)
      PROVE  FALSE
  <2>1. CASE i \in Selected
    BY <1>3, <1>5, <2>1 DEF Selected, Fits, Compatible
  <2>2. CASE i \in ToSet(waiting)
    <3> DEFINE T == {Position(k) : k \in {x \in ready \cap ToSet(waiting) :
                                            ~Reader(x) /\ kind[x].project = kind[j].project}}
    <3>1. /\ waiting \in Seq(Jobs) /\ Ordered(waiting)
      BY DEF Typed
    <3>2. T \in SUBSET Nat /\ T # {}
      <4>1. Position(i) \in T
        BY <1>5, <2>2 DEF SameProject
      <4>2. \A k \in ToSet(waiting) : Position(k) \in Nat
        BY <3>1, Positions
      <4> QED
        BY <4>1, <4>2
    <3>3. PICK p \in T : \A y \in T : p <= y
      <4> HIDE DEF T
      <4> QED
        BY <3>2, Least
    <3>4. PICK b \in ready \cap ToSet(waiting) :
            ~Reader(b) /\ kind[b].project = kind[j].project /\ p = Position(b)
      OBVIOUS
    <3>5. b \in Barriers(kind[j].project)
      BY <3>3, <3>4 DEF Barriers
    <3>6. Position(b) <= Position(i)
      BY <1>5, <2>2, <3>3, <3>4 DEF SameProject
    <3>7. Position(i) < Position(j) /\ Position(i) \in Nat /\ Position(j) \in Nat /\ Position(b) \in Nat
      <4>1. i < j
        BY <1>5 DEF InFront
      <4> QED
        BY <1>1, <2>2, <3>1, <3>4, <4>1, Positions
    <3>8. Position(j) > Position(b)
      BY <3>6, <3>7
    <3> QED
      BY <1>1, <1>5, <3>5, <3>8 DEF Eligible
  <2> QED
    BY <1>1, <2>1, <2>2, Standing
<1> QED
  BY <1>2, <1>4, <1>5 DEF Passes, BehindBarrier

(* A waiting job with nothing selected behind it is a candidate if it      *)
(* passes.                                                                 *)
LEMMA PassesEligible ==
  ASSUME Typed, Queued, NEW k \in ToSet(waiting), ~\E j \in Selected : k < j,
         Passes(k, Selected)
  PROVE  k \in Candidates
<1>1. k \in Jobs /\ reserved \in SUBSET Jobs /\ k \notin reserved
  BY Standing DEF Typed, Queued
<1>2. held \cup (Selected \cap InFront(k)) = reserved
  <2>1. ASSUME NEW i \in Selected PROVE i \in InFront(k)
    <3>1. i \in Others /\ i \in Nat /\ k \in Nat /\ i # k
      BY <1>1, Standing, JobNumbers DEF Selected
    <3>2. ~(k < i)
      OBVIOUS
    <3> QED
      BY <3>1, <3>2 DEF InFront
  <2> QED
    BY <2>1, Standing
<1>3. Fits(k, reserved) /\ k \in ready /\ (Reader(k) => ~BehindBarrier(k, InFront(k), ready))
  BY <1>2 DEF Passes
<1>4. ASSUME Reader(k), NEW b \in Barriers(kind[k].project), Position(k) > Position(b)
      PROVE  FALSE
  <2>1. b \in ready \cap ToSet(waiting) /\ ~Reader(b) /\ kind[b].project = kind[k].project
    BY DEF Barriers
  <2>2. waiting \in Seq(Jobs) /\ Ordered(waiting)
    BY DEF Typed
  <2>3. Position(b) < Position(k)
    <3>1. Position(b) \in Nat /\ Position(k) \in Nat
      BY <2>1, <2>2, Positions
    <3> QED
      BY <1>4, <3>1
  <2>4. b < k
    BY <2>1, <2>2, <2>3, Positions
  <2>5. b \in InFront(k)
    BY <2>1, <2>4, Standing DEF InFront
  <2> QED
    BY <1>3, <1>4, <2>1, <2>5 DEF BehindBarrier, SameProject
<1>5. Cardinality(reserved) < MaxJobs /\ Eligible(k)
  BY <1>1, <1>3, <1>4, FitsReserved DEF Eligible
<1> QED
  BY <1>5 DEF Candidates

(* The test of a job looks only at what stands in front of it.             *)
LEMMA PassesFront ==
  ASSUME NEW k, NEW S, NEW T, S \cap InFront(k) = T \cap InFront(k)
  PROVE  Passes(k, S) <=> Passes(k, T)
BY DEF Passes

LEMMA PassesSame ==
  ASSUME UNCHANGED <<kind, ready, held>>, NEW T, Selected' = T, NEW k
  PROVE  Passes(k, Selected)' <=> Passes(k, T)
BY DEF Passes, BehindBarrier, InFront, Others, Fits, Compatible, SameScope, SameProject, Reader,
       ReadersWith

(* A selection stands behind all others that were selected, and in front   *)
(* of it nothing passes the test.                                          *)
LEMMA SelectKeepsInv ==
  ASSUME LoopInv, NEW j \in Jobs, Select(j)
  PROVE  LoopInv'
<1> DEFINE now == Selected \cup {j}
<1>1. /\ j \in Candidates /\ \A i \in Candidates : Position(j) <= Position(i)
      /\ waiting' = RemoveAt(waiting, Position(j)) /\ reserved' = reserved \cup {j}
      /\ UNCHANGED <<kind, ready, held, arriving>>
  BY DEF Select
<1>2. Typed /\ Queued /\ j \in ToSet(waiting)
  BY <1>1 DEF LoopInv, Candidates
<1>3. /\ j \notin held /\ Selected' = now
  BY <1>1, <1>2, Standing DEF Selected, Others
<1>4. /\ waiting' \in Seq(Jobs) /\ Ordered(waiting') /\ ToSet(waiting') = ToSet(waiting) \ {j}
  <2>1. /\ waiting \in Seq(Jobs) /\ Ordered(waiting)
        /\ Position(j) \in DOMAIN waiting /\ waiting[Position(j)] = j
    BY <1>2, Positions DEF Typed
  <2> QED
    BY <1>1, <2>1, Removed
<1>5. Typed'
  BY <1>1, <1>2, <1>4 DEF Typed, Others, Ordered
<1>6. Queued'
  <2>1. ToSet(waiting') \cap reserved' = {}
    BY <1>1, <1>2, <1>4 DEF Queued
  <2>2. now \cup ToSet(waiting') \cup ToSet(arriving) = Others
    BY <1>2, <1>4 DEF Queued
  <2>3. \A i \in now \cup ToSet(waiting'), k \in ToSet(arriving) : i < k
    BY <1>2, <1>4 DEF Queued
  <2> HIDE DEF now
  <2> QED
    BY <1>1, <1>3, <2>1, <2>2, <2>3 DEF Queued, Others, ToSet
<1>7. Passes(j, Selected)
  BY <1>1, <1>2, EligiblePasses
<1>8. \A i \in Selected : i < j
  <2> SUFFICES ASSUME NEW i \in Selected, ~(i < j) PROVE FALSE
    OBVIOUS
  <2>1. i \in Nat /\ j \in Nat /\ i # j
    BY <1>2, Standing, JobNumbers DEF Queued, Selected
  <2>2. j < i
    BY <2>1
  <2> QED
    BY <1>2, <1>7, <2>2 DEF LoopInv
<1>9. \A k \in now : Passes(k, now)
  <2>1. ASSUME NEW k \in now PROVE now \cap InFront(k) = Selected \cap InFront(k)
    <3>1. j \notin InFront(k)
      <4>1. ~(j < k)
        <5>1. k \in Nat /\ j \in Nat
          BY <1>2, Standing, JobNumbers
        <5>2. k = j \/ k < j
          BY <1>8
        <5> QED
          BY <5>1, <5>2
      <4> QED
        BY <4>1 DEF InFront
    <3> QED
      BY <3>1
  <2>2. \A k \in now : Passes(k, Selected)
    BY <1>7 DEF LoopInv
  <2> HIDE DEF now
  <2> QED
    BY <2>1, <2>2, PassesFront
<1>10. ASSUME NEW k \in ToSet(waiting), k # j, NEW i \in now, k < i
       PROVE  ~Passes(k, now)
  <2>1. k \in Nat /\ j \in Nat /\ i \in Nat
    BY <1>2, Standing, JobNumbers
  <2>2. k < j
    <3>1. i = j \/ i < j
      BY <1>8
    <3> QED
      BY <1>10, <2>1, <3>1
  <2>3. ~Passes(k, Selected)
    <3>1. CASE \E x \in Selected : k < x
      BY <3>1 DEF LoopInv
    <3>2. CASE ~\E x \in Selected : k < x
      <4>1. k \notin Candidates
        <5>1. ~(Position(j) <= Position(k))
          <6>1. waiting \in Seq(Jobs) /\ Ordered(waiting)
            BY <1>2 DEF Typed
          <6>2. /\ Position(j) \in Nat /\ Position(k) \in Nat
                /\ Position(k) < Position(j)
            BY <1>2, <2>2, <6>1, Positions
          <6> QED
            BY <6>2
        <5> QED
          BY <1>1, <5>1
      <4> QED
        BY <1>2, <3>2, <4>1, PassesEligible
    <3> QED
      BY <3>1, <3>2
  <2>4. j \notin InFront(k)
    BY <2>1, <2>2 DEF InFront
  <2>5. now \cap InFront(k) = Selected \cap InFront(k)
    BY <2>4
  <2> HIDE DEF now
  <2> QED
    BY <2>3, <2>5, PassesFront
<1> HIDE DEF now
<1>11. \A k : Passes(k, Selected)' <=> Passes(k, now)
  BY <1>1, <1>3, PassesSame
<1>12. \A k \in Selected' : Passes(k, Selected)'
  BY <1>3, <1>9, <1>11
<1>13. \A k \in ToSet(waiting') : (\E i \in Selected' : k < i) => ~Passes(k, Selected)'
  BY <1>3, <1>4, <1>10, <1>11
<1> QED
  BY <1>5, <1>6, <1>12, <1>13 DEF LoopInv, ToSet

(* A job that arrives stands behind all the others.                        *)
LEMMA EnqueueKeepsInv ==
  ASSUME LoopInv, EnqueueNext
  PROVE  LoopInv'
<1> DEFINE j == Head(arriving)
<1>1. /\ arriving # <<>> /\ waiting' = Append(waiting, j) /\ arriving' = Tail(arriving)
      /\ UNCHANGED <<kind, ready, held, reserved>>
  BY DEF EnqueueNext
<1>2. Typed /\ Queued
  BY DEF LoopInv
<1>3. /\ j \in Jobs /\ arriving' \in Seq(Jobs) /\ Ordered(arriving')
      /\ ToSet(arriving) = {j} \cup ToSet(arriving')
      /\ \A i \in ToSet(arriving') : j < i
  <2>1. arriving \in Seq(Jobs) /\ Ordered(arriving)
    BY <1>2 DEF Typed
  <2> QED
    BY <1>1, <2>1, FirstArrives
<1> HIDE DEF j
<1>4. \A i \in Selected \cup ToSet(waiting) : i < j
  BY <1>2, <1>3 DEF Queued
<1>5. waiting' \in Seq(Jobs) /\ Ordered(waiting') /\ ToSet(waiting') = ToSet(waiting) \cup {j}
  <2>1. waiting \in Seq(Jobs) /\ Ordered(waiting)
    BY <1>2 DEF Typed
  <2> QED
    BY <1>1, <1>3, <1>4, <2>1, Appended
<1>6. Selected' = Selected /\ Others' = Others
  BY <1>1 DEF Selected, Others
<1>7. Typed'
  BY <1>1, <1>2, <1>3, <1>5 DEF Typed, Others, Ordered
<1>8. j \notin reserved
  <2>1. j \in Others
    BY <1>2, <1>3 DEF Queued
  <2>2. j \notin Selected
    <3>1. j \in Nat
      BY <1>3, JobNumbers
    <3> QED
      BY <1>4, <3>1
  <2> QED
    BY <2>1, <2>2 DEF Others, Selected
<1>9. Queued'
  <2>1. ToSet(waiting') \cap reserved = {}
    BY <1>2, <1>5, <1>8 DEF Queued
  <2>2. Selected \cup ToSet(waiting') \cup ToSet(arriving') = Others
    BY <1>2, <1>3, <1>5 DEF Queued
  <2>3. \A i \in Selected \cup ToSet(waiting'), k \in ToSet(arriving') : i < k
    BY <1>2, <1>3, <1>5 DEF Queued
  <2> QED
    BY <1>1, <1>6, <2>1, <2>2, <2>3 DEF Queued, ToSet
<1>10. \A k : Passes(k, Selected)' <=> Passes(k, Selected)
  BY <1>1, <1>6, PassesSame
<1>11. ~\E i \in Selected : j < i
  <2> SUFFICES ASSUME NEW i \in Selected, j < i PROVE FALSE
    OBVIOUS
  <2>1. i \in Nat /\ j \in Nat /\ i < j
    BY <1>2, <1>3, <1>4, Standing, JobNumbers
  <2> QED
    BY <2>1
<1>12. \A k \in ToSet(waiting') : (\E i \in Selected : k < i) => ~Passes(k, Selected)
  BY <1>5, <1>11 DEF LoopInv
<1> QED
  BY <1>6, <1>7, <1>9, <1>10, <1>12 DEF LoopInv, ToSet

LEMMA LoopStarts ==
  ASSUME LoopInit
  PROVE  LoopInv
<1>1. /\ held \in SUBSET Jobs /\ ready \in SUBSET Others /\ reserved = held
  BY DEF LoopInit, Others
<1>2. PICK n \in Jobs \cup {0} :
        /\ waiting \in Queues({j \in Jobs \ held : j <= n})
        /\ arriving \in Queues({j \in Jobs \ held : j > n})
  BY DEF LoopInit
<1>3. /\ waiting \in Seq(Jobs) /\ Ordered(waiting) /\ ToSet(waiting) = {j \in Jobs \ held : j <= n}
  BY <1>2, QueueHoldsAll
<1>4. /\ arriving \in Seq(Jobs) /\ Ordered(arriving) /\ ToSet(arriving) = {j \in Jobs \ held : j > n}
  BY <1>2, QueueHoldsAll
<1>5. Selected = {}
  BY <1>1 DEF Selected
<1>6. n \in Nat
  BY JobNumbers
<1>7. Typed
  BY <1>1, <1>3, <1>4 DEF Typed
<1>8. Queued
  <2>1. \A i, k \in Jobs : i <= n /\ k > n => i < k
    BY <1>6, JobNumbers
  <2>2. \A i \in Jobs : i <= n \/ i > n
    BY <1>6, JobNumbers
  <2> QED
    BY <1>1, <1>3, <1>4, <1>5, <2>1, <2>2 DEF Queued, Others
<1> QED
  BY <1>5, <1>7, <1>8 DEF LoopInv

-----------------------------------------------------------------------------
(* The selections and the jobs that were passed over, with the reason, in  *)
(* every state of the loop.                                                *)
THEOREM LoopInvariant == LoopSpec => []LoopInv
<1>1. LoopInit => LoopInv
  BY LoopStarts
<1>2. LoopInv /\ [LoopNext]_loopVars => LoopInv'
  <2>1. ASSUME LoopInv, UNCHANGED loopVars PROVE LoopInv'
    <3>1. UNCHANGED <<kind, ready, held, arriving, waiting, reserved>>
      BY <2>1 DEF loopVars
    <3>2. Selected' = Selected /\ Others' = Others
      BY <3>1 DEF Selected, Others
    <3>3. \A k : Passes(k, Selected)' <=> Passes(k, Selected)
      BY <3>1, <3>2, PassesSame
    <3>4. Typed' /\ Queued'
      BY <2>1, <3>1, <3>2 DEF LoopInv, Typed, Queued, Ordered, ToSet
    <3> QED
      BY <2>1, <3>1, <3>2, <3>3, <3>4 DEF LoopInv, ToSet
  <2> QED
    BY <2>1, SelectKeepsInv, EnqueueKeepsInv DEF LoopNext
<1> QED
  BY <1>1, <1>2, PTL DEF LoopSpec

(* Admitted describes one set of jobs.                                     *)
LEMMA OneAdmission ==
  ASSUME held \in SUBSET Jobs, NEW A \in SUBSET Others, NEW S \in SUBSET Others,
         \A j \in Others : j \in A <=> Passes(j, A),
         \A j \in Others : j \in S <=> Passes(j, S)
  PROVE  A = S
<1> DEFINE T == {j \in Others : ~(j \in A <=> j \in S)}
<1> SUFFICES ASSUME T # {} PROVE FALSE
  OBVIOUS
<1>1. T \in SUBSET Nat
  BY JobNumbers DEF Others
<1> HIDE DEF T
<1>2. PICK j \in T : \A y \in T : j <= y
  BY <1>1, Least
<1>3. j \in Others /\ ~(j \in A <=> j \in S)
  BY DEF T
<1>4. A \cap InFront(j) = S \cap InFront(j)
  <2>1. ASSUME NEW i \in InFront(j) PROVE i \in A <=> i \in S
    <3>1. i \in Others /\ i < j
      BY DEF InFront
    <3>2. i \in Nat /\ j \in Nat
      BY <1>3, <3>1, JobNumbers DEF Others
    <3>3. i \notin T
      BY <1>2, <3>1, <3>2
    <3> QED
      BY <3>1, <3>3 DEF T
  <2> QED
    BY <2>1
<1>5. Passes(j, A) <=> Passes(j, S)
  BY <1>4, PassesFront
<1> QED
  BY <1>3, <1>5

(* When nothing is left to enqueue and no iteration is left, the loops     *)
(* have reserved the one set that Admitted describes: a rescan of _pending *)
(* never reaches back, and enqueueing the jobs one by one (Runtime.start)  *)
(* admits what one pass admits (scheduler.py:240-293).                     *)
THEOREM RescansAreOnePass == LoopSpec => []LoopIsOnePass
<1>1. ASSUME LoopInv, Candidates = {}, arriving = <<>>,
             NEW A \in SUBSET (Jobs \ held)
      PROVE  Admitted(A, Jobs \ held, [j \in Jobs |-> {i \in Jobs \ held : i < j}], held, ready)
               <=> A = reserved \ held
  <2> DEFINE q == [j \in Jobs |-> {i \in Jobs \ held : i < j}]
  <2>1. Typed /\ Queued
    BY <1>1 DEF LoopInv
  <2>2. Selected \cup ToSet(waiting) = Others /\ Selected \in SUBSET Others
    <3>1. ToSet(arriving) = {}
      BY <1>1 DEF ToSet
    <3> QED
      BY <2>1, <3>1 DEF Queued
  <2>3. ASSUME NEW B \in SUBSET Others
        PROVE  Admitted(B, Others, q, held, ready) <=> \A j \in Others : j \in B <=> Passes(j, B)
    <3>1. \A j \in Others : q[j] = InFront(j)
      BY DEF InFront, Others
    <3> HIDE DEF q
    <3> QED
      BY <3>1 DEF Admitted, Passes
  <2>4. \A j \in Others : j \in Selected <=> Passes(j, Selected)
    <3>1. ASSUME NEW j \in ToSet(waiting) PROVE ~Passes(j, Selected)
      <4>1. CASE \E i \in Selected : j < i
        BY <1>1, <4>1 DEF LoopInv
      <4>2. CASE ~\E i \in Selected : j < i
        BY <1>1, <2>1, <4>2, PassesEligible
      <4> QED
        BY <4>1, <4>2
    <3>2. \A j \in Selected : Passes(j, Selected)
      BY <1>1 DEF LoopInv
    <3> QED
      BY <2>2, <3>1, <3>2
  <2>5. A \in SUBSET Others /\ held \in SUBSET Jobs /\ Selected = reserved \ held
    BY <2>1 DEF Typed, Others, Selected
  <2>6. Admitted(Selected, Others, q, held, ready)
    BY <2>2, <2>3, <2>4
  <2>7. ASSUME Admitted(A, Others, q, held, ready) PROVE A = Selected
    <3>1. \A j \in Others : j \in A <=> Passes(j, A)
      BY <2>3, <2>5, <2>7
    <3> QED
      BY <2>2, <2>4, <2>5, <3>1, OneAdmission
  <2>8. Admitted(A, Others, q, held, ready) <=> A = Selected
    BY <2>6, <2>7
  <2> HIDE DEF q
  <2>9. Admitted(A, Jobs \ held, q, held, ready) <=> A = reserved \ held
    BY <2>5, <2>8 DEF Others
  <2> QED
    BY <2>9 DEF q
<1>2. LoopInv => LoopIsOnePass
  BY <1>1 DEF LoopIsOnePass
<1> QED
  BY <1>2, LoopInvariant, PTL
=============================================================================
