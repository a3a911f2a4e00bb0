----------------------------- MODULE ScheduleLoop -----------------------------
(***************************************************************************)
(* The loop of ProjectScheduler._schedule, one iteration per step, over    *)
(* the deque _pending as a sequence, and the calls of enqueue that         *)
(* Runtime.start makes one after the other.  It justifies Admitted: the    *)
(* loop reserves exactly the jobs that one pass in FIFO order reserves.    *)
(***************************************************************************)
EXTENDS Admission, Sequences, SequencesExt

VARIABLES
  ready,      (* the jobs whose dependencies have succeeded   *)
  held,       (* the jobs reserved before the first iteration *)
  arriving,   (* the jobs still to be enqueued, in order      *)
  waiting,    (* _pending                                     *)
  reserved    (* _active                                      *)

Position(j) == CHOOSE k \in DOMAIN waiting : waiting[k] = j

(* Broken variant: the last ready exclusive job instead of the first.      *)
LastBarriers(project) ==
  {j \in ready \cap ToSet(waiting) :
     /\ ~Reader(j) /\ kind[j].project = project
     /\ \A i \in ready \cap ToSet(waiting) :
          ~Reader(i) /\ kind[i].project = project => Position(j) >= Position(i)}

(* barrier_by_project: the first ready exclusive job of the project.       *)
Barriers(project) ==
  {j \in ready \cap ToSet(waiting) :
     /\ ~Reader(j) /\ kind[j].project = project
     /\ \A i \in ready \cap ToSet(waiting) :
          ~Reader(i) /\ kind[i].project = project => Position(j) <= Position(i)}

(* The conditions under which the inner loop does not `continue'.          *)
Eligible(j) ==
  LET projectActive == {i \in reserved : SameProject(i, j)} IN
  /\ j \in ready
  /\ ~(Reader(j) /\ \E b \in Barriers(kind[j].project) : Position(j) > Position(b))
  /\ \A i \in projectActive : kind[i].scope # kind[j].scope
  /\ ~Reader(j) => projectActive = {}
  /\ Reader(j) =>
       /\ \A i \in projectActive : Reader(i)
       /\ Cardinality({i \in projectActive : Reader(i)}) < MaxProjectReaders

Candidates ==
  IF Cardinality(reserved) < MaxJobs
  THEN {j \in ToSet(waiting) : Eligible(j)} ELSE {}

(* One iteration: the first eligible job is reserved.                      *)
Select(j) ==
  /\ j \in Candidates
  /\ \A i \in Candidates : Position(j) <= Position(i)
  /\ waiting' = RemoveAt(waiting, Position(j))
  /\ reserved' = reserved \cup {j}
  /\ UNCHANGED <<kind, ready, held, arriving>>

(* The loop has ended and start enqueues the next job.                     *)
EnqueueNext ==
  /\ Candidates = {} /\ arriving # <<>>
  /\ waiting' = Append(waiting, Head(arriving))
  /\ arriving' = Tail(arriving)
  /\ UNCHANGED <<kind, ready, held, reserved>>

(* Jobs in the order of their creation.                                    *)
Ordered(s) == \A i, k \in DOMAIN s : i < k => s[i] < s[k]

Queues(S) == {s \in [1..Cardinality(S) -> S] : Ordered(s)}

(* Any reservations that can exist together, any other jobs in _pending    *)
(* and arriving behind them.                                               *)
LoopInit ==
  /\ kind \in [Jobs -> Kinds]
  /\ held \in SUBSET Jobs
  /\ \A j \in held : Fits(j, {i \in held : i < j})
  /\ ready \in SUBSET (Jobs \ held)
  /\ \E n \in Jobs \cup {0} :
       /\ waiting \in Queues({j \in Jobs \ held : j <= n})
       /\ arriving \in Queues({j \in Jobs \ held : j > n})
  /\ reserved = held

LoopNext == (\E j \in Jobs : Select(j)) \/ EnqueueNext

loopVars == <<kind, ready, held, waiting, arriving, reserved>>

LoopSpec == LoopInit /\ [][LoopNext]_loopVars

(* When everything has been enqueued and no iteration is left, the loops   *)
(* have reserved the one set that Admitted describes: rescanning after a   *)
(* reservation never reaches back to a job that was passed over, and       *)
(* enqueueing one by one (Runtime.start) admits what one pass admits.      *)
LoopIsOnePass ==
  Candidates = {} /\ arriving = <<>> =>
    \A A \in SUBSET (Jobs \ held) :
      Admitted(A, Jobs \ held, [j \in Jobs |-> {i \in Jobs \ held : i < j}],
               held, ready)
        <=> A = reserved \ held

=============================================================================
