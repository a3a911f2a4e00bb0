----------------------------- MODULE JobStream -----------------------------
(***************************************************************************)
(* The live transcript of the dashboard: the web client's hook             *)
(* useJobStream (src/web/src/hooks/useJobStream.js) against the two server *)
(* endpoints it reads, the transcript pages (job_output) and the stream of *)
(* invalidations (job_output_updates, fed by JobStreamHub).                *)
(*                                                                         *)
(* The stream carries no content, only "the log of this job has reached    *)
(* cursor c"; the hook then reads pages after its own cursor.  Reads,      *)
(* notifications, transport errors, job switches, refreshes and the end of *)
(* the job interleave.                                                     *)
(*                                                                         *)
(* A read is one run of drainPages.  The abort controller and the fetch    *)
(* epoch it captured are kept as two facts about it: whether its signal    *)
(* has been aborted and whether it is still the newest read.               *)
(***************************************************************************)
EXTENDS Integers, Sequences, FiniteSets, Functions

CONSTANTS Jobs,        \* the jobs a user can open
          NoJob,       \* no job is open
          MaxLog,      \* bound: transcript events a job can commit
          PageSize,    \* the limit of a page (100 in the hook)
          Faults,      \* the faults and user actions that happen, see FaultKinds
          MaxFaults,   \* bound: how many of them in one behaviour
          MaxShows     \* bound: how often the user opens a job

FaultKinds == {"fail", "drop", "refuse", "refresh", "retry", "lose"}

ASSUME StreamConstants ==
  /\ NoJob \notin Jobs
  /\ MaxLog \in Nat \ {0} /\ PageSize \in Nat \ {0}
  /\ Faults \subseteq FaultKinds /\ MaxFaults \in Nat /\ MaxShows \in Nat

VARIABLES
  log,            \* server: number of committed events of each job
  terminal,       \* server: the job has ended
  persistFailed,  \* server: stream.persistence_failed was recorded
  retried,        \* server: the jobs that have been retried
  active,         \* activeJobIdRef: the job the hook is showing
  isTerminal,     \* the hook's option: what the job poll last said
  events,         \* the transcript shown, a sequence of <<job, id>>
  cursor,         \* cursorRef
  notified,       \* notifiedCursorRef
  streamStatus,   \* the stream status of the last page applied
  status,         \* connecting, live or reconnecting
  reads,          \* the runs of drainPages that have not ended
  inFlight,       \* inFlightJobRef
  setupAborted,   \* the controller of the set-up effect has been aborted
  pollArmed,      \* the interval of the fallback poll is running
  source,         \* the EventSource: none, connecting, open or closed
  queue,          \* server: the subscriber's queue of one cursor, 0 is empty
  wire,           \* cursors sent and not yet delivered
  error,          \* the error of the last read, if it failed
  faultsLeft,     \* what is left of MaxFaults
  showsLeft       \* what is left of MaxShows

server == <<log, terminal, persistFailed, retried>>
shown  == <<events, cursor, streamStatus, error>>
stream == <<source, queue, wire>>
left == <<faultsLeft, showsLeft>>
vars == <<server, active, isTerminal, shown, notified, status, reads, inFlight,
          setupAborted, pollArmed, stream, left>>

TerminalStatuses == {"complete", "failed", "truncated", "unavailable"}

\* The status a page carries for job j, computed when the page is served.  A log
\* that met its quota is served as "truncated", which the hook treats as "failed",
\* and takes no more events: a job that commits nothing after LoseBatch.
ServedStatus(j) ==
  IF persistFailed[j] THEN "failed"
  ELSE IF ~terminal[j] THEN "active"
  ELSE IF log[j] = 0 THEN "unavailable" ELSE "complete"

Waiting == [kind |-> "waiting"]
Failed  == [kind |-> "failed"]
Replies == {Waiting, Failed} \union
           [kind : {"page"}, upto : 0..MaxLog, more : BOOLEAN, stream : TerminalStatuses \union {"active"}]

Reads == [job : Jobs, after : 0..MaxLog, aborted : BOOLEAN, newest : BOOLEAN,
          role : {"initial", "final", "delta"}, reply : Replies]

\* Broken variant: a page is applied whenever it is of the open job.
EffectiveForJob(r) == r.job = active

\* drainPages acts on a page only while all three of its tests pass.
Effective(r) == ~r.aborted /\ r.newest /\ r.job = active

Fault(kind) ==
  /\ kind \in Faults /\ faultsLeft > 0
  /\ faultsLeft' = faultsLeft - 1
  /\ UNCHANGED showsLeft

-----------------------------------------------------------------------------
(* The pieces of the hook.                                                 *)

\* drainPages(j, signal): nothing when j is already being read, otherwise a
\* new read from position `from`; every other read loses its epoch.
StartRead(old, j, from, role) ==
  { [r EXCEPT !.newest = FALSE] : r \in old } \union
  { [job |-> j, after |-> from, aborted |-> FALSE, newest |-> TRUE,
     role |-> role, reply |-> Waiting] }

\* Abort of the controllers in use.  A request still waiting is rejected at
\* once, without effect except for what follows a final read; an answer that has
\* arrived is still to be handled.  Reads aborted earlier have been by now: the
\* browser finishes the callbacks of one event before it takes the next.
Abort(old) == { [r EXCEPT !.aborted = TRUE] :
                r \in { q \in old : ~q.aborted /\ (q.reply # Waiting \/ q.role = "final") } }

\* The effect of the fallback poll, run again when one of its dependencies
\* (the arguments) changes; whether an EventSource is held is read then.
PollEffect(j, t, ss, st, held) ==
  j # NoJob /\ ~t /\ ss \notin TerminalStatuses /\ (st = "reconnecting" \/ ~held)

\* The dependencies of that effect are re-evaluated after every render.
RunPollEffect ==
  pollArmed' = IF <<active, isTerminal, streamStatus, status>>' =
                  <<active, isTerminal, streamStatus, status>>
               THEN pollArmed
               ELSE PollEffect(active', isTerminal', streamStatus', status', source' # "none")

\* es.close(): what the server had sent is no longer delivered, and its
\* subscription ends.
NoSource == source' = "none" /\ queue' = 0 /\ wire' = {}
NewSource == source' = "connecting" /\ queue' = 0 /\ wire' = {}

-----------------------------------------------------------------------------
Init ==
  /\ log = [j \in Jobs |-> 0]
  /\ terminal = [j \in Jobs |-> FALSE]
  /\ persistFailed = [j \in Jobs |-> FALSE] /\ retried = {}
  /\ active = NoJob /\ isTerminal = TRUE
  /\ events = <<>> /\ cursor = 0 /\ notified = 0
  /\ streamStatus = "active" /\ status = "connecting"
  /\ reads = {} /\ inFlight = NoJob /\ setupAborted = FALSE /\ pollArmed = FALSE
  /\ source = "none" /\ queue = 0 /\ wire = {}
  /\ error = FALSE /\ faultsLeft = MaxFaults /\ showsLeft = MaxShows

(* The server.  What it does to a job that is not open commutes with every   *)
(* step up to the one that opens it, or back to the one that left it, so its  *)
(* steps are taken for the open job only.                                    *)

\* StreamRecorder.flush appends a batch and publishes its last id in the same
\* step of the loop; the hub replaces a cursor the subscriber has not taken.
Commit(j) ==
  /\ j = active /\ ~terminal[j] /\ log[j] < MaxLog
  /\ log' = [log EXCEPT ![j] = @ + 1]
  /\ queue' = IF source = "open" THEN log'[j] ELSE queue
  /\ UNCHANGED <<terminal, persistFailed, retried, active, isTerminal, shown, notified, status, reads,
                 inFlight, setupAborted, pollArmed, source, wire, left>>

\* A batch cannot be stored: its events are gone, the job goes on.
LoseBatch(j) ==
  /\ j = active /\ ~terminal[j] /\ Fault("lose")
  /\ persistFailed' = [persistFailed EXCEPT ![j] = TRUE]
  /\ UNCHANGED <<log, terminal, retried, active, isTerminal, shown, notified, status, reads, inFlight,
                 setupAborted, pollArmed, stream>>

Finish(j) ==
  /\ j = active /\ ~terminal[j]
  /\ terminal' = [terminal EXCEPT ![j] = TRUE]
  /\ UNCHANGED <<log, persistFailed, retried, active, isTerminal, shown, notified, status, reads, inFlight,
                 setupAborted, pollArmed, stream, left>>

\* job_retry puts a finished job back into the queue.
Retry(j) ==
  /\ j = active /\ terminal[j] /\ Fault("retry")
  /\ terminal' = [terminal EXCEPT ![j] = FALSE]
  /\ retried' = retried \union {j}
  /\ UNCHANGED <<log, persistFailed, active, isTerminal, shown, notified, status, reads, inFlight,
                 setupAborted, pollArmed, stream>>

\* job_output: one page of committed events after the position asked for.
Serve(r) ==
  /\ r.reply = Waiting /\ ~r.aborted
  /\ LET upto == IF r.after + PageSize < log[r.job] THEN r.after + PageSize
                 ELSE IF r.after < log[r.job] THEN log[r.job] ELSE r.after
     IN  reads' = (reads \ {r}) \union
                  { [r EXCEPT !.reply = [kind |-> "page", upto |-> upto,
                       more |-> upto > r.after /\ upto < log[r.job],
                       stream |-> ServedStatus(r.job)]] }
  /\ UNCHANGED <<server, active, isTerminal, shown, notified, status, inFlight, setupAborted,
                 pollArmed, stream, left>>

\* The request fails: the daemon is unreachable or answers with an error.
LoseReply(r) ==
  /\ r.reply = Waiting /\ ~r.aborted /\ Fault("fail")
  /\ reads' = (reads \ {r}) \union {[r EXCEPT !.reply = Failed]}
  /\ UNCHANGED <<server, active, isTerminal, shown, notified, status, inFlight, setupAborted,
                 pollArmed, stream>>

\* The stream of job_output_updates is accepted: the server subscribes and
\* sends the high-water cursor first; the client's onopen runs.
Open ==
  /\ source = "connecting"
  /\ source' = "open" /\ queue' = 0
  /\ wire' = {log[active]}
  /\ status' = IF setupAborted THEN status ELSE "live"
  /\ UNCHANGED <<server, active, isTerminal, shown, notified, reads, inFlight, setupAborted, left>>
  /\ RunPollEffect

\* The generator takes the queued cursor and sends it.  (Its test against the
\* last cursor sent always passes: subscribing and reading the high-water mark
\* are one step of the loop, and later cursors are higher.)
Send ==
  /\ queue # 0
  /\ queue' = 0
  /\ wire' = wire \union {queue}
  /\ UNCHANGED <<server, active, isTerminal, shown, notified, status, reads, inFlight,
                 setupAborted, pollArmed, source, left>>

-----------------------------------------------------------------------------
(* The web client.                                                         *)

\* Broken variant: a notification is dropped while a read is in flight.
NotifyUnlessReading ==
  \E c \in wire :
    /\ \A d \in wire : c <= d
    /\ wire' = wire \ {c}
    /\ IF setupAborted \/ c <= cursor \/ inFlight = active
         THEN UNCHANGED <<notified, reads, inFlight>>
         ELSE notified' = c /\ inFlight' = active /\ reads' = StartRead(reads, active, cursor, "delta")
    /\ UNCHANGED <<server, active, isTerminal, shown, status, setupAborted, pollArmed, source,
                   queue, left>>

\* The output-updated handler.  Cursors of one connection only grow, so the
\* smallest on the wire is the next to arrive.
Notify ==
  \E c \in wire :
    /\ \A d \in wire : c <= d
    /\ wire' = wire \ {c}
    /\ IF setupAborted
         THEN UNCHANGED <<notified, reads, inFlight>>
         ELSE /\ notified' = IF c > notified THEN c ELSE notified
              /\ IF c > cursor /\ inFlight # active
                   THEN inFlight' = active /\ reads' = StartRead(reads, active, cursor, "delta")
                   ELSE UNCHANGED <<reads, inFlight>>
    /\ UNCHANGED <<server, active, isTerminal, shown, status, setupAborted, pollArmed, source,
                   queue, left>>

\* The connection breaks: what was on the wire is lost, the browser connects
\* again by itself, and onerror reports reconnecting.
Drop ==
  /\ source \in {"connecting", "open"} /\ Fault("drop")
  /\ NewSource
  /\ status' = IF setupAborted THEN status ELSE "reconnecting"
  /\ UNCHANGED <<server, active, isTerminal, shown, notified, reads, inFlight, setupAborted>>
  /\ RunPollEffect

\* The endpoint refuses the stream (404 or 503): the browser gives up, and
\* onerror does nothing for a closed EventSource.
Refuse ==
  /\ source = "connecting" /\ Fault("refuse")
  /\ source' = "closed" /\ queue' = 0 /\ wire' = {}
  /\ UNCHANGED <<server, active, isTerminal, shown, notified, status, reads, inFlight,
                 setupAborted, pollArmed>>

\* Broken variant: an overtaken read takes the mark of the read in flight away.
ReadEndsAlways(r) ==
  /\ status' = IF r.role = "initial" /\ ~r.aborted /\ r.job = active /\ status = "connecting"
               THEN "live" ELSE status
  /\ IF r.role = "final" /\ r.job = active THEN NoSource ELSE UNCHANGED stream
  /\ inFlight' = IF inFlight = r.job THEN NoJob ELSE inFlight

\* What follows the end of read r: the set-up effect reports live after its
\* first read, the terminal effect closes the EventSource after its last.
ReadEnds(r) ==
  /\ status' = IF r.role = "initial" /\ ~r.aborted /\ r.job = active /\ status = "connecting"
               THEN "live" ELSE status
  /\ IF r.role = "final" /\ r.job = active THEN NoSource ELSE UNCHANGED stream
  /\ inFlight' = IF inFlight = r.job /\ r.newest THEN NoJob ELSE inFlight

\* The events of the page of r that are not shown yet, in their order.
NewEvents(r) ==
  LET new == {k \in (r.after + 1)..r.reply.upto : <<r.job, k>> \notin Range(events)}
      nth(n) == CHOOSE k \in new : Cardinality({i \in new : i <= k}) = n
  IN  [n \in 1..Cardinality(new) |-> <<r.job, nth(n)>>]

\* A page arrives and is applied; the read goes on while the page says there is
\* more or a higher cursor has been notified meanwhile.
ApplyPage(r) ==
  /\ r.reply.kind = "page" /\ Effective(r)
  /\ events' = events \o NewEvents(r)
  /\ cursor' = r.reply.upto
  /\ streamStatus' = r.reply.stream /\ error' = FALSE
  /\ IF r.reply.more \/ r.reply.upto < notified
       THEN /\ reads' = (reads \ {r}) \union
                        {[r EXCEPT !.after = r.reply.upto, !.reply = Waiting]}
            /\ UNCHANGED <<status, stream, inFlight>>
       ELSE reads' = reads \ {r} /\ ReadEnds(r)
  /\ UNCHANGED <<server, active, isTerminal, notified, setupAborted, left>>
  /\ RunPollEffect

\* A failed request, or any answer to a read that has been overtaken, ends the
\* read and changes nothing that is shown.
EndRead(r) ==
  /\ r.reply # Waiting \/ r.aborted
  /\ r.reply = Failed \/ ~Effective(r)
  /\ reads' = reads \ {r}
  /\ ReadEnds(r)
  /\ error' = IF Effective(r) THEN TRUE ELSE error
  /\ UNCHANGED <<server, active, isTerminal, events, cursor, streamStatus, notified, setupAborted,
                 left>>
  /\ RunPollEffect

\* refresh(): abort whatever is running and read again under a new controller.
Refresh ==
  /\ active # NoJob /\ Fault("refresh")
  /\ inFlight' = active
  /\ reads' = StartRead(Abort(reads), active, cursor, "delta")
  /\ setupAborted' = TRUE
  /\ UNCHANGED <<server, active, isTerminal, shown, notified, status, pollArmed, stream>>

\* The job poll reports the end of the job: the terminal effect aborts what is
\* running and reads once more.
LearnEnd ==
  /\ active # NoJob /\ terminal[active] /\ ~isTerminal
  /\ isTerminal' = TRUE
  /\ inFlight' = active
  /\ reads' = StartRead(Abort(reads), active, cursor, "final")
  /\ setupAborted' = TRUE
  /\ UNCHANGED <<server, active, shown, notified, status, stream, left>>
  /\ RunPollEffect

\* The job was retried and its details were loaded again.
LearnRetry ==
  /\ active # NoJob /\ ~terminal[active] /\ isTerminal
  /\ isTerminal' = FALSE
  /\ UNCHANGED <<server, active, shown, notified, status, reads, inFlight, setupAborted, stream, left>>
  /\ RunPollEffect

\* The user opens job j: clean-up and set-up of the set-up effect.  streamStatus
\* keeps the value of the previous job until the first page is applied.  The
\* details on screen may still say that an ended job is running.
Show(j, ended) ==
  /\ j # active /\ showsLeft > 0 /\ showsLeft' = showsLeft - 1
  /\ ended => terminal[j]
  /\ active' = j /\ isTerminal' = ended
  /\ events' = <<>> /\ cursor' = 0 /\ notified' = 0 /\ error' = FALSE
  /\ status' = "connecting"
  /\ inFlight' = j /\ setupAborted' = FALSE
  /\ reads' = StartRead(Abort(reads), j, 0, "initial")
  /\ IF ended THEN NoSource ELSE NewSource
  /\ UNCHANGED <<server, streamStatus, faultsLeft>>
  /\ RunPollEffect

\* The user leaves the job.
Leave ==
  /\ active # NoJob
  /\ active' = NoJob /\ isTerminal' = TRUE
  /\ events' = <<>> /\ cursor' = 0 /\ notified' = 0 /\ error' = FALSE
  /\ status' = "connecting"
  /\ inFlight' = NoJob /\ reads' = Abort(reads) /\ setupAborted' = TRUE
  /\ NoSource
  /\ UNCHANGED <<server, streamStatus, left>>
  /\ RunPollEffect

\* The interval of the fallback poll.
PollTick ==
  /\ pollArmed /\ inFlight # active
  /\ inFlight' = active
  /\ reads' = StartRead(reads, active, cursor, "delta")
  /\ UNCHANGED <<server, active, isTerminal, shown, notified, status, setupAborted, pollArmed,
                 stream, left>>

-----------------------------------------------------------------------------
ServerNext ==
  \/ \E j \in Jobs : Commit(j) \/ LoseBatch(j) \/ Finish(j) \/ Retry(j)
  \/ \E r \in reads : Serve(r) \/ LoseReply(r)
  \/ Send

ClientNext ==
  \/ Open \/ Notify \/ Drop \/ Refuse \/ Refresh \/ LearnEnd \/ LearnRetry \/ Leave \/ PollTick
  \/ \E r \in reads : ApplyPage(r) \/ EndRead(r)
  \/ \E j \in Jobs, ended \in BOOLEAN : Show(j, ended)

Next == ServerNext \/ ClientNext

Spec == Init /\ [][Next]_vars

(* Requests are answered, answers and notifications are handled, the browser *)
(* reconnects, the intervals fire and the job poll sees the end of a job.  No  *)
(* fairness for the user, for faults or for the worker that writes the log.    *)
Fairness ==
  /\ WF_vars(\E r \in reads : Serve(r))
  /\ WF_vars(\E r \in reads : ApplyPage(r) \/ EndRead(r))
  /\ WF_vars(Open) /\ WF_vars(Send) /\ WF_vars(Notify)
  /\ WF_vars(PollTick) /\ WF_vars(LearnEnd)

FairSpec == Spec /\ Fairness

-----------------------------------------------------------------------------
(* Properties.                                                             *)

\* The type invariant.
TypeOK ==
  /\ log \in [Jobs -> 0..MaxLog]
  /\ terminal \in [Jobs -> BOOLEAN] /\ persistFailed \in [Jobs -> BOOLEAN]
  /\ retried \subseteq Jobs
  /\ active \in Jobs \union {NoJob} /\ inFlight \in Jobs \union {NoJob}
  /\ isTerminal \in BOOLEAN /\ setupAborted \in BOOLEAN /\ error \in BOOLEAN /\ pollArmed \in BOOLEAN
  /\ cursor \in 0..MaxLog /\ notified \in 0..MaxLog /\ queue \in 0..MaxLog
  /\ wire \subseteq 0..MaxLog
  /\ streamStatus \in TerminalStatuses \union {"active"}
  /\ status \in {"connecting", "live", "reconnecting"}
  /\ source \in {"none", "connecting", "open", "closed"}
  /\ reads \subseteq Reads
  /\ events \in Seq(Jobs \X (1..MaxLog))

\* The transcript is exactly the beginning of the open job's log up to the
\* hook's cursor: no gap, no duplicate, no event of another job, whatever reads
\* are overtaken, repeated or answered late (drainPages, useJobStream.js:199).
TranscriptIsPrefix ==
  IF active = NoJob THEN events = <<>>
  ELSE cursor <= log[active] /\ events = [k \in 1..cursor |-> <<active, k>>]

\* inFlightJobRef names the open job exactly when one read of it can still take
\* effect: a mark left behind would stop every later read, a mark lost would let
\* two reads apply pages to one transcript (useJobStream.js:190 and 237).
ReaderIsTracked ==
  active # NoJob =>
    Cardinality({r \in reads : Effective(r)}) = IF inFlight = active THEN 1 ELSE 0

\* Unless the last request failed, a cursor the hook was notified of and has
\* not reached is being read (useJobStream.js:226 and 344).
NotificationIsRead ==
  (~error /\ active # NoJob /\ cursor < notified) =>
    \E r \in reads : Effective(r)

\* What the references of the hook say of the reads under way.
StreamInv == TypeOK /\ ReaderIsTracked /\ NotificationIsRead

\* The hook is still attached to the open job: its last request did not fail, a
\* running job's notifications reach it, an ended job is known to have ended
\* and has not been retried behind its back.
Attached ==
  /\ active # NoJob /\ ~error /\ active \notin retried
  /\ IF isTerminal THEN terminal[active]
     ELSE ~setupAborted /\ source \in {"connecting", "open"}

\* While the hook is attached its transcript reaches the end of the log again
\* and again, although notifications are merged, overtaken or lost with their
\* connection (useJobStream.js:335, streaming.py:339).
FollowsWhileAttached == []<>(Attached => cursor = log[active])
=============================================================================
