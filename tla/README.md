# Formal models of openmcp

openmcp is a daemon that runs coding-agent jobs for several projects: MCP
clients submit jobs, an asyncio scheduler admits them, a worker drives one of
several provider targets (codex, claude, pi, agy) in a subprocess, and the job's
record, conversation and transcript are kept in SQLite. A dashboard in the
browser follows the jobs and edits the configuration. This directory holds TLA+
modules of the daemon's core and of the dashboard, the TLC configurations that
check them, and proofs checked by TLAPS.

Python files below are relative to `src/src/openmcp/`, JavaScript files to
`src/web/src/`.

## Inventory

| Component | State | Operations | Interacts with | What is hard | What makes it correct |
|---|---|---|---|---|---|
| `ProjectScheduler` (`scheduler.py`) | `_pending`, `_active`, `_current`, `_ready`, `_terminal_waiters`, the events of each dispatch, the workers | `start`, `enqueue`, `cancel`, `complete`, `reevaluate`, `wait`, `close`, `_schedule`, `_release`, `_worker` | called by `Runtime`; calls `JobRunner.run` and `is_ready` | old dispatches of retried jobs, early release, close with work in flight | exclusion, limits, FIFO writer barrier, no lost wake-up, every waiter woken |
| `Runtime` job handlers (`runtime.py`) | the `jobs` and `job_dependencies` tables, `_closing` | `submit`, `cancel`, `retry`, `wait`, `start`, `close`, the cascade | server tools and dashboard call it; calls scheduler and database | crash between commits, cancel against completion, retry against cascade | records agree with workers; dependents of failures are cancelled; outcomes final |
| `JobRunner` (`execution.py`) | the record of its job | `run`, `_terminal`, `_notify` | called by a worker, calls `TargetExecutor`, `Runtime._job_terminal` | the order commit, cascade, release, notification | one terminal state per run, cancellation wins |
| `TargetExecutor` (`execution.py`) | permits per target, active counts, circuit breaker in `target_health` | `execute`, `_select_target`, `_acquire_target`, `_record_failure` | drivers, `StreamRecorder`, sessions and turns | cancellation at each await, overflow recovery, replay after tool activity | no replay after side effects, permits balance, attempts bounded |
| Conversation memory (`database.py`) | `context_sessions`, `context_turns` | `append_turn`, `finish_fresh_job_success`, `session` | `TargetExecutor`, `JobRunner` | turn and job are committed apart | a session belongs to the turns it saw |
| `StreamBridge` (`drivers.py`) | bounded queue, `_closed`, tool flag | `emit` (threads), `close`, `consumer` | drivers to `StreamRecorder` | blocking threads against the loop | no event lost before close, nobody blocked for ever |
| `StreamRecorder`, `JobStreamHub` (`streaming.py`) | buffer, counters, timer, subscribers | `record`, `flush`, `close`, `publish` | database, dashboard | lost batches, the quota inside an attempt, merged notifications | log in order, one truncation marker |
| Dashboard stream (`dashboard.py`) and `hooks/useJobStream.js` | subscription; cursors, reads under way, event source, fallback poll | pages, notifications, reconnect, refresh | hub, database, job screen | reads overtaken by switches, refreshes, ends of jobs | the transcript is a prefix of the log and keeps growing |
| Transcript cards (`reduceTranscriptEvents`) | none: a fold over the events | add, append, complete | adapters' event names, hook | recovery runs, retries, lost starts, names the adapter guesses | text once and in order, calls settle their own cards |
| Project and job screens (`screens/ProjectDetail.jsx`, `hooks/`) | route, job shown, query, poll timers, requests | navigate, fetch, poll, refresh, hide | `dashboard.py` | late answers, effects that re-run, hidden pages | what is shown belongs to the URL; polls never die |
| Configuration editors (`components/*Editor.jsx`, `Targets`, `Profiles`, `ProjectDetail`, `RuntimeSettings`) | draft, revision, conflict, dialogs | open, type, save, reload, delete | configuration mutation | conflicts, lost answers, dialogs that change under a request | no unseen overwrite, no lost draft |
| Profile form (`ProfileEditor.jsx`, `config_mutation.py`) | the workflows of the form, their notation in the file | toggle, edit, submit | configuration file | three notations, inheritance, all workflows submitted | saved means what was shown |
| MCP server (`server.py`) | subscriptions, page tokens | tools and resources | `Runtime` | `job_wait` timeouts | the state reported was current |
| Configuration mutation (`config_mutation.py`) | files, catalog, revision, lock | create, update, delete, rollback | dashboard, `Runtime` | failure after the file was replaced | file, catalog and executor agree |
| Project registry (`runtime.py`, `database.py`) | `projects` | `resolve_project`, `add_project` | server, dashboard | nothing: one transaction on the loop decides | one id per root, aliases unique |
| Drivers, process groups (`backends/`, `processes.py`) | subprocess, reader threads | run, time out, terminate | `TargetExecutor` | escalation, launcher that dies first | the group is gone afterwards |
| Planning, config loading, migrations, logging, CLI, models, grids and static screens | none of their own, or start-up only | parse, render, migrate | all | data handling | out of scope, see the end |

All server-side state changes run on one asyncio loop: a method is atomic
between two awaits. Interleaving comes from the awaits (workers, notifications,
clients), from provider threads, and from crashes between two SQLite commits.
The dashboard is one JavaScript thread: a callback, with the effects its render
runs, is atomic; interleaving comes from requests, timers and the user.

## Modules

| Module | Models | Uses |
|---|---|---|
| `Admission` | admission rules of `_schedule` as pure operators | |
| `ProjectScheduler` | all state and methods of the scheduler, its workers, under arbitrary callers (`SchedSpec`) | `Admission` |
| `ScheduleLoop` | the loop of `_schedule` and the enqueueing loop of `Runtime.start`, an iteration per step | `Admission` |
| `JobRuntime` | `Runtime` handlers, `JobRunner`, job records, crashes, composed with the scheduler | `ProjectScheduler`, `JobLedger` |
| `TargetExecutor` | attempts, permits, circuit breaker, overflow recovery, cancellation, sessions and turns of `execution.py` | |
| `JobLedger` | abstract specification: what clients are promised about job records | |
| `SchedulerProofs`, `JobRuntimeProofs`, `TargetExecutorProofs`, `JobStreamProofs`, `TranscriptProofs`, `ConfigEditingProofs`, `ProfileDraftProofs`, `JobScreenProofs` | theorems and proofs | the modules they are named for; `SchedulerProofs` is about `Admission`, `ProjectScheduler` and `ScheduleLoop`, and `JobRuntimeProofs` uses it |
| `JobStream` | `useJobStream` with its reads, event source and fallback poll, against pages, stream and hub | |
| `TranscriptCards` | `reduceTranscriptEvents` as a fold | |
| `Transcript` | the events of attempts, recovery runs and retries, with losses and the quota, as they reach the cards | `TranscriptCards` |
| `DashboardHooks` | `usePolling` and `useDashboardQuery` as operators on their state | |
| `JobScreen` | `ProjectDetail` with URL, tabs, job, query and polls | `DashboardHooks` |
| `ConfigFile` | the configuration file as its history of changes, and the server's answers | |
| `EntryEditor` | the form of `TargetEditor` and `ProfileEditor` | `ConfigFile` |
| `ConfigEditing` | screens, dialogs and requests of the configuration editors | `EntryEditor` |
| `ProfileDraft` | the workflows of a profile from file to form to file | |
| `MCProjectScheduler`, `MCScheduleLoop`, `MCJobRuntime`, `MCTargetExecutor`, `MCJobStream`, `MCJobScreen`, `MCProfileDraft` | instances for TLC | their modules |

### State and code

*Dispatches.* A `_Dispatch` object is `<<job, generation>>`: a retry makes a new
object while a worker may still hold the old one, and the code's `is` tests
compare generations (`IsLive`). `reserved` is membership in `active`; `started`
is a worker that holds the live dispatch; `completion` not set is membership in
`open`; `cancel_event` of the live dispatch is `flagged`. `_pending` is a set
with `ahead[j]`, the jobs in front of j. `_ready` is a set: which of several
reserved jobs starts first matters to no property, except that the `None`
sentinels of `close` come last, which is `WorkerExit`'s guard. `_queues`,
`_queued_projects`, `_scheduled_projects`, `_active_projects`, `_cancel_events`
and `_completion_events` repeat what the others say and are left out.

*Atomicity.* An action is a handler up to its next await, with every
`_schedule` it causes. Where a handler calls `_schedule` several times the model
calls it once at the end. In the cascade of `_cascade_unsuccessful`, the
earlier calls can admit nothing: the jobs that leave are dependents of a failed
job, not ready, so they held neither barrier nor slot. In `Runtime.start` the
jobs are enqueued one by one, which run `schedule_loop` compares with one pass.

*Records.* `state[j]` is `jobs.state` ("none" before submission). `deps` is fixed
in `Init` because `create_job_with_dependencies` only links to existing jobs of
the same project and links never change; job ids are numbered in creation
order, which is the order of `queued_jobs`.

*Running a job.* `RunStart` (to the first await), `RunEnd` (the executor is
back: terminal commit, cascade, early release with `signal=False`), `RunReturn`
(notification done, final `_release`, waiters woken). A client acts between any
two of them. The executor is abstracted to an outcome: success, no success, or
an exception, which is recorded "failed" even when the job was cancelled
(`final_state` keeps its first value).

*Close.* `BeginClose` is `close` up to `gather`, `CloseEnds` the rest. Only
`submit` refuses while closing; `cancel` and `retry` are allowed, as in the
code. A job retried in that window gets a dispatch that `close` drops; the job
stays queued for the next start. Its completion event is never set: the model
removes it from `open` with the process, and `WaitersAndCloseEnd` therefore says nothing
about a client that waits in the last moments of the process.

*Crashes.* `CrashBetween` forgets the scheduler and keeps the records.
`CrashInTerminal`, `CrashInSubmit` and `CrashInStart` stop a handler between two of its
commits: after the terminal commit and any part of the cascade
(`IsTornCascade`), after the creation of a job whose dependency has failed, and
inside the repair of `start`.

*Executing a job.* `TargetExecutor` refines what `JobRuntime` abstracts to `RunEnd`.
`exec[j]` holds the local variables of `execute` with a `stage` for the await the
coroutine is in: permit wait (`waiting`, `granted`, `polling`), driver
(`running`), backoff. From the driver's return to the terminal commit nothing
suspends (the recorder's methods await only each other and synchronous SQLite
calls), so an attempt ends in one action; the drain of the stream bridge lies
before that and is part of `running`, as the cancel event is read after it.
`asyncio.Semaphore` is external: `Settle` hands permits to waiting jobs,
`Unlocked` keeps newcomers behind them; the order among waiters is left open,
since the timed waits destroy it. `CanRecover` and `Fail` choose freely how the
driver ended; `up` is what `available` answers. A session is identified by the turn that stored
it. The scheduler's `ExecutionExclusion` is the guard of `Begin`: one execution
per session scope. `cancelled` stands for `cancelled` and `interrupted` of a job stopped by
its event.

*Transcript stream.* A member of `reads` is one run of `drainPages`; the epoch and
the controller it captured are kept as `newest` and `aborted`. The log of a job is
its number of events. `source` is the `EventSource`, `queue` the hub's queue of one
cursor, `wire` what was sent. Aborting a waiting request removes it: its
`finally` clears no mark of a newer read. The prop `isTerminal` comes from the
job poll, so `LearnEnd` may come at any time after the end, and a retry behind
the hook's back is possible.

*Cards.* An event is its kind, attempt, name (`entity`, 0 for none) and two history
fields that no client sees: the call it belongs to, and whether its name is a guess
(`astray`). Three ways of naming are modelled (`Adapters`): messages that are named
but never announced (Claude, pi, agy), items with one counter for messages and
tools (Codex), and events without names, as older logs hold them; no adapter
emits reasoning summaries, so `SummaryDelta` occurs in those only.
Names start again in a recovery run of the same attempt, as the adapters' counters do.
A batch is committed, lost, or swallowed after the quota.

A completion whose provider id is missing or unknown gets the latest name the
adapter has given away, `tool-1` if there is none (`codex.py:316`, `pi.py:235`,
`agy.py:273`, `330`), and `Latest` is that name. `ToolCompleted` is a completion under
the name of its start, also when the guess happens to be right; `ToolCompletedAstray` ends
an open call under the name of another one; `ToolCompletedUnannounced` ends a
call that never started, and may name a number that belongs to a message or to
nothing. A message of Codex is announced or, as in most of its streams, only completed
(`codex.py:302`): `MessageCompleted` takes any announced name or `Latest`. agy keeps one
active tool, Codex and pi any number; the first is a subset.

*Screens.* A request carries the route it was made for, whether the effect that
made it is still `live`, and whether it is the `newest` of its query. `Effects` runs,
after every step, the effects whose dependencies changed: the polls are re-armed
or stopped there. A job changes twice: it ends, and is retried.

*Configuration.* `file` is the sequence of all changes; a revision is its length,
the content of an entry is the change that last wrote it, and `base` is the
change a request believes it replaces, which the code does not have: it is there
to state `NoLostUpdate`. A form is what `TargetEditor` and `ProfileEditor` share:
what it was loaded from (`base`), its revision, whether it is dirty, what it waits
for. `Interrupts` says what the user does while a request is under way: type into the
settings, close a busy dialog with Escape, which `Modal` allows at any time, ask
for a second dialog, or press Reload again. `editing` allows the first, `editing_close`
the second; the other two are there for a reader to try.

*Profiles.* An entry is the notation of a workflow (none, string, array, inline table,
table) with its policy; `Effective` reads it, `Updated` writes the form's payload into it.

## Runs

`PROJECT.json` names the module and the `.cfg` of each run.

| Run | Question | Bounds |
|---|---|---|
| `scheduler` | exclusion and limits, no dispatch or waiter left behind, under any calls in any order | 3 jobs, 3 workers, 1 project, 3 scopes, 2 readers, 3 dispatches in one life |
| `schedule_loop` | is the loop of `_schedule` the one-pass definition `Admitted`? | every queue of 4 jobs, 3 workers, 2 projects, 2 scopes |
| `jobs_retry` | records, dispatches and workers agree; dependencies; work conservation; bounded bypass; finality | 3 jobs, 2 workers, 2 scopes, 1 retry, no crash |
| `jobs_two` | refinement of `JobLedger` through crashes; jobs leave the queue, waiters wake, `close` ends | 2 jobs of one scope, 2 workers, 1 retry, 1 crash |
| `executor` | permits balance; nothing replayed after tools or started after a cancel; sessions and turns match outcomes; executions end | 2 jobs sharing one of 2 targets, 3 attempts, 2 executions, 1 crash |
| `stream` | is the transcript a prefix of the log that keeps up with it? | 2 jobs, 2 events each, pages of 1, 1 fault out of 6 kinds, 2 openings |
| `editing` | lost updates, drafts, confirmations, busy dialogs, on all four screens | 2 entries, 3 changes, 2 openings, 2 requests at a time, 2 lost or refused |
| `editing_close` | the same when a busy dialog can be closed: `NoLostUpdate` fails | 1 target, 4 changes, 2 openings, 2 requests, no fault |
| `screen` | what is shown belongs to the URL, polls live, the end of a job is seen | 2 projects, 2 jobs, 2 requests at a time, 1 loss, 2 navigations, 1 hiding |
| `transcript` | text and tool cards through recovery, guessed names, loss, quota and retry | 4 events, 2 attempts, 2 messages and 2 tools a run, 1 guess, 1 fault, 1 retry |
| `transcript_retry` | the same without the exception for retries: `ToolCardsSettle` fails | 6 events, no fault, no guess, 1 retry |
| `profile_draft` | saved as shown, untouched kept | 2 workflows, numbers 0 to 2, 2 targets, 4 edits between 2 writes |

Why the bounds are enough: an exclusion or a limit is violated by two jobs, or
by three readers under a limit of two; a barrier needs an exclusive job and a
job on each side; a generation mix-up needs one retry, and repairs need one
crash. Three workers in `scheduler` keep the reader limit (2) and `max_jobs` (3)
apart, and a job that is dispatched three times meets two workers that still
hold older dispatches of it. One project suffices, as projects only share
`max_jobs`, except in `schedule_loop`, which has two. Dependency shapes
(`Shapes`): none, one link, a chain, a fan-in. In the executor a target with one
permit and two jobs gives every race of grant, timeout and cancel; a plan with
one target exercises the reuse of targets, one with two the failover; three
failures open a circuit.

In `stream` two events with pages of one give a read that must go on, a read
overtaken and one repeated; a second opening gives answers of the previous job.
A stale form needs a change by somebody else between two answers, so two
requests and three changes; both entries are needed for an answer that reaches
the wrong one. `screen` has two jobs of different projects, so that every late
answer has another place to go wrong. A confusion of cards needs two names and
two runs of an attempt, a loss, a guess, or two executions: two starts and two
completions, which are four events. In `profile_draft` every
notation of the file meets every sequence of four edits.

The bounds are `MaxRetries`, `MaxCrashes`, `MaxDispatches`, `MaxRuns`; `MaxLog`, `MaxFaults`,
`MaxShows`; `MaxChanges`, `MaxOpens`, `MaxNet`; `MaxVersion`, `MaxMoves`, `MaxHides`; `MaxMessages`,
`MaxTools`, `MaxGuesses`, `MaxEdits`, `MaxWrites`. Symmetry is used in safety runs only.

Deadlock is not checked where the bounds let the system stop: jobs are all
submitted, retries used up, logs full, and a daemon with nothing to do is idle.

The daemon may restart at will (`StartDaemon` from "down"), so one behaviour
contains several lives.

### Disagreements

Two runs expect a violation; in each the code contradicts a sentence of the repository.

* `editing_close`: "External edits cannot be silently overwritten."
  (`docs/plans/dashboard-target-profile-crud/DESIGN.md:463`). A save meets a
  conflict; the user asks for a reload, closes the dialog with Escape and opens it
  again; a second change is made; the answer of the reload then gives the new form,
  which shows the older content and may be edited, the revision after that
  change (`TargetEditor.jsx:249`). Its save overwrites what nobody saw.
* `transcript_retry`: "`entity_id` is unique per tool lifecycle across an attempt."
  and "Never attach an explicitly identified completion to another tool."
  (`docs/plans/live-transcript-ux/phase-02/notes.md:20`, `prompt.md:46`). A retried
  job numbers attempts from 1 again (`execution.py:99`) in the same log, so its
  first tool has the name of a tool of the failed execution. A guess for an
  unknown id contradicts the second sentence as well; `MaxGuesses = 0` shows that
  the retry does so on its own.

Behaviours of the code the models contain and no property forbids, which a
maintainer may want to know: `refresh()` aborts the controller the stream's
handlers test, so live notifications stop until the hook is set up again
(`useJobStream.js:248`, `336`), and a failed read after the last notification is
not repeated; both are excluded by `Attached`. A refused stream (`readyState` 2) of a
job whose status is still "connecting" is not polled; the stream status of the
previous job is kept until the first page. A job retried after its end is not
followed until it is opened again. After the quota the end of the attempt is
not recorded, although `_push_event` means to exempt it. Two chains of one poll
can overlap after a page was hidden during a request.

### Fairness

Weak fairness per worker for taking or dropping a dispatch, for the end of an
execution, for the return after a notification, for the sentinel; weak fairness
for the end of `close`. The event loop runs every ready coroutine. An execution
ends because `max_attempts` bounds the attempts, each has a timeout, and the
waits watch the cancel event (`ExecutionEnds` checks this on `TargetExecutor`); notifications go to in-process queues. In the executor: weak fairness of
what the coroutine awaits (`GoesOn`: the loop head, the timed wait, the driver with its
`timeout_s`), strong fairness of `Resume`, since a
permit that arrives in the very turn of a timeout goes back and the code does
not exclude that this repeats. Nothing is
assumed of clients, of a start, or of crashes; `QueuedJobsLeave` therefore
excludes behaviours that leave "started".

In the browser: a request is answered, if only with an error, and the callback
of an answer, a notification or a timer runs; in `editing` for each purpose,
since requests are independent, in `screen` only for one request or another. `stream` adds that `EventSource` reconnects and that the job poll
learns the end. A job timer that waits for a free slot of the bounded network
has strong fairness (`screen`): the real network has no such limit. Nothing is
assumed of the user, of faults, or of the worker that writes the log, and
`Transcript` and `ProfileDraft` have safety properties only.

### What the properties say

`ExecutionExclusion`, `AdmissionLimits`, `RunningExclusion`: who may overlap, for
workers, reservations and records. `NoLostWork`: every dispatch that is reserved
or waited for has a worker or a place to end, and the early release never makes
a reserved job wait for another job. `RecordsAgree`: records, dispatches and
workers, the several books the daemon keeps. `NoUnexplainedWait`: `waiting_reason`
never reaches its last line, so no transition forgets `_schedule`.
`BoundedBypass`: the writer barrier. `WaiterSeesOutcome`: `wait` returns only after
an outcome. `OutcomeIsFinal`, `DependenciesHold`: the life of a record.
`PermitsAccounted`, `NoReplayAfterTools`, `NoStartAfterCancel`: what every way out of an
attempt owes to the next one. A target without structured streaming reports no
tool calls, so the second says nothing about it, like the code. `ResumesCurrentSession`,
`NoOutdatedSession`: a session read before the permit wait is still valid after
it, and a replaced one never comes back. `MemoryMatchesOutcome`: a turn per
success; a crash may leave the turn of an interrupted job, whose retry adds
another one.
`ImplementsLedger`: all of it implements the abstract `JobLedger`, with the
scheduler hidden and `up` mapped to `phase # "down"`.

`TranscriptIsPrefix`: the log is what a reader should have seen, and the hook never
deviates from its beginning. `StreamInv`: `inFlightJobRef` names a job exactly while one
read of it can take effect. `FollowsWhileAttached`: again and again the transcript
reaches the end of the log; while attached, that is, as the code gives up in the
cases listed above. `TextOnce`, `OwnCallSettles`: pieces and cards under their own
names. `OwnCallSettles` excepts names used twice by a retry, calls without
names whose start was lost, where nothing could tell, and two cards of each guess: the
one it names and the one whose completion it is. So it says how far a guess
reaches: all other cards of the attempt, and of other attempts, are settled by their own calls.
`ShowsTheRoute`, `QueryNeverGoesBack`, `ScreenInv`, `KeepsPolling`, `EndIsShown`: late answers
and cut chains. `NoLostUpdate`, `EditingInv`: a form never claims to know a newer
version than it shows. `DraftKept`, `DeletesWhatWasConfirmed`, `BusyEnds`: what the user
typed, ticked and waits for. `SavedAsShown`, `UntouchedKept`: the round trip of a
profile.

## Proofs

Every theorem holds for all values of the constants that satisfy the named
assumptions of the modules: `SchedAssumption` (`max_jobs` and
`max_project_readers` are positive, which `__init__` checks; finitely many jobs,
numbered), `BoundsAssumption`, `ExecAssumption` (positive `max_concurrency` and
`max_attempts`, plans that name targets), `StreamConstants` (positive page size and counters),
`EditingConstants`, `NoEntryAssumption`, `ScreenConstants`, `TranscriptConstants` (natural numbers),
`ProfileConstants` (a target to offer, the numbers 0 and 1, parents with policies). The bounds of the models
(`MaxRetries`, `MaxNet` and so on) are such constants, so a theorem speaks of any
number of retries, crashes, requests and faults. TLC checked each inductive invariant
on a run before it was proved.

### Scheduler

All of it is in `SchedulerProofs`.

* `AdmissionKeepsSafe`: one call of `_schedule` preserves exclusion and limits of the
  reservations. The set admitted is built up in queue order; the last job
  admitted was checked against all the others (`LastInQueue`), so exclusion and
  the counts follow for the whole set. `NoOvertaking`: a pass that leaves a
  ready exclusive job in the queue reserves no job of its project behind it.
* `InductiveInvariant`: `SchedSpec => []IInv`. `ExecutionExclusion` is not inductive:
  a worker's dispatch is protected only because it is live and reserved
  (`DispatchOK`), `_current` is exactly pending plus reserved (`CurrentOK`), the
  order is a strict one over `pending` (`InOrder`), and the reservations respect
  the rules (`Admissible`). For `NoLostWork` it also says where every reserved or
  awaited dispatch is (`WorkInv`). One lemma per method shows that it keeps `IInv`, for
  any readiness answer.
* `TypeCorrect`, `WorkersExclude`, `LimitsHold`, `NothingIsLost`: the run properties
  `SchedTypeOK`, `ExecutionExclusion`, `AdmissionLimits`, `NoLostWork` follow.
* `RescansAreOnePass`: `LoopIsOnePass` for every queue. `LoopInv` says that the jobs
  selected so far are those one pass selects (`Passes`), and that a job passed over
  stays unfit; the test `Passes` looks only in front of a job, so what is selected or
  enqueued behind it changes nothing. This is what allows `ProjectScheduler` to use
  `Admitted` for `_schedule`.

### Daemon

`JobRuntimeProofs` has three layers.

* `DaemonUsesScheduler`: `Spec => SchedSpec`. Every action of `JobRuntime`, a torn or a
  whole one, does to the variables of the scheduler what one of its methods does, or
  forgets them. All that is proved of `SchedSpec` therefore holds in the daemon
  (`DaemonLosesNothing`).
* `RecordsInvariant`: `Spec => [](IInv /\ RInv)`. `RInv` ties records to dispatches
  (`LiveRecords`), says that a job is created before it has a dispatch, in
  the order of the ids (`CreatedInOrder`), keeps `DependenciesHold`, and says that what is reserved is
  ready (`ReservedAreReady`): readiness, once true, is not taken back, because a success is
  final. `RecordsAreTrue`, `RecordsExclude`, `DependenciesAlwaysHold` follow; `OutcomesStay`,
  `WaitersSeeOutcomes` and `ExclusiveNotBypassed` are action properties proved from it.
  `EveryWaitIsExplained` needs an induction of its own: each step either
  calls `_schedule` after the change (`Reschedules`), and what one pass leaves behind has a
  reason, or changes nothing a reason depends on.
* `DaemonImplementsLedger`: the refinement of `JobLedger`, initial states and a step lemma
  (`LedgerStep`) with one case per action. A cascade, whole or torn, is one step of
  the ledger together with the change that caused it.

### Executor and memory

* `InductiveInvariant` of `TargetExecutorProofs`. `ResumesCurrentSession` is not inductive:
  a success of another job could replace the session while a job waits. That
  none can is `OnePerScope`, with the facts that only a running job has a local state
  and that stored sessions are not older than the last replacement (`MemoryOK`).
  `GoesTo` summarises every step: its own job moves on, some waiting ones are
  granted a permit. `SessionsAreCurrent` and `SessionsAreNotOutdated` follow.
* `TurnsMatchSuccesses`: `MemoryMatchesOutcome`; a turn is appended by the step that makes its
  job a success, and only the window between the two commits separates them.
* `CancelledStartNothing`, `NothingReplayed`: action properties, from `WhoInvokes`: only a
  step of the job's own coroutine invokes a driver, after it has looked at the
  cancel event and the tool activity.
* `PermitsBalance`: by counting. A step changes the number of holders of a target
  by its own change of stage (`CountChange`); the semaphore turns permits into
  holders one for one (`SettleCounts`).
* `ExecTypeCorrect`: `ExecTypeOK`; `active` stays natural because of `PermitsBalance`.
* `ExecutionsLookLikeRuns`: what `JobRuntime` abstracts to `RunStart` and `RunEnd`. A step that
  changes a record starts one job, beside none of its scope and with its event
  clear; or ends one with a state that `FinalState` allows, so never a success after a
  cancel was seen, and leaves nothing of its execution; or is a restart
  (`ExecutionsAreRuns`, which was also checked with TLC on the bounds of `executor`). A daemon that closes
  records "interrupted" where this module says "cancelled".

The induction assumes the guard of `Begin`, one execution per session scope, which is what
`WorkersExclude` proves of the scheduler.

### Dashboard

* `JobStreamProofs`: `TranscriptIsPrefix` is inductive only with what the pages on their
  way contain. `ReadOK` says it of every read: it asks for what is committed and its page holds
  that part of the log, and a read that can still take effect started at the cursor. `Tracked` and `OneNewest` make
  `inFlightJobRef` the name of the one read that counts. `ReadsAreTracked` and
  `TranscriptHolds` follow, for any log length, page size, number of jobs, openings and faults.
* `ConfigEditingProofs`: `DInv` is about dialogs and what they wait for, `EInv` about
  revisions. The heart of it: the revision a form or a request holds is
  one at which the entry was still what the form was loaded from (`EditorOK`, `FormOK`,
  `MutationOK`), and the answer that gives a form a new revision is one this form asked
  for (`OneOpening`, `OneWriting`). `NoUpdateIsLost`, `FormsMatchRevisions`, `DraftsAreKept` assume
  `Interrupts \subseteq {"type"}`, that is a user who lets a busy dialog finish;
  `OnlyConfirmedDeletes` assumes only that no second dialog is asked for before the
  first appears. These hypotheses describe users and not the code, and they are
  needed: with each of the other interruptions TLC finds a counterexample, one of which is
  the run `editing_close`.
* `JobScreenProofs`: `SInv` is `JobInv` while a job is watched and `QueryInv` while a query is.
  Of every request it says who still waits for it. A fetch is live and of the
  route; of a query's requests one is the newest, and what it brings is not older than what is shown
  (`Aging`); a poll that is wanted has a timer or a live tick (`PollGoesOn`).
  Two chains of one poll can overlap after the page was hidden, so `KeepsPolling` is
  preserved only because the chains are counted: never more than one and one for
  each hiding (`Chains`). `SpinnersWaitForRequests`, `RouteIsShown`, `PollsNeverDie`, `QueriesShowLaterStates` follow.

### Transcript

`TranscriptProofs` has two halves, one about the cards of any log and one about the logs
that a job writes.

* The fold. `Reduce` is a recursive function of the number of events. That such a
  function exists, and that the groups after n events are `Grouped` of those after
  n - 1 (`ReduceSteps`), is proved by a least counterexample. So is `CardsOfLog`, which says what
  the groups are after each event of a log (`TextCards`, `ToolCards`): one
  group per attempt; every piece of text in one message of its attempt, under its name,
  in order; every tool card begun by a start of its own call, and settled by the completion of that call
  unless an orphan, a namesake or a guess that concerns it has been read (`ToolOK`). Each function of
  `useJobStream.js` has a lemma that says what it does to the items of its attempt
  (`TextGrows`, `ToolStarts`, `ToolCompletes`); other groups stay as they are.
* What the fold needs of a log is only `Calls`: calls are numbered as they start; a
  completion comes after the start of its call, under the same attempt, and bears the same
  name or is marked as a guess; and where they have no name, no other tool is heard of in between.
* `TranscriptInvariant`: `Spec => []TranscriptInv`. `Calls` of the log is not inductive: the next
  completion depends on what the run has open. `OpenCalls` says that open calls
  have different names, that their starts, if they were recorded, are of this
  attempt and name, and that a run without names has one call open, the last the
  log has heard of. `FreshNames`, until the job is retried, says that the names used so far in the
  attempt, other than by guesses (`OwnName`), are ones this run has given away: a
  recovery run, which counts from 1 again, is only possible when no tool was started. A
  guess takes a name of the past and gives none away, so it disturbs nothing but the marks. A lost batch removes
  events but adds none, so none of this is disturbed.
* `TextIsShownOnce` and `OwnCallsSettle`: the two halves together, for the prefix that has been
  read. The exception of `OwnCallSettles` for names that were used twice is taken only
  after a retry because `FreshNames` implies `NamesOnce`: apart from guesses, a name of an
  attempt belongs to one call.

### Profiles

`ProfileDraftProofs`: `ProfilesInvariant` says that a declared workflow names
distinct targets and has an attempt, in whatever notation (`EntryOK`), and that
the fields of the form are numbers or empty (`Drafts`). `AppliedMeans` is the core: what
`_apply_workflow_policy` writes means the policy it was given, and is shorthand
only where shorthand can say it. `ChangeIsSave`: with the form open, only a save
changes the file. `SavesWhatIsShown` and `UntouchedStays` follow for any number of
workflows, targets and edits.

A least element of a set of naturals (`LeastNatural`, `Least`) comes from the
well-foundedness of `<` on `Nat`: the library's induction theorems, which take an
operator, cannot be used with the installed provers.

### Only model-checked

* Liveness: `QueuedJobsLeave`, `WaitersAndCloseEnd`, `ExecutionEnds`,
  `FollowsWhileAttached`, `BusyEnds`, `EndIsShown`. Fairness and ENABLED are out of the
  prover's reach.
* `NoLostUpdate` and `ToolCardsSettle` in the two runs that expect a violation, which
  TLC's counterexamples refute.

## Plan

1. Done: scheduler, job lifecycle, ledger, executor and memory; stream, cards,
   screens and editors of the dashboard.
2. Done: the proofs above, of every safety invariant and action property of the passing
   runs, and the link from the executor's steps to `RunStart` and `RunEnd`. Left: one module
   that composes `JobRuntime` and `TargetExecutor`, to state that link as a refinement.
3. Modules still worth writing: the bridge from provider threads, the rollback of
   `commit_bytes`, `job_wait` with paging, process groups, the
   follow mode of the transcript view.

## Not modelled

Besides item 3 of the plan: the project registry (a project is a constant;
`resolve_project` checks and inserts in one `BEGIN IMMEDIATE` transaction on one loop); SQLite failures other than a crash or a lost batch;
the cancellation of a worker task (`close` never cancels workers); the removal of
a project (no code removes one); the branch of `JobRunner.run` for a job
cancelled before it starts (the scheduler releases such a dispatch, so a worker
drops it); `signal` (no caller). In the dashboard: validation messages, which are
refusals like any other; the pruning of old transcripts, which moves the
beginning of a log and not its order; sorting, filtering and virtual scrolling;
the double click on a button that is about to be disabled. Config parsing,
planning, migrations, logging, CLI, models and provider parsers are data
handling without interleavings.
