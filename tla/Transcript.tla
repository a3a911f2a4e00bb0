----------------------------- MODULE Transcript -----------------------------
(***************************************************************************)
(* The transcript of one job, from the provider to the cards on screen.    *)
(*                                                                         *)
(* The adapters (src/src/openmcp/backends) number the messages and tools   *)
(* of one run of the provider; TargetExecutor records what they emit under *)
(* the number of the attempt, which may run the provider again to recover  *)
(* from a context overflow and starts at 1 again when the job is retried;  *)
(* the dashboard reads the committed events page by page and folds them    *)
(* into cards (TranscriptCards).                                           *)
(*                                                                         *)
(* StreamRecorder commits batches; a batch that fails to commit is lost    *)
(* and recording goes on; a quota ends the recording for good.             *)
(***************************************************************************)
EXTENDS TranscriptCards, FiniteSets

CONSTANTS MaxLog,       \* bound: events of the job
          MaxAttempts,  \* max_attempts of the plan
          MaxTools,     \* bound: tool calls of one run
          MaxMessages,  \* bound: messages of one run
          MaxFaults,    \* bound: batches lost, quota reached, daemon killed
          MaxGuesses,   \* bound: completions of tools that get a guessed name
          MaxRetries    \* bound: job_retry

ASSUME TranscriptConstants ==
  {MaxLog, MaxAttempts, MaxMessages, MaxTools, MaxFaults, MaxGuesses, MaxRetries} \subseteq Nat

VARIABLES
  log,       \* the committed events
  phase,     \* the job: between attempts, running an attempt, or over
  attempt,   \* the number of the attempt
  run,       \* the run of the provider: its adapter and what it has numbered
  calls,     \* how many tools have been called
  guesses,   \* what is left of MaxGuesses
  recording, \* no quota has been reached
  faults,    \* what is left of MaxFaults
  retries,   \* what is left of MaxRetries
  shown      \* the dashboard: how many events it has read

vars == <<log, phase, attempt, run, calls, guesses, recording, faults, retries, shown>>

\* The adapters of Claude, pi and agy name messages they never announce; the one
\* of Codex completes messages, announced or not; older logs hold events without
\* names.
Adapters == {"deltas", "items", "unnamed"}

\* One run of the provider: what it has numbered, the tool calls that are open,
\* the messages it has announced, and how many runs the attempt has had.
NewRun(adapter, n) ==
  [adapter |-> adapter, n |-> n, messages |-> 0, tools |-> 0, open |-> <<>>, announced |-> {}]

\* The names a run has given away: Codex numbers messages and tools with one
\* counter, the others number tools.
Counter == run.tools + IF run.adapter = "items" THEN run.messages ELSE 0

\* What an adapter calls a completion whose id it does not know, or that has none:
\* the latest name, whatever it was given to.
Latest == IF Counter = 0 THEN 1 ELSE Counter

Named(number) == IF run.adapter = "unnamed" THEN 0 ELSE number

\* `call` and `astray`, which no client sees, tell the call that an event is about
\* and that its name is a guess.
Event(kind, entity, call) ==
  [id |-> 0, kind |-> kind, attempt |-> attempt, entity |-> entity, call |-> call,
   astray |-> FALSE, status |-> "none"]

Astray(call) == [Event("tool.completed", Latest, call) EXCEPT !.astray = TRUE]

\* A batch is committed with the next ids, lost, or swallowed after a quota; what
\* the provider does once nothing of it is recorded is left out.
Record(events) ==
  \/ /\ recording
     /\ Len(log) + Len(events) <= MaxLog
     /\ log' = log \o [k \in DOMAIN events |-> [events[k] EXCEPT !.id = Len(log) + k]]
     /\ UNCHANGED <<recording, faults>>
  \/ /\ recording /\ faults > 0
     /\ faults' = faults - 1
     /\ UNCHANGED <<log, recording>>
  \/ /\ ~recording
     /\ UNCHANGED <<log, recording, faults>>

Emits(events) == phase = "running" /\ recording /\ Record(events) /\ UNCHANGED <<phase, attempt, calls, retries, shown>>

-----------------------------------------------------------------------------
Init ==
  /\ log = <<>> /\ shown = 0
  /\ phase = "between" /\ attempt = 0 /\ calls = 0 /\ guesses = MaxGuesses
  /\ run = NewRun("deltas", 1)
  /\ recording = TRUE /\ faults = MaxFaults /\ retries = MaxRetries

StartAttempt ==
  /\ phase = "between" /\ attempt < MaxAttempts
  /\ attempt' = attempt + 1 /\ phase' = "running"
  /\ \E adapter \in Adapters : run' = NewRun(adapter, 1)
  /\ UNCHANGED <<log, calls, guesses, recording, faults, retries, shown>>

\* A piece of text; Claude numbers the blocks of a message, from 0 in each.
TextDelta ==
  /\ run.adapter # "items"
  /\ \E m \in 1..MaxMessages : Emits(<<Event("text.delta", Named(m), 0)>>)
  /\ UNCHANGED <<run, guesses>>

\* A piece of a summary.  No adapter of this code emits one; the reducer still
\* reads them, so they stand for what older logs hold.
SummaryDelta ==
  /\ run.adapter = "unnamed"
  /\ Emits(<<Event("summary.delta", 0, 0)>>)
  /\ UNCHANGED <<run, guesses>>

MessageStarted ==
  /\ run.adapter = "items" /\ run.messages < MaxMessages
  /\ Emits(<<Event("message.started", Counter + 1, 0)>>)
  /\ run' = [run EXCEPT !.messages = @ + 1, !.announced = @ \union {Counter + 1}]
  /\ UNCHANGED guesses

\* The text of a message comes with its completion, unless it is empty.  A message
\* that was not announced, as most are not, takes the latest name.
MessageCompleted ==
  /\ run.adapter = "items"
  /\ \E m \in run.announced \union {Latest} :
       LET done == Event("message.completed", m, 0)
       IN  Emits(<<done>>) \/ Emits(<<Event("text.delta", m, 0), done>>)
  /\ UNCHANGED <<run, guesses>>

\* Only events with names tell calls apart that overlap.
ToolStarted ==
  /\ run.tools < MaxTools
  /\ run.adapter = "unnamed" => run.open = <<>>
  /\ phase = "running" /\ recording /\ calls' = calls + 1
  /\ Record(<<Event("tool.started", Named(Counter + 1), calls + 1)>>)
  /\ run' = [run EXCEPT !.tools = @ + 1, !.open = Append(@, [name |-> Counter + 1, call |-> calls + 1])]
  /\ UNCHANGED <<phase, attempt, guesses, retries, shown>>

\* The adapter knows which call has ended.
ToolCompleted ==
  /\ \E k \in DOMAIN run.open :
       /\ Emits(<<Event("tool.completed", Named(run.open[k].name), run.open[k].call)>>)
       /\ run' = [run EXCEPT !.open = RemoveAt(@, k)]
  /\ UNCHANGED guesses

\* It does not, and gives the completion the name of a later call.
ToolCompletedAstray ==
  /\ run.adapter # "unnamed" /\ guesses > 0 /\ guesses' = guesses - 1
  /\ \E k \in DOMAIN run.open :
       /\ run.open[k].name # Latest
       /\ Emits(<<Astray(run.open[k].call)>>)
       /\ run' = [run EXCEPT !.open = RemoveAt(@, k)]

\* The end of a call whose start was never told takes a name all the same.
ToolCompletedUnannounced ==
  /\ run.adapter # "unnamed" /\ guesses > 0 /\ guesses' = guesses - 1
  /\ phase = "running" /\ recording /\ calls' = calls + 1
  /\ Record(<<Astray(calls + 1)>>)
  /\ UNCHANGED <<phase, attempt, run, retries, shown>>

\* Broken variant: a run that has called a tool is run again.
CanRecoverAnyway == run.n < 3

\* The session was too long for the target: the provider runs again within the
\* attempt, without the session and then without history, unless it used a tool.
CanRecover == run.tools = 0 /\ run.n < 3

Recover ==
  /\ phase = "running" /\ recording /\ CanRecover
  /\ run' = NewRun(run.adapter, run.n + 1)
  /\ UNCHANGED <<log, phase, attempt, calls, guesses, recording, faults, retries, shown>>

\* The last event of an attempt.  A failure after a tool is not tried again.
AttemptFinished ==
  /\ phase = "running"
  /\ \E status \in {"succeeded", "failed"} :
       /\ Record(<<[Event("attempt.finished", 0, 0) EXCEPT !.status = status]>>)
       /\ phase' = IF status = "succeeded" THEN "succeeded"
                   ELSE IF run.tools > 0 \/ attempt = MaxAttempts THEN "unsuccessful"
                   ELSE "between"
  /\ run' = NewRun("deltas", 1)
  /\ UNCHANGED <<attempt, calls, guesses, retries, shown>>

\* The daemon dies and marks the job interrupted when it starts again.
Interrupt ==
  /\ phase \in {"between", "running"} /\ faults > 0
  /\ phase' = "unsuccessful" /\ faults' = faults - 1
  /\ run' = NewRun("deltas", 1)
  /\ UNCHANGED <<log, attempt, calls, guesses, recording, retries, shown>>

\* A batch meets the quota of the job: one marker, and nothing after it.
Truncate ==
  /\ phase = "running" /\ recording /\ faults > 0 /\ Len(log) < MaxLog
  /\ log' = Append(log, [Event("stream.truncated", 0, 0) EXCEPT !.id = Len(log) + 1])
  /\ recording' = FALSE /\ faults' = faults - 1
  /\ UNCHANGED <<phase, attempt, run, calls, guesses, retries, shown>>

\* job_retry runs the same job again, and its attempts are numbered from 1 again.
JobRetry ==
  /\ phase = "unsuccessful" /\ retries > 0
  /\ phase' = "between" /\ attempt' = 0 /\ retries' = retries - 1
  /\ UNCHANGED <<log, run, calls, guesses, recording, faults, shown>>

\* The dashboard applies a page.
Page ==
  /\ shown < Len(log)
  /\ \E upto \in shown + 1 .. Len(log) : shown' = upto
  /\ UNCHANGED <<log, phase, attempt, run, calls, guesses, recording, faults, retries>>

Next ==
  \/ StartAttempt \/ TextDelta \/ SummaryDelta \/ MessageStarted \/ MessageCompleted
  \/ ToolStarted \/ ToolCompleted \/ ToolCompletedAstray \/ ToolCompletedUnannounced \/ Recover \/ AttemptFinished
  \/ Interrupt \/ Truncate \/ JobRetry \/ Page

Spec == Init /\ [][Next]_vars

-----------------------------------------------------------------------------
Seen == SubSeq(log, 1, shown)

\* The cards of a type on screen, with the attempt they stand under.
Cards(type) ==
  LET groups == Reduce(Seen)
  IN  UNION {{[attempt |-> groups[g].attempt, card |-> groups[g].items[k]] :
                k \in {i \in DOMAIN groups[g].items : groups[g].items[i].type = type}} :
             g \in DOMAIN groups}

SeenOf(kind) == {Seen[k] : k \in {i \in DOMAIN Seen : Seen[i].kind = kind}}

Increasing(s) == \A i, j \in DOMAIN s : i < j => s[i] < s[j]

\* Every piece of text that has been read stands in exactly one message, under
\* its own attempt and its own name, and a message holds its pieces in the order
\* of the log: through recovery runs that use the same names again, lost batches
\* and attempts that end without an event.
TextOnce ==
  LET messages == Cards("message")
  IN  /\ \A m \in messages : Increasing(m.card.text)
      /\ \A e \in SeenOf("text.delta") :
           \E m \in messages :
             /\ e.id \in ToSet(m.card.text)
             /\ m.attempt = e.attempt
             /\ e.entity # 0 => m.card.entity = e.entity
             /\ \A other \in messages : e.id \in ToSet(other.card.text) => other = m
      /\ \A m \in messages : ToSet(m.card.text) \subseteq {e.id : e \in SeenOf("text.delta")}

\* A tool card is settled exactly when the completion of its own call has been
\* read, and then shows the output of that call.
Settled(t) ==
  IF t.card.call \in {e.call : e \in SeenOf("tool.completed")}
    THEN t.card.status = "completed" /\ t.card.output = t.card.call
    ELSE t.card.status = "running" /\ t.card.output = 0

\* Every card of a tool is settled by its own call: no call settles another that
\* overlaps with it or that had its name in another attempt.
ToolCardsSettle == \A t \in Cards("tool") : Settled(t)

\* The same, but for what the names cannot tell: a nameless completion whose start
\* was lost; a completion whose name the adapter guessed, which spoils no card but
\* the one it names and its own; and, once the job was retried and its attempts
\* start at 1 again, a name used twice.  It needs names that are used once in an
\* attempt, hence no recovery run after a tool call.
OwnCallSettles ==
  \A t \in Cards("tool") :
    \/ Settled(t)
    \/ \E e \in SeenOf("tool.completed") :
         /\ e.entity = 0 /\ e.attempt = t.attempt
         /\ e.call \notin {s.call : s \in SeenOf("tool.started")}
    \/ \E e \in SeenOf("tool.completed") :
         /\ e.astray /\ e.attempt = t.attempt
         /\ e.entity = t.card.entity \/ e.call = t.card.call
    \/ /\ retries < MaxRetries
       /\ \E e \in SeenOf("tool.started") \union SeenOf("tool.completed") :
            e.attempt = t.attempt /\ e.entity = t.card.entity /\ e.call # t.card.call
=============================================================================
