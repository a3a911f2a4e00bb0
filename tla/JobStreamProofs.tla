--------------------------- MODULE JobStreamProofs ---------------------------
(***************************************************************************)
(* The transcript on screen is the beginning of the open job's log, and    *)
(* the references of the hook are right about its reads, for any number of *)
(* jobs, any length of the logs and of a page, and any sequence of faults, *)
(* refreshes and switches between jobs.                                    *)
(*                                                                         *)
(* Neither is inductive alone.  They rest on this: only the read started   *)
(* last still has its epoch, so at most one read can take effect; that one *)
(* stands at the hook's cursor; and inFlightJobRef names the open job as   *)
(* long as there is one.                                                   *)
(***************************************************************************)
EXTENDS JobStream, FiniteSetTheorems, TLAPS

(* Only the last read has kept its epoch (fetchEpochRef).                  *)
OneNewest == \A r, s \in reads : r.newest /\ s.newest => r = s

(* A read asks for what is committed, and is answered with it; the one     *)
(* that can take effect goes on where the transcript ends.                 *)
ReadOK(r) ==
  /\ r.after <= log[r.job]
  /\ r.reply.kind = "page" => r.after <= r.reply.upto /\ r.reply.upto <= log[r.job]
  /\ Effective(r) => r.after = cursor

(* ReaderIsTracked, given OneNewest.                                       *)
Tracked == active # NoJob => (inFlight = active <=> \E r \in reads : Effective(r))

(* Without an open job nothing is read and nothing subscribed.             *)
Detached == active = NoJob => inFlight = NoJob /\ source = "none"

(* The inductive invariant, besides the types.                             *)
Rest ==
  /\ OneNewest
  /\ \A r \in reads : ReadOK(r)
  /\ Tracked
  /\ Detached
  /\ TranscriptIsPrefix
  /\ NotificationIsRead

-----------------------------------------------------------------------------
LEMMA ReadTyped ==
  ASSUME NEW r \in Reads
  PROVE  /\ r.job \in Jobs /\ r.after \in 0..MaxLog /\ r.aborted \in BOOLEAN
         /\ r.newest \in BOOLEAN /\ r.role \in {"initial", "final", "delta"}
         /\ r.reply \in Replies
         /\ [r EXCEPT !.newest = FALSE] \in Reads
         /\ [r EXCEPT !.aborted = TRUE] \in Reads
         /\ \A x \in Replies : [r EXCEPT !.reply = x] \in Reads
         /\ \A a \in 0..MaxLog : [r EXCEPT !.after = a, !.reply = Waiting] \in Reads
BY DEF Reads, Replies

LEMMA IntervalSize ==
  ASSUME NEW c \in Nat, NEW u \in Nat, c <= u
  PROVE  Cardinality((c + 1)..u) = u - c
<1>1. c + 1 \in Int /\ u \in Int
  OBVIOUS
<1>2. Cardinality((c + 1)..u) = IF c + 1 > u THEN 0 ELSE u - (c + 1) + 1
  BY <1>1, FS_Interval
<1> QED
  BY <1>2

LEMMA ReplyTyped ==
  ASSUME NEW x \in Replies, x.kind = "page"
  PROVE  x.upto \in 0..MaxLog /\ x.stream \in TerminalStatuses \cup {"active"}
BY DEF Replies, Waiting, Failed

(* The first n events of the log of j, as the transcript shows them.       *)
Beginning(j, n) == [k \in 1..n |-> <<j, k>>]

(* A page that continues the transcript adds exactly what is missing.      *)
LEMMA NewEventsContinue ==
  ASSUME NEW r, NEW j, r.job = j, NEW u \in Nat, r.reply.upto = u,
         cursor \in Nat, r.after = cursor, cursor <= u,
         events = Beginning(j, cursor)
  PROVE  events \o NewEvents(r) = Beginning(j, u)
<1>0. events = [k \in 1..cursor |-> <<j, k>>]
  BY DEF Beginning
<1>1. ASSUME NEW k
      PROVE  <<j, k>> \in Range(events) <=> k \in 1..cursor
  <2>1. DOMAIN events = 1..cursor /\ \A i \in 1..cursor : events[i] = <<j, i>>
    BY <1>0
  <2>2. \A i : <<j, i>> = <<j, k>> <=> i = k
    OBVIOUS
  <2> QED
    BY <2>1, <2>2 DEF Range
<1> DEFINE new == {k \in (r.after + 1)..r.reply.upto : <<r.job, k>> \notin Range(events)}
<1>2. new = (cursor + 1)..u
  BY <1>1
<1> DEFINE below(k) == {i \in new : i <= k}
           nth(n) == CHOOSE k \in new : Cardinality(below(k)) = n
<1>3. NewEvents(r) = [n \in 1..Cardinality(new) |-> <<r.job, nth(n)>>]
  BY DEF NewEvents
<1> HIDE DEF new
<1>4. Cardinality(new) = u - cursor
  BY <1>2, IntervalSize
<1>5. ASSUME NEW n \in 1..(u - cursor) PROVE nth(n) = cursor + n
  <2>1. ASSUME NEW k \in new PROVE Cardinality(below(k)) = k - cursor /\ k \in Nat
    <3>1. below(k) = (cursor + 1)..k /\ k \in Nat /\ cursor <= k
      BY <1>2
    <3> QED
      BY <3>1, IntervalSize
  <2>2. cursor + n \in new /\ cursor + n \in Nat
    BY <1>2
  <2> HIDE DEF below
  <2>3. nth(n) \in new /\ Cardinality(below(nth(n))) = n
    <3>1. Cardinality(below(cursor + n)) = n
      BY <2>1, <2>2
    <3> QED
      BY <2>2, <3>1
  <2> HIDE DEF nth
  <2> QED
    BY <2>1, <2>3
<1> HIDE DEF nth
<1>6. NewEvents(r) = [n \in 1..(u - cursor) |-> <<j, cursor + n>>]
  BY <1>3, <1>4, <1>5
<1>7. events \in Seq({j} \X Nat) /\ NewEvents(r) \in Seq({j} \X Nat)
  <2>1. events \in Seq({j} \X Nat)
    BY <1>0
  <2>2. u - cursor \in Nat /\ \A n \in 1..(u - cursor) : <<j, cursor + n>> \in {j} \X Nat
    OBVIOUS
  <2>3. NewEvents(r) \in Seq({j} \X Nat)
    BY <1>6, <2>2
  <2> QED
    BY <2>1, <2>3
<1>8. Len(events) = cursor /\ Len(NewEvents(r)) = u - cursor
  BY <1>0, <1>6
<1>9. events \o NewEvents(r) = [k \in 1..u |-> <<j, k>>]
  BY <1>0, <1>6, <1>7, <1>8
<1> QED
  BY <1>9 DEF Beginning

-----------------------------------------------------------------------------
LogGrows == \A j \in Jobs : log[j] \in Nat /\ log'[j] \in Nat /\ log[j] <= log'[j]

(* The reads and what they have brought are left alone.                    *)
LEMMA QuietKeeps ==
  ASSUME TypeOK, Rest, LogGrows,
         UNCHANGED <<active, events, cursor, notified, error, reads, inFlight>>,
         source' = source \/ source # "none"
  PROVE  Rest'
<1>1. OneNewest' /\ Tracked' /\ Detached' /\ NotificationIsRead'
  BY DEF Rest, OneNewest, Tracked, Detached, NotificationIsRead, Effective
<1>2. ASSUME NEW r \in reads PROVE ReadOK(r)'
  <2>1. /\ r.job \in Jobs /\ r.after \in Nat
        /\ r.reply.kind = "page" => r.reply.upto \in Nat
    <3>1. r \in Reads
      BY DEF TypeOK
    <3>2. r.job \in Jobs /\ r.after \in 0..MaxLog /\ r.reply \in Replies
      BY <3>1, ReadTyped
    <3>3. r.reply.kind = "page" => r.reply.upto \in 0..MaxLog
      BY <3>2, ReplyTyped
    <3> QED
      BY <3>2, <3>3
  <2>2. ReadOK(r)
    BY DEF Rest
  <2> QED
    BY <2>1, <2>2 DEF ReadOK, Effective, LogGrows
<1>3. TranscriptIsPrefix'
  BY DEF Rest, TranscriptIsPrefix, TypeOK, LogGrows
<1> QED
  BY <1>1, <1>2, <1>3 DEF Rest

(* Copies of reads that have lost their epoch.                             *)
LEMMA CopiesOf ==
  ASSUME TypeOK, NEW R, R = reads \/ R = Abort(reads), NEW q \in R
  PROVE  \E r \in reads : /\ q.job = r.job /\ q.after = r.after /\ q.reply = r.reply
                          /\ q.newest = r.newest /\ q \in Reads
                          /\ r.aborted => q.aborted
<1>1. CASE R = reads
  BY <1>1 DEF TypeOK
<1>2. CASE R = Abort(reads)
  <2>1. PICK r \in reads : q = [r EXCEPT !.aborted = TRUE]
    BY <1>2 DEF Abort
  <2>2. r \in Reads
    BY DEF TypeOK
  <2> QED
    BY <2>1, <2>2, ReadTyped DEF Reads
<1> QED
  BY <1>1, <1>2

(* A new read of the job that is open after the step.                      *)
LEMMA StartReadKeeps ==
  ASSUME TypeOK, Rest, NEW R, R = reads \/ R = Abort(reads),
         NEW j \in Jobs, NEW role \in {"initial", "final", "delta"},
         NEW c \in 0..MaxLog, c <= log[j], cursor' = c,
         reads' = StartRead(R, j, c, role),
         active' = j, inFlight' = j, UNCHANGED log
  PROVE  /\ reads' \subseteq Reads
         /\ OneNewest' /\ (\A r \in reads' : ReadOK(r)') /\ Tracked' /\ Detached'
         /\ NotificationIsRead'
<1>0. PICK new : new = [job |-> j, after |-> c, aborted |-> FALSE, newest |-> TRUE,
                        role |-> role, reply |-> Waiting]
  OBVIOUS
<1>1. /\ new \in Reads /\ new.newest /\ new.job = j /\ new.after = c
      /\ ~new.aborted /\ new.reply.kind = "waiting"
  BY <1>0 DEF Reads, Replies, Waiting
<1>2. reads' = {[r EXCEPT !.newest = FALSE] : r \in R} \cup {new}
  BY <1>0 DEF StartRead
<1>3. ASSUME NEW q \in reads', q # new
      PROVE  /\ q \in Reads /\ ~q.newest
             /\ \E r \in reads : q.job = r.job /\ q.after = r.after /\ q.reply = r.reply
  <2>1. PICK p \in R : q = [p EXCEPT !.newest = FALSE]
    BY <1>2, <1>3
  <2>2. PICK r \in reads : /\ p.job = r.job /\ p.after = r.after /\ p.reply = r.reply
                           /\ p \in Reads
    BY CopiesOf
  <2>3. q.job = p.job /\ q.after = p.after /\ q.reply = p.reply /\ ~q.newest
    BY <2>1, <2>2 DEF Reads
  <2> QED
    BY <2>1, <2>2, <2>3, ReadTyped
<1>4. new \in reads' /\ Effective(new)'
  BY <1>1, <1>2 DEF Effective
<1>5. \A q \in reads' : ReadOK(q)'
  <2>1. ReadOK(new)'
    BY <1>1 DEF ReadOK, Effective
  <2>2. ASSUME NEW q \in reads', q # new PROVE ReadOK(q)'
    BY <1>3, <2>2 DEF Rest, ReadOK, Effective
  <2> QED
    BY <2>1, <2>2
<1>6. reads' \subseteq Reads /\ OneNewest'
  BY <1>1, <1>3 DEF OneNewest
<1>7. Tracked' /\ Detached' /\ NotificationIsRead'
  BY <1>4, StreamConstants DEF Tracked, Detached, NotificationIsRead
<1> QED
  BY <1>5, <1>6, <1>7

(* A read goes on, with an answer or from where it stands now.             *)
LEMMA ReplaceKeeps ==
  ASSUME TypeOK, Rest, NEW r \in reads, NEW q \in Reads,
         reads' = (reads \ {r}) \cup {q},
         q.job = r.job, q.aborted = r.aborted, q.newest = r.newest,
         UNCHANGED <<log, active, inFlight, source>>, ReadOK(q)',
         cursor' = cursor \/ Effective(r)
  PROVE  /\ reads' \subseteq Reads
         /\ OneNewest' /\ (\A s \in reads' : ReadOK(s)') /\ Tracked' /\ Detached'
         /\ ((\E s \in reads : Effective(s)) => \E s \in reads' : Effective(s)')
<1>1. OneNewest'
  BY DEF OneNewest, Rest
<1>2. \A s : Effective(s)' <=> Effective(s)
  BY DEF Effective
<1>3. Effective(q) <=> Effective(r)
  BY DEF Effective
<1>4. (\E s \in reads' : Effective(s)') <=> \E s \in reads : Effective(s)
  BY <1>2, <1>3
<1>5. Tracked' /\ Detached'
  BY <1>4 DEF Tracked, Detached, Rest
<1>6. ASSUME NEW s \in reads \ {r} PROVE ReadOK(s)'
  <2>1. ReadOK(s) /\ (Effective(r) => ~Effective(s))
    BY <1>6 DEF Rest, OneNewest, Effective
  <2> QED
    BY <1>2, <2>1 DEF ReadOK
<1> QED
  BY <1>1, <1>4, <1>5, <1>6 DEF TypeOK

(* A read ends.                                                            *)
LEMMA RemoveKeeps ==
  ASSUME TypeOK, Rest, NEW r \in reads, reads' = reads \ {r}, ReadEnds(r),
         UNCHANGED <<log, active>>, cursor' = cursor \/ Effective(r)
  PROVE  /\ reads' \subseteq Reads
         /\ OneNewest' /\ (\A s \in reads' : ReadOK(s)') /\ Tracked' /\ Detached'
         /\ inFlight' \in Jobs \cup {NoJob}
<1>1. OneNewest' /\ reads' \subseteq Reads
  BY DEF OneNewest, Rest, TypeOK
<1>2. \A s : Effective(s)' <=> Effective(s)
  BY DEF Effective
<1>3. ASSUME NEW s \in reads \ {r}
      PROVE  ReadOK(s)' /\ (r.newest => ~Effective(s))
  <2>1. ReadOK(s) /\ (r.newest => ~Effective(s))
    BY <1>3 DEF Rest, OneNewest, Effective
  <2>2. Effective(r) => r.newest
    BY DEF Effective
  <2> QED
    BY <1>2, <2>1, <2>2 DEF ReadOK
<1>4. inFlight' = IF inFlight = r.job /\ r.newest THEN NoJob ELSE inFlight
  BY DEF ReadEnds
<1>5. Tracked'
  <2> SUFFICES ASSUME active # NoJob
               PROVE  inFlight' = active <=> \E s \in reads \ {r} : Effective(s)
    BY <1>2 DEF Tracked
  <2>1. inFlight = active <=> \E s \in reads : Effective(s)
    BY DEF Rest, Tracked
  <2>2. CASE r.newest /\ r.job = active
    BY <1>3, <1>4, <2>1, <2>2
  <2>3. CASE ~(r.newest /\ r.job = active)
    <3>1. ~Effective(r)
      BY <2>3 DEF Effective
    <3>2. inFlight' = active <=> inFlight = active
      BY <1>4, <2>3
    <3> QED
      BY <2>1, <3>1, <3>2
  <2> QED
    BY <2>2, <2>3
<1>6. Detached'
  BY DEF Detached, Rest, ReadEnds, NoSource, stream
<1> QED
  BY <1>1, <1>3, <1>4, <1>5, <1>6 DEF TypeOK

-----------------------------------------------------------------------------
LEMMA PollEffectTyped ==
  ASSUME TypeOK, RunPollEffect
  PROVE  pollArmed' \in BOOLEAN
<1>1. PollEffect(active', isTerminal', streamStatus', status', source' # "none") \in BOOLEAN
  BY DEF PollEffect
<1> QED
  BY <1>1 DEF RunPollEffect, TypeOK

(* The server's steps on the open job.                                     *)
LEMMA ServerKeeps ==
  ASSUME TypeOK, Rest, NEW j \in Jobs,
         Commit(j) \/ LoseBatch(j) \/ Finish(j) \/ Retry(j)
  PROVE  TypeOK' /\ Rest'
<1>1. LogGrows /\ log' \in [Jobs -> 0..MaxLog]
  <2>1. CASE Commit(j)
    BY <2>1, StreamConstants DEF Commit, TypeOK, LogGrows
  <2>2. CASE UNCHANGED log
    BY <2>2 DEF TypeOK, LogGrows
  <2> QED
    BY <2>1, <2>2 DEF LoseBatch, Finish, Retry, server
<1>2. UNCHANGED <<active, isTerminal, events, cursor, streamStatus, error, notified, status,
                  reads, inFlight, setupAborted, pollArmed, source>>
  BY DEF Commit, LoseBatch, Finish, Retry, shown, stream
<1>3. Rest'
  BY <1>1, <1>2, QuietKeeps
<1>4. queue' \in 0..MaxLog /\ wire' \subseteq 0..MaxLog
  <2>1. CASE Commit(j)
    <3>1. log'[j] \in 0..MaxLog
      BY <1>1
    <3> QED
      BY <2>1, <3>1 DEF Commit, TypeOK
  <2>2. CASE LoseBatch(j) \/ Finish(j) \/ Retry(j)
    <3>1. UNCHANGED <<queue, wire>>
      BY <2>2 DEF LoseBatch, Finish, Retry, stream
    <3> QED
      BY <3>1 DEF TypeOK
  <2> QED
    BY <2>1, <2>2
<1>5. /\ terminal' \in [Jobs -> BOOLEAN] /\ persistFailed' \in [Jobs -> BOOLEAN]
      /\ retried' \subseteq Jobs
  BY DEF Commit, LoseBatch, Finish, Retry, server, TypeOK
<1> QED
  BY <1>1, <1>2, <1>3, <1>4, <1>5 DEF TypeOK

(* What happens to the EventSource alone, and the retry seen.              *)
LEMMA SourceKeeps ==
  ASSUME TypeOK, Rest, Open \/ Drop \/ Refuse \/ LearnRetry \/ Send
  PROVE  TypeOK' /\ Rest'
<1>1. /\ UNCHANGED <<log, terminal, persistFailed, retried, active, events, cursor,
                     streamStatus, error, notified, reads, inFlight, setupAborted>>
      /\ source' = source \/ source # "none"
  BY DEF Open, Drop, Refuse, LearnRetry, Send, server, shown, stream
<1>2. LogGrows
  BY <1>1 DEF TypeOK, LogGrows
<1>3. Rest'
  BY <1>1, <1>2, QuietKeeps
<1>4. pollArmed' \in BOOLEAN
  BY PollEffectTyped DEF Open, Drop, Refuse, LearnRetry, Send, TypeOK
<1>5. source' \in {"none", "connecting", "open", "closed"}
  BY DEF Open, Drop, Refuse, LearnRetry, Send, NewSource, stream, TypeOK
<1>6. queue' \in 0..MaxLog /\ wire' \subseteq 0..MaxLog
  <2>1. CASE Open
    <3>1. active \in Jobs
      BY <2>1 DEF Open, TypeOK, Rest, Detached
    <3> QED
      BY <2>1, <3>1, StreamConstants DEF Open, TypeOK
  <2>2. CASE Drop \/ Refuse
    BY <2>2, StreamConstants DEF Drop, Refuse, NewSource
  <2>3. CASE LearnRetry
    BY <2>3 DEF LearnRetry, stream, TypeOK
  <2>4. CASE Send
    BY <2>4, StreamConstants DEF Send, TypeOK
  <2> QED
    BY <2>1, <2>2, <2>3, <2>4
<1>7. status' \in {"connecting", "live", "reconnecting"} /\ isTerminal' \in BOOLEAN
  BY DEF Open, Drop, Refuse, LearnRetry, Send, TypeOK
<1> QED
  BY <1>1, <1>3, <1>4, <1>5, <1>6, <1>7 DEF TypeOK

(* A request is answered, or fails.                                        *)
LEMMA AnswerKeeps ==
  ASSUME TypeOK, Rest, NEW r \in reads, Serve(r) \/ LoseReply(r)
  PROVE  TypeOK' /\ Rest'
<1>1. /\ UNCHANGED <<server, active, isTerminal, shown, notified, status, inFlight,
                     setupAborted, pollArmed, stream>>
  BY DEF Serve, LoseReply, server, shown, stream
<1>2. /\ r \in Reads /\ r.job \in Jobs /\ r.after \in 0..MaxLog /\ log[r.job] \in 0..MaxLog
      /\ r.after <= log[r.job] /\ ReadOK(r)
  BY ReadTyped DEF TypeOK, Rest, ReadOK
<1>3. PICK x \in Replies : /\ reads' = (reads \ {r}) \cup {[r EXCEPT !.reply = x]}
                           /\ x.kind = "page" => r.after <= x.upto /\ x.upto <= log[r.job]
  <2>1. CASE LoseReply(r)
    <3>1. Failed \in Replies /\ Failed.kind # "page"
      BY DEF Replies, Failed
    <3>2. reads' = (reads \ {r}) \cup {[r EXCEPT !.reply = Failed]}
      BY <2>1 DEF LoseReply
    <3> QED
      BY <3>1, <3>2
  <2>2. CASE Serve(r)
    <3> DEFINE upto == IF r.after + PageSize < log[r.job] THEN r.after + PageSize
                       ELSE IF r.after < log[r.job] THEN log[r.job] ELSE r.after
               x == [kind |-> "page", upto |-> upto,
                     more |-> upto > r.after /\ upto < log[r.job],
                     stream |-> ServedStatus(r.job)]
    <3>1. upto \in 0..MaxLog /\ r.after <= upto /\ upto <= log[r.job]
      BY <1>2, StreamConstants
    <3>2. ServedStatus(r.job) \in TerminalStatuses \cup {"active"}
      BY DEF ServedStatus, TerminalStatuses
    <3>3. reads' = (reads \ {r}) \cup {[r EXCEPT !.reply = x]}
      BY <2>2 DEF Serve
    <3>4. (upto > r.after /\ upto < log[r.job]) \in BOOLEAN
      OBVIOUS
    <3> HIDE DEF upto
    <3>5. x \in Replies /\ x.upto = upto
      BY <3>1, <3>2, <3>4 DEF Replies
    <3> QED
      BY <3>1, <3>3, <3>5
  <2> QED
    BY <2>1, <2>2
<1>4. PICK q \in Reads : /\ q = [r EXCEPT !.reply = x] /\ q.job = r.job /\ q.after = r.after
                         /\ q.aborted = r.aborted /\ q.newest = r.newest /\ q.reply = x
  <2>1. [r EXCEPT !.reply = x] \in Reads
    BY <1>2, ReadTyped
  <2> QED
    BY <1>2, <2>1 DEF Reads
<1>5. ReadOK(q)'
  BY <1>1, <1>2, <1>3, <1>4 DEF ReadOK, Effective, server, shown
<1>6. /\ reads' \subseteq Reads
      /\ OneNewest' /\ (\A s \in reads' : ReadOK(s)') /\ Tracked' /\ Detached'
      /\ ((\E s \in reads : Effective(s)) => \E s \in reads' : Effective(s)')
  BY <1>1, <1>3, <1>4, <1>5, ReplaceKeeps DEF server, shown, stream
<1>7. TranscriptIsPrefix' /\ NotificationIsRead'
  BY <1>1, <1>6 DEF Rest, TranscriptIsPrefix, NotificationIsRead, server, shown
<1> QED
  BY <1>1, <1>6, <1>7 DEF Rest, TypeOK, server, shown, stream

(* A new read of the open job.                                             *)
LEMMA ReadAgainKeeps ==
  ASSUME TypeOK, Rest, NEW R, R = reads \/ R = Abort(reads), active # NoJob,
         NEW role \in {"initial", "final", "delta"},
         reads' = StartRead(R, active, cursor, role), inFlight' = active,
         UNCHANGED <<log, active, events, cursor>>
  PROVE  Rest' /\ reads' \subseteq Reads /\ inFlight' \in Jobs
<1>1. active \in Jobs /\ cursor \in 0..MaxLog /\ cursor <= log[active]
  BY DEF TypeOK, Rest, TranscriptIsPrefix
<1>2. /\ reads' \subseteq Reads
      /\ OneNewest' /\ (\A r \in reads' : ReadOK(r)') /\ Tracked' /\ Detached'
      /\ NotificationIsRead'
  BY <1>1, StartReadKeeps
<1>3. TranscriptIsPrefix'
  BY DEF Rest, TranscriptIsPrefix
<1> QED
  BY <1>1, <1>2, <1>3 DEF Rest

LEMMA NotifyKeeps ==
  ASSUME TypeOK, Rest, Notify
  PROVE  TypeOK' /\ Rest'
<1>1. /\ UNCHANGED <<log, terminal, persistFailed, retried, active, isTerminal, events, cursor,
                     streamStatus, error, status, setupAborted, pollArmed, source, queue>>
      /\ wire' \subseteq wire
  BY DEF Notify, server, shown
<1>2. PICK c \in 0..MaxLog :
        IF setupAborted
        THEN UNCHANGED <<notified, reads, inFlight>>
        ELSE /\ notified' = IF c > notified THEN c ELSE notified
             /\ IF c > cursor /\ inFlight # active
                  THEN inFlight' = active /\ reads' = StartRead(reads, active, cursor, "delta")
                  ELSE UNCHANGED <<reads, inFlight>>
  BY DEF Notify, TypeOK
<1>3. notified' \in 0..MaxLog
  BY <1>2 DEF TypeOK
<1>4. CASE UNCHANGED <<reads, inFlight>>
  <2>1. OneNewest' /\ Tracked' /\ Detached' /\ \A r \in reads' : ReadOK(r)'
    BY <1>1, <1>4 DEF Rest, OneNewest, Tracked, Detached, Effective, ReadOK
  <2>2. TranscriptIsPrefix'
    BY <1>1 DEF Rest, TranscriptIsPrefix
  <2>3. NotificationIsRead'
    <3> SUFFICES ASSUME ~error, active # NoJob, cursor < notified'
                 PROVE  \E r \in reads : Effective(r)
      BY <1>1, <1>4 DEF NotificationIsRead, Effective
    <3>1. CASE notified' = notified
      BY <3>1 DEF Rest, NotificationIsRead
    <3>2. CASE notified' = c /\ c > cursor /\ ~setupAborted /\ notified' # notified
      <4>1. inFlight = active
        <5>1. inFlight # active => reads' = StartRead(reads, active, cursor, "delta") /\ inFlight' = active
          BY <1>2, <3>2
        <5> QED
          BY <1>4, <5>1
      <4> QED
        BY <4>1 DEF Rest, Tracked
    <3> QED
      BY <1>2, <3>1, <3>2
  <2> QED
    BY <1>1, <1>3, <1>4, <2>1, <2>2, <2>3 DEF Rest, TypeOK
<1>5. CASE ~UNCHANGED <<reads, inFlight>>
  <2>1. /\ inFlight # active /\ inFlight' = active
        /\ reads' = StartRead(reads, active, cursor, "delta")
    BY <1>2, <1>5
  <2>2. active # NoJob
    BY <2>1 DEF Rest, Detached
  <2>3. Rest' /\ reads' \subseteq Reads /\ inFlight' \in Jobs
    BY <1>1, <2>1, <2>2, ReadAgainKeeps
  <2> QED
    BY <1>1, <1>3, <2>3 DEF TypeOK
<1> QED
  BY <1>4, <1>5

LEMMA ReadAgain ==
  ASSUME TypeOK, Rest, Refresh \/ LearnEnd \/ PollTick
  PROVE  TypeOK' /\ Rest'
<1>1. UNCHANGED <<log, terminal, persistFailed, retried, active, events, cursor, streamStatus,
                  error, notified, status, source, queue, wire>>
  BY DEF Refresh, LearnEnd, PollTick, server, shown, stream
<1>2. active # NoJob
  BY DEF Refresh, LearnEnd, PollTick, Rest, Detached
<1>3. \E R \in {reads, Abort(reads)}, role \in {"final", "delta"} :
        inFlight' = active /\ reads' = StartRead(R, active, cursor, role)
  BY DEF Refresh, LearnEnd, PollTick
<1>4. Rest' /\ reads' \subseteq Reads /\ inFlight' \in Jobs
  BY <1>1, <1>2, <1>3, ReadAgainKeeps
<1>5. isTerminal' \in BOOLEAN /\ setupAborted' \in BOOLEAN /\ pollArmed' \in BOOLEAN
  BY PollEffectTyped DEF Refresh, LearnEnd, PollTick, TypeOK
<1> QED
  BY <1>1, <1>4, <1>5 DEF TypeOK

LEMMA ReadEndsTyped ==
  ASSUME TypeOK, NEW r, ReadEnds(r)
  PROVE  /\ status' \in {"connecting", "live", "reconnecting"}
         /\ source' \in {"none", "connecting", "open", "closed"}
         /\ queue' \in 0..MaxLog /\ wire' \subseteq 0..MaxLog
<1>1. status' = "live" \/ status' = status
  BY DEF ReadEnds
<1>2. CASE NoSource
  BY <1>1, <1>2, StreamConstants DEF NoSource, TypeOK
<1>3. CASE UNCHANGED stream
  BY <1>1, <1>3 DEF stream, TypeOK
<1> QED
  BY <1>2, <1>3 DEF ReadEnds

(* A page is applied: the read that brings it stands at the cursor, so its *)
(* events continue the transcript.                                         *)
LEMMA ApplyPageKeeps ==
  ASSUME TypeOK, Rest, NEW r \in reads, ApplyPage(r)
  PROVE  TypeOK' /\ Rest'
<1>1. r \in Reads /\ ReadOK(r) /\ Effective(r) /\ r.reply.kind = "page" /\ r.newest
  BY DEF TypeOK, Rest, ApplyPage, Effective
<1>2. r.job = active /\ r.job \in Jobs /\ active # NoJob /\ r.after = cursor
  BY <1>1, ReadTyped, StreamConstants DEF Effective, ReadOK
<1>3. PICK u \in 0..MaxLog : u = r.reply.upto /\ r.reply.stream \in TerminalStatuses \cup {"active"}
  BY <1>1, ReadTyped, ReplyTyped
<1>4. /\ cursor \in 0..MaxLog /\ log[active] \in 0..MaxLog
      /\ cursor <= u /\ u <= log[active]
      /\ events = [k \in 1..cursor |-> <<active, k>>]
  BY <1>1, <1>2, <1>3 DEF TypeOK, ReadOK, Rest, TranscriptIsPrefix
<1>5. /\ events' = events \o NewEvents(r) /\ cursor' = u /\ error' = FALSE
      /\ streamStatus' = r.reply.stream
      /\ UNCHANGED <<log, terminal, persistFailed, retried, active, isTerminal, notified,
                     setupAborted>>
  <2>1. /\ events' = events \o NewEvents(r) /\ cursor' = r.reply.upto /\ error' = FALSE
        /\ streamStatus' = r.reply.stream
    BY DEF ApplyPage
  <2>2. UNCHANGED <<server, active, isTerminal, notified, setupAborted>>
    BY DEF ApplyPage
  <2> QED
    BY <1>3, <2>1, <2>2 DEF server
<1>6. events' = [k \in 1..u |-> <<active, k>>]
  <2>1. events \o NewEvents(r) = [k \in 1..u |-> <<active, k>>]
    <3>1. u \in Nat /\ cursor \in Nat
      BY <1>4
    <3>2. PICK j : j = active
      OBVIOUS
    <3>3. /\ r.job = j /\ r.reply.upto = u /\ r.after = cursor /\ cursor <= u
          /\ events = Beginning(j, cursor)
      BY <1>2, <1>3, <1>4, <3>2 DEF Beginning
    <3>4. events \o NewEvents(r) = Beginning(j, u)
      BY <3>1, <3>3, NewEventsContinue
    <3> QED
      BY <3>2, <3>4 DEF Beginning
  <2> QED
    BY <1>5, <2>1
<1>7. TranscriptIsPrefix'
  BY <1>2, <1>4, <1>5, <1>6 DEF TranscriptIsPrefix
<1>8. events' \in Seq(Jobs \X (1..MaxLog))
  <2>1. u \in Nat /\ \A k \in 1..u : <<active, k>> \in Jobs \X (1..MaxLog)
    BY <1>2, StreamConstants
  <2> QED
    BY <1>6, <2>1
<1>9. pollArmed' \in BOOLEAN
  BY PollEffectTyped DEF ApplyPage
<1>10. CASE /\ reads' = (reads \ {r}) \cup {[r EXCEPT !.after = r.reply.upto, !.reply = Waiting]}
            /\ UNCHANGED <<status, stream, inFlight>>
  <2>1. PICK q \in Reads : /\ q = [r EXCEPT !.after = u, !.reply = Waiting]
                           /\ q.job = r.job /\ q.after = u /\ q.aborted = r.aborted
                           /\ q.newest = r.newest /\ q.reply = Waiting
    <3>1. [r EXCEPT !.after = u, !.reply = Waiting] \in Reads
      BY <1>1, ReadTyped
    <3> QED
      BY <1>1, <3>1 DEF Reads
  <2>2. ReadOK(q)'
    BY <1>2, <1>4, <1>5, <2>1 DEF ReadOK, Waiting
  <2>3. /\ reads' \subseteq Reads
        /\ OneNewest' /\ (\A s \in reads' : ReadOK(s)') /\ Tracked' /\ Detached'
        /\ ((\E s \in reads : Effective(s)) => \E s \in reads' : Effective(s)')
    <3>1. UNCHANGED source
      BY <1>10 DEF stream
    <3> QED
      BY <1>1, <1>3, <1>5, <1>10, <2>1, <2>2, <3>1, ReplaceKeeps
  <2>4. NotificationIsRead'
    <3>1. \E s \in reads' : Effective(s)'
      BY <1>1, <2>3
    <3> QED
      BY <3>1 DEF NotificationIsRead, Effective
  <2> QED
    BY <1>3, <1>5, <1>7, <1>8, <1>9, <1>10, <2>3, <2>4 DEF TypeOK, Rest, stream
<1>11. CASE ~(u < notified) /\ reads' = reads \ {r} /\ ReadEnds(r)
  <2>1. /\ reads' \subseteq Reads
        /\ OneNewest' /\ (\A s \in reads' : ReadOK(s)') /\ Tracked' /\ Detached'
        /\ inFlight' \in Jobs \cup {NoJob}
    BY <1>1, <1>5, <1>11, RemoveKeeps
  <2>2. NotificationIsRead'
    BY <1>4, <1>5, <1>11 DEF NotificationIsRead, TypeOK
  <2>3. /\ status' \in {"connecting", "live", "reconnecting"}
        /\ source' \in {"none", "connecting", "open", "closed"}
        /\ queue' \in 0..MaxLog /\ wire' \subseteq 0..MaxLog
    BY <1>11, ReadEndsTyped
  <2> QED
    BY <1>3, <1>5, <1>7, <1>8, <1>9, <2>1, <2>2, <2>3 DEF TypeOK, Rest
<1> QED
  BY <1>3, <1>10, <1>11 DEF ApplyPage

LEMMA EndReadKeeps ==
  ASSUME TypeOK, Rest, NEW r \in reads, EndRead(r)
  PROVE  TypeOK' /\ Rest'
<1>1. /\ UNCHANGED <<log, terminal, persistFailed, retried, active, isTerminal, events, cursor,
                     streamStatus, notified, setupAborted>>
      /\ reads' = reads \ {r} /\ ReadEnds(r)
      /\ error' = IF Effective(r) THEN TRUE ELSE error
  BY DEF EndRead, server
<1>2. /\ reads' \subseteq Reads
      /\ OneNewest' /\ (\A s \in reads' : ReadOK(s)') /\ Tracked' /\ Detached'
      /\ inFlight' \in Jobs \cup {NoJob}
  BY <1>1, RemoveKeeps
<1>3. /\ status' \in {"connecting", "live", "reconnecting"}
      /\ source' \in {"none", "connecting", "open", "closed"}
      /\ queue' \in 0..MaxLog /\ wire' \subseteq 0..MaxLog
  BY <1>1, ReadEndsTyped
<1>4. NotificationIsRead'
  <2> SUFFICES ASSUME ~error', active # NoJob, cursor < notified
               PROVE  \E s \in reads \ {r} : Effective(s)
    BY <1>1 DEF NotificationIsRead, Effective
  <2>1. ~Effective(r) /\ ~error
    BY <1>1
  <2> QED
    BY <2>1 DEF Rest, NotificationIsRead
<1>5. TranscriptIsPrefix'
  BY <1>1 DEF Rest, TranscriptIsPrefix
<1>6. pollArmed' \in BOOLEAN /\ error' \in BOOLEAN
  BY <1>1, PollEffectTyped DEF EndRead, TypeOK
<1> QED
  BY <1>1, <1>2, <1>3, <1>4, <1>5, <1>6 DEF TypeOK, Rest

(* The user opens a job, or leaves it.                                     *)
LEMMA ShowKeeps ==
  ASSUME TypeOK, Rest, NEW j \in Jobs, NEW ended \in BOOLEAN, Show(j, ended)
  PROVE  TypeOK' /\ Rest'
<1>1. /\ UNCHANGED <<log, terminal, persistFailed, retried, streamStatus>>
      /\ active' = j /\ isTerminal' = ended /\ events' = <<>> /\ cursor' = 0 /\ notified' = 0
      /\ error' = FALSE /\ status' = "connecting" /\ inFlight' = j /\ setupAborted' = FALSE
      /\ reads' = StartRead(Abort(reads), j, 0, "initial")
  BY DEF Show, server
<1>2. 0 \in 0..MaxLog /\ 0 <= log[j] /\ log[j] \in Nat
  BY StreamConstants DEF TypeOK
<1>3. /\ reads' \subseteq Reads
      /\ OneNewest' /\ (\A r \in reads' : ReadOK(r)') /\ Tracked' /\ Detached'
      /\ NotificationIsRead'
  BY <1>1, <1>2, StartReadKeeps
<1>4. TranscriptIsPrefix' /\ <<>> \in Seq(Jobs \X (1..MaxLog))
  BY <1>1, <1>2, StreamConstants DEF TranscriptIsPrefix
<1>5. /\ source' \in {"none", "connecting", "open", "closed"}
      /\ queue' \in 0..MaxLog /\ wire' \subseteq 0..MaxLog
  BY <1>2 DEF Show, NoSource, NewSource
<1>6. pollArmed' \in BOOLEAN
  BY PollEffectTyped DEF Show
<1> QED
  BY <1>1, <1>2, <1>3, <1>4, <1>5, <1>6 DEF TypeOK, Rest

LEMMA LeaveKeeps ==
  ASSUME TypeOK, Rest, Leave
  PROVE  TypeOK' /\ Rest'
<1>1. /\ UNCHANGED <<log, terminal, persistFailed, retried, streamStatus>>
      /\ active' = NoJob /\ isTerminal' = TRUE /\ events' = <<>> /\ cursor' = 0 /\ notified' = 0
      /\ error' = FALSE /\ status' = "connecting" /\ inFlight' = NoJob /\ setupAborted' = TRUE
      /\ reads' = Abort(reads) /\ source' = "none" /\ queue' = 0 /\ wire' = {}
  BY DEF Leave, server, NoSource
<1>2. ASSUME NEW q \in reads'
      PROVE  \E r \in reads : /\ q = [r EXCEPT !.aborted = TRUE]
                              /\ q.job = r.job /\ q.after = r.after /\ q.reply = r.reply
                              /\ q.newest = r.newest /\ q \in Reads /\ q.job \in Jobs
  <2>1. PICK r \in reads : q = [r EXCEPT !.aborted = TRUE]
    BY <1>1 DEF Abort
  <2>2. r \in Reads
    BY DEF TypeOK
  <2> QED
    BY <2>1, <2>2, ReadTyped DEF Reads
<1>3. ASSUME NEW q \in reads' PROVE ReadOK(q)'
  <2>1. ~Effective(q)'
    BY <1>1, <1>2, StreamConstants DEF Effective
  <2>2. PICK r \in reads : q.job = r.job /\ q.after = r.after /\ q.reply = r.reply
    BY <1>2
  <2>3. ReadOK(r)
    BY DEF Rest
  <2> QED
    BY <1>1, <2>1, <2>2, <2>3 DEF ReadOK
<1>4. OneNewest'
  <2> SUFFICES ASSUME NEW p \in reads', NEW q \in reads', p.newest, q.newest
               PROVE  p = q
    BY DEF OneNewest
  <2>1. PICK r \in reads : p = [r EXCEPT !.aborted = TRUE] /\ p.newest = r.newest
    BY <1>2
  <2>2. PICK s \in reads : q = [s EXCEPT !.aborted = TRUE] /\ q.newest = s.newest
    BY <1>2
  <2>3. r = s
    BY <2>1, <2>2 DEF OneNewest, Rest
  <2> QED
    BY <2>1, <2>2, <2>3
<1>5. Tracked' /\ Detached' /\ NotificationIsRead' /\ TranscriptIsPrefix'
  BY <1>1 DEF Tracked, Detached, NotificationIsRead, TranscriptIsPrefix
<1>6. <<>> \in Seq(Jobs \X (1..MaxLog)) /\ 0 \in 0..MaxLog
  BY StreamConstants
<1>7. pollArmed' \in BOOLEAN
  BY PollEffectTyped DEF Leave
<1> QED
  BY <1>1, <1>2, <1>3, <1>4, <1>5, <1>6, <1>7 DEF TypeOK, Rest

LEMMA StutterKeeps ==
  ASSUME TypeOK, Rest, UNCHANGED vars
  PROVE  TypeOK' /\ Rest'
<1>1. LogGrows
  BY DEF vars, server, TypeOK, LogGrows
<1>2. Rest'
  BY <1>1, QuietKeeps DEF vars, server, shown, stream
<1> QED
  BY <1>2 DEF vars, server, shown, stream, TypeOK

(* The references of the hook and what they say of its reads and of the    *)
(* transcript, as one invariant.                                           *)
THEOREM InductiveInvariant == Spec => [](TypeOK /\ Rest)
<1>1. Init => TypeOK /\ Rest
  <2> SUFFICES ASSUME Init PROVE TypeOK /\ Rest
    OBVIOUS
  <2>1. TypeOK
    <3>1. /\ log \in [Jobs -> 0..MaxLog] /\ cursor \in 0..MaxLog /\ notified \in 0..MaxLog
          /\ queue \in 0..MaxLog /\ wire \subseteq 0..MaxLog
      BY StreamConstants DEF Init
    <3>2. events \in Seq(Jobs \X (1..MaxLog)) /\ reads \subseteq Reads
      BY DEF Init
    <3>3. /\ terminal \in [Jobs -> BOOLEAN] /\ persistFailed \in [Jobs -> BOOLEAN]
          /\ isTerminal \in BOOLEAN /\ setupAborted \in BOOLEAN /\ error \in BOOLEAN
          /\ pollArmed \in BOOLEAN
      BY DEF Init
    <3> QED
      BY <3>1, <3>2, <3>3 DEF Init, TypeOK, TerminalStatuses
  <2> QED
    BY <2>1 DEF Init, Rest, OneNewest, Tracked, Detached, TranscriptIsPrefix, NotificationIsRead
<1>2. TypeOK /\ Rest /\ [Next]_vars => (TypeOK /\ Rest)'
  <2> SUFFICES ASSUME TypeOK, Rest, [Next]_vars
               PROVE  TypeOK' /\ Rest'
    OBVIOUS
  <2>1. ASSUME NEW j \in Jobs, Commit(j) \/ LoseBatch(j) \/ Finish(j) \/ Retry(j)
        PROVE  TypeOK' /\ Rest'
    BY <2>1, ServerKeeps
  <2>2. ASSUME NEW r \in reads, Serve(r) \/ LoseReply(r)
        PROVE  TypeOK' /\ Rest'
    BY <2>2, AnswerKeeps
  <2>3. CASE ServerNext
    BY <2>1, <2>2, <2>3, SourceKeeps DEF ServerNext
  <2>4. CASE ClientNext
    BY <2>4, SourceKeeps, NotifyKeeps, ReadAgain, ApplyPageKeeps, EndReadKeeps, ShowKeeps,
       LeaveKeeps DEF ClientNext
  <2> QED
    BY <2>3, <2>4, StutterKeeps DEF Next
<1> QED
  BY <1>1, <1>2, PTL DEF Spec

(* What the references of the hook say of its reads is true.               *)
THEOREM ReadsAreTracked == Spec => []StreamInv
<1>1. TypeOK /\ Rest => StreamInv
  <2> SUFFICES ASSUME TypeOK, Rest PROVE ReaderIsTracked
    BY DEF Rest, StreamInv
  <2> SUFFICES ASSUME active # NoJob
               PROVE  Cardinality({r \in reads : Effective(r)}) = IF inFlight = active THEN 1 ELSE 0
    BY DEF ReaderIsTracked
  <2>1. CASE inFlight = active
    <3>1. PICK r \in reads : Effective(r)
      BY <2>1 DEF Rest, Tracked
    <3>2. {s \in reads : Effective(s)} = {r}
      BY <3>1 DEF Rest, OneNewest, Effective
    <3> QED
      BY <2>1, <3>2, FS_Singleton
  <2>2. CASE inFlight # active
    <3>1. {s \in reads : Effective(s)} = {}
      BY <2>2 DEF Rest, Tracked
    <3> QED
      BY <2>2, <3>1, FS_EmptySet
  <2> QED
    BY <2>1, <2>2
<1> QED
  BY <1>1, InductiveInvariant, PTL

(* The transcript never has a gap, a duplicate or an event of another job. *)
THEOREM TranscriptHolds == Spec => []TranscriptIsPrefix
<1>1. Rest => TranscriptIsPrefix
  BY DEF Rest
<1> QED
  BY <1>1, InductiveInvariant, PTL

=============================================================================
