--------------------------- MODULE TranscriptCards ---------------------------
(***************************************************************************)
(* How the dashboard turns the transcript events of a job into cards:      *)
(* reduceTranscriptEvents (src/web/src/hooks/useJobStream.js:6-162), as a  *)
(* fold over the events in the order of their ids, which are the numbers   *)
(* 1, 2, ... here.                                                         *)
(*                                                                         *)
(* A text is the sequence of the ids of the deltas it was made of.  Names  *)
(* of entities are numbers, 0 where an event names none; an item that      *)
(* names none gets the negated id of its event.  Payloads, times and the   *)
(* parent entity, which no adapter sets, are left out.                     *)
(***************************************************************************)
EXTENDS Integers, Sequences, SequencesExt

NewAttempt(n) == [attempt |-> n, status |-> "running", items |-> <<>>]

Own(e) == IF e.entity = 0 THEN -e.id ELSE e.entity

Message(e, text) == [type |-> "message", entity |-> Own(e), text |-> text, status |-> "streaming"]
Thinking(e)      == [type |-> "thinking", entity |-> Own(e), text |-> <<e.id>>, status |-> "none"]
\* `call` is the tool call the event is about, which the client cannot see.
Tool(e)          == [type |-> "tool", entity |-> Own(e), call |-> e.call, status |-> "running", output |-> 0]
Notice(e)        == [type |-> "truncated", entity |-> Own(e)]

\* The item of a type that an event names: the first with that name, else the
\* one that an event without a name falls back to.
Find(items, e, type, fallback) ==
  IF e.entity # 0
    THEN SelectInSeq(items, LAMBDA it : it.type = type /\ it.entity = e.entity)
    ELSE fallback

Unfinished(it) == it.type = "message" /\ it.status # "completed"

\* What text and summaries without a name are added to: the last item, if it fits.
LastMessage(items) == IF items # <<>> /\ Unfinished(Last(items)) THEN Len(items) ELSE 0
LastSummary(items) == IF items # <<>> /\ Last(items).type = "thinking" THEN Len(items) ELSE 0

\* Broken variant: text goes to the last message, whatever it names.
AddTextToLast(items, e) ==
  LET k == LastMessage(items)
  IN  IF k = 0 THEN Append(items, Message(e, <<e.id>>))
      ELSE [items EXCEPT ![k].text = Append(@, e.id)]

\* assistant.text.delta grows its message, or begins one.
AddText(items, e) ==
  LET k == Find(items, e, "message", LastMessage(items))
  IN  IF k = 0 THEN Append(items, Message(e, <<e.id>>))
      ELSE [items EXCEPT ![k].text = Append(@, e.id)]

\* assistant.reasoning_summary.delta does the same with a summary.
AddThinking(items, e) ==
  LET k == Find(items, e, "thinking", LastSummary(items))
  IN  IF k = 0 THEN Append(items, Thinking(e)) ELSE [items EXCEPT ![k].text = Append(@, e.id)]

CompleteMessage(items, e) ==
  LET k == Find(items, e, "message", SelectLastInSeq(items, Unfinished))
  IN  IF k = 0 THEN items ELSE [items EXCEPT ![k].status = "completed"]

\* tool.completed settles the tool it names, else the last one running.
CompleteTool(items, e) ==
  LET running(it) == it.type = "tool" /\ it.status = "running"
      k == Find(items, e, "tool", SelectLastInSeq(items, running))
  IN  IF k = 0 THEN items ELSE [items EXCEPT ![k].status = "completed", ![k].output = e.call]

AddEvent(a, e) ==
  CASE e.kind = "attempt.finished"  -> [a EXCEPT !.status = e.status]
    [] e.kind = "message.started"   -> [a EXCEPT !.items = Append(@, Message(e, <<>>))]
    [] e.kind = "text.delta"        -> [a EXCEPT !.items = AddText(@, e)]
    [] e.kind = "summary.delta"     -> [a EXCEPT !.items = AddThinking(@, e)]
    [] e.kind = "message.completed" -> [a EXCEPT !.items = CompleteMessage(@, e)]
    [] e.kind = "tool.started"      -> [a EXCEPT !.items = Append(@, Tool(e))]
    [] e.kind = "tool.completed"    -> [a EXCEPT !.items = CompleteTool(@, e)]
    [] e.kind = "stream.truncated"  -> [a EXCEPT !.items = Append(@, Notice(e))]

\* The first event of an attempt opens its group.
Grouped(groups, e) ==
  LET opened == IF \E k \in DOMAIN groups : groups[k].attempt = e.attempt THEN groups
                ELSE Append(groups, NewAttempt(e.attempt))
      k == SelectInSeq(opened, LAMBDA a : a.attempt = e.attempt)
  IN  [opened EXCEPT ![k] = AddEvent(@, e)]

\* The groups after each event; the fold of SequencesExt, as a function of the
\* number of events.
Reduce(events) ==
  LET cards[n \in 0 .. Len(events)] == IF n = 0 THEN <<>> ELSE Grouped(cards[n - 1], events[n])
  IN  cards[Len(events)]
=============================================================================
