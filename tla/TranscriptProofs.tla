--------------------------- MODULE TranscriptProofs ---------------------------
(***************************************************************************)
(* What the cards of a transcript show, for any length of the log and any  *)
(* number of attempts, runs, messages, tool calls, losses and retries:     *)
(* every piece of text once and in its place, and every tool card settled  *)
(* by its own call wherever the events can tell the calls apart and the    *)
(* adapter did not guess.                                                  *)
(*                                                                         *)
(* The argument has two halves.  The first is about the fold alone: what   *)
(* the cards of a log say after every event of it, by a least              *)
(* counterexample over the events.  The second is an invariant of the run: *)
(* the log names calls in a way that lets the fold find them.              *)
(***************************************************************************)
EXTENDS Transcript, SequenceTheorems, WellFoundedInduction, TLAPS

Kinds    == {"attempt.finished", "message.started", "text.delta", "summary.delta",
             "message.completed", "tool.started", "tool.completed", "stream.truncated"}
Statuses == {"none", "running", "succeeded", "failed"}
Events   == [id : Nat, kind : Kinds, attempt : Nat, entity : Nat, call : Nat,
             astray : BOOLEAN, status : Statuses]

Messages  == [type : {"message"}, entity : Int, text : Seq(Nat), status : {"streaming", "completed"}]
Thinkings == [type : {"thinking"}, entity : Int, text : Seq(Nat), status : {"none"}]
Tools     == [type : {"tool"}, entity : Int, call : Nat, status : {"running", "completed"}, output : Nat]
Notices   == [type : {"truncated"}, entity : Int]
Items     == Messages \union Thinkings \union Tools \union Notices
Groups    == [attempt : Nat, status : Statuses, items : Seq(Items)]

\* A log is numbered in its own order.
Numbered(l) == l \in Seq(Events) /\ \A i \in DOMAIN l : l[i].id = i

-----------------------------------------------------------------------------
\* What the groups say of the text in the first n events of a log.

Pieces(it) == IF it.type = "message" THEN ToSet(it.text) ELSE {}

\* The text of one attempt.
TextOf(items, a, l, n) ==
  /\ \A k \in DOMAIN items : items[k].type = "message" => Increasing(items[k].text)
  /\ \A k \in DOMAIN items : \A i \in Pieces(items[k]) :
       /\ i \in 1..n /\ l[i].kind = "text.delta" /\ l[i].attempt = a
       /\ l[i].entity # 0 => items[k].entity = l[i].entity
  /\ \A i \in 1..n : l[i].kind = "text.delta" /\ l[i].attempt = a => \E k \in DOMAIN items : i \in Pieces(items[k])
  /\ \A j, k \in DOMAIN items : \A i \in Pieces(items[j]) : i \in Pieces(items[k]) => j = k

\* The tool cards of one attempt.
Started(l, n, c)   == {i \in 1..n : l[i].kind = "tool.started" /\ l[i].call = c}
Completed(l, n, c) == {i \in 1..n : l[i].kind = "tool.completed" /\ l[i].call = c}

SettledBy(it, l, n) ==
  IF Completed(l, n, it.call) # {} THEN it.status = "completed" /\ it.output = it.call
                                   ELSE it.status = "running" /\ it.output = 0

\* The completion of a call whose start was lost, and which bears no name.
Orphan(a, l, n) ==
  \E i \in 1..n : /\ l[i].kind = "tool.completed" /\ l[i].entity = 0 /\ l[i].attempt = a
                  /\ Started(l, n, l[i].call) = {}

\* Another call used the name of the card in the same attempt.
Namesake(it, a, l, n) ==
  \E i \in 1..n : /\ l[i].kind \in {"tool.started", "tool.completed"}
                  /\ l[i].attempt = a /\ l[i].entity = it.entity /\ l[i].call # it.call

\* The completion of the card's call bears a name that the adapter guessed.
Strayed(it, a, l, n) ==
  \E i \in 1..n : /\ l[i].kind = "tool.completed" /\ l[i].astray
                  /\ l[i].attempt = a /\ l[i].call = it.call

Excused(it, a, l, n) == Orphan(a, l, n) \/ Namesake(it, a, l, n) \/ Strayed(it, a, l, n)

ToolOK(it, a, l, n) ==
  /\ \E i \in Started(l, n, it.call) : l[i].attempt = a /\ it.entity = Own(l[i])
  /\ it.status = "completed" =>
       \E i \in 1..n : l[i].kind = "tool.completed" /\ \A s \in Started(l, n, it.call) : s < i
  /\ SettledBy(it, l, n) \/ Excused(it, a, l, n)

ToolsOf(items, a, l, n) ==
  /\ \A k \in DOMAIN items : items[k].type = "tool" => ToolOK(items[k], a, l, n)
  /\ \A j, k \in DOMAIN items :
       items[j].type = "tool" /\ items[k].type = "tool" /\ j < k => items[j].call < items[k].call
  /\ \A i \in 1..n : l[i].kind = "tool.started" /\ l[i].attempt = a =>
       \E k \in DOMAIN items : items[k].type = "tool" /\ items[k].call = l[i].call

\* One group for every attempt of the events.
Grouping(groups, l, n) ==
  /\ groups \in Seq(Groups)
  /\ \A g, h \in DOMAIN groups : groups[g].attempt = groups[h].attempt => g = h
  /\ \A i \in 1..n : \E g \in DOMAIN groups : groups[g].attempt = l[i].attempt

TextCards(l, n) ==
  LET groups == Reduce(SubSeq(l, 1, n))
  IN  /\ Grouping(groups, l, n)
      /\ \A g \in DOMAIN groups : TextOf(groups[g].items, groups[g].attempt, l, n)

ToolCards(l, n) ==
  LET groups == Reduce(SubSeq(l, 1, n))
  IN  \A g \in DOMAIN groups : ToolsOf(groups[g].items, groups[g].attempt, l, n)

-----------------------------------------------------------------------------
\* What the events of a log say of the calls: calls are numbered as they start; a
\* completion follows the start of its call in the same attempt, under the same
\* name unless the adapter guessed one; and between a start and a completion
\* without a name no other tool is heard of.
OfTool(e) == e.kind \in {"tool.started", "tool.completed"}

Calls(l) ==
  /\ \A i, j \in DOMAIN l : l[i].kind = "tool.started" /\ l[j].kind = "tool.started" /\ i < j => l[i].call < l[j].call
  /\ \A i, j \in DOMAIN l :
       l[i].kind = "tool.started" /\ l[j].kind = "tool.completed" /\ l[i].call = l[j].call =>
         /\ i < j /\ l[i].attempt = l[j].attempt
         /\ l[i].entity = l[j].entity \/ (l[j].astray /\ l[j].entity # 0)
         /\ l[j].entity = 0 => \A h \in DOMAIN l : OfTool(l[h]) => ~(i < h /\ h < j)

\* The event bears the name that the adapter gave to the call.
OwnName(e) == OfTool(e) /\ (e.kind = "tool.completed" => ~e.astray)

\* No name is given to two calls of an attempt.
NamesOnce(l) ==
  \A i, j \in DOMAIN l :
    OwnName(l[i]) /\ OwnName(l[j]) /\ l[i].attempt = l[j].attempt /\ l[i].entity = l[j].entity /\ l[i].entity # 0
      => l[i].call = l[j].call

-----------------------------------------------------------------------------
\* What the run knows of the calls that are open.

Opens == [name : Nat \ {0}, call : Nat]
Runs  == [adapter : Adapters, n : Nat, messages : Nat, tools : Nat, open : Seq(Opens), announced : SUBSET Nat]

Typed ==
  /\ Numbered(log) /\ shown \in 0 .. Len(log)
  /\ phase \in {"between", "running", "succeeded", "unsuccessful"}
  /\ attempt \in Nat /\ calls \in Nat /\ guesses \in Nat /\ run \in Runs
  /\ recording \in BOOLEAN /\ faults \in Nat /\ retries \in 0..MaxRetries

OpenCalls ==
  /\ phase # "running" => run.open = <<>>
  /\ run.open # <<>> => run.tools > 0
  /\ \A j, k \in DOMAIN run.open : run.open[j].name = run.open[k].name => j = k
  /\ \A k \in DOMAIN run.open : run.open[k].name <= Counter /\ run.open[k].call <= calls
  /\ run.adapter = "unnamed" => Len(run.open) <= 1
  /\ \A i \in DOMAIN log : OfTool(log[i]) => log[i].call <= calls
  /\ \A k \in DOMAIN run.open : \A i \in DOMAIN log :
       log[i].kind = "tool.started" /\ log[i].call = run.open[k].call =>
         /\ log[i].attempt = attempt /\ log[i].entity = Named(run.open[k].name)
         /\ run.adapter = "unnamed" => \A h \in DOMAIN log : OfTool(log[h]) => h <= i

\* Until the job is retried.
FreshNames ==
  /\ NamesOnce(log)
  /\ \A i \in DOMAIN log : log[i].attempt <= attempt
  /\ \A i \in DOMAIN log : phase = "running" /\ OwnName(log[i]) /\ log[i].attempt = attempt =>
       /\ run.tools > 0 /\ log[i].entity <= Counter
       /\ \A k \in DOMAIN run.open : log[i].entity = run.open[k].name => log[i].call = run.open[k].call

TranscriptInv == Typed /\ Calls(log) /\ OpenCalls /\ (retries = MaxRetries => FreshNames)

-----------------------------------------------------------------------------
\* The fold.

LEMMA LeastNatural ==
  ASSUME NEW T, T \subseteq Nat, T # {}
  PROVE  \E x \in T : \A y \in T : x <= y
<1>1. PICK x \in T : \A y \in T : ~(<<y, x>> \in OpToRel(<, Nat))
  BY NatLessThanWellFounded, WFMin
<1>2. ASSUME NEW y \in T PROVE x <= y
  <2>1. ~(<<y, x>> \in {ss \in Nat \X Nat : ss[1] < ss[2]})
    BY <1>1 DEF OpToRel
  <2>2. x \in Nat /\ y \in Nat /\ <<y, x>> \in Nat \X Nat
    OBVIOUS
  <2>3. ~(y < x)
    BY <2>1, <2>2
  <2> QED
    BY <2>2, <2>3
<1> QED
  BY <1>2

\* The groups after each of the first m events.
IsRun(f, events, m) == f = [n \in 0..m |-> IF n = 0 THEN <<>> ELSE Grouped(f[n - 1], events[n])]

LEMMA RunExists ==
  ASSUME NEW events, NEW m \in Nat
  PROVE  \E f : IsRun(f, events, m)
<1> DEFINE Bad == {n \in Nat : ~ \E f : IsRun(f, events, n)}
<1>1. SUFFICES ASSUME m \in Bad PROVE FALSE
  OBVIOUS
<1>2. PICK x \in Bad : \A y \in Bad : x <= y
  <2> Bad \subseteq Nat /\ Bad # {}
    BY <1>1
  <2> HIDE DEF Bad
  <2> QED
    BY LeastNatural
<1>3. CASE x = 0
  <2> DEFINE f == [n \in 0..0 |-> <<>>]
  <2>1. f = [n \in 0..0 |-> IF n = 0 THEN <<>> ELSE Grouped(f[n - 1], events[n])]
    OBVIOUS
  <2>2. IsRun(f, events, 0)
    BY <2>1 DEF IsRun
  <2> QED
    BY <2>2, <1>2, <1>3
<1>4. CASE x > 0
  <2>1. x - 1 \in Nat /\ x - 1 \notin Bad
    BY <1>2, <1>4
  <2>2. PICK f : IsRun(f, events, x - 1)
    BY <2>1
  <2> DEFINE g == [n \in 0..x |-> IF n = 0 THEN <<>> ELSE Grouped(f[n - 1], events[n])]
  <2>3. ASSUME NEW n \in 0 .. x - 1 PROVE g[n] = f[n]
    <3>1. n \in 0..x
      BY <1>4
    <3>2. f[n] = IF n = 0 THEN <<>> ELSE Grouped(f[n - 1], events[n])
      BY <2>2 DEF IsRun
    <3> QED
      BY <3>1, <3>2
  <2>4. ASSUME NEW n \in 0..x
        PROVE  g[n] = IF n = 0 THEN <<>> ELSE Grouped(g[n - 1], events[n])
    <3>1. n # 0 => n - 1 \in 0 .. x - 1
      BY <1>4
    <3>2. n # 0 => g[n - 1] = f[n - 1]
      BY <3>1, <2>3
    <3> QED
      BY <3>2
  <2>5. g = [n \in 0..x |-> IF n = 0 THEN <<>> ELSE Grouped(g[n - 1], events[n])]
    <3> HIDE DEF g
    <3>1. g = [n \in 0..x |-> g[n]]
      BY DEF g
    <3> QED
      BY <3>1, <2>4
  <2>6. IsRun(g, events, x)
    BY <2>5 DEF IsRun
  <2> QED
    BY <2>6, <1>2
<1> QED
  BY <1>2, <1>3, <1>4

\* Two logs agree on their first n events.
AgreeUpTo(d, e, n) == \A i \in 1..n : d[i] = e[i]

LEMMA RunsAgree ==
  ASSUME NEW d, NEW e, NEW m \in Nat, NEW n \in Nat, n <= m, NEW f, NEW g,
         IsRun(f, d, m), IsRun(g, e, n), AgreeUpTo(d, e, n),
         NEW k \in 0..n
  PROVE  f[k] = g[k]
<1> DEFINE Bad == {i \in 0..n : f[i] # g[i]}
<1>1. SUFFICES ASSUME k \in Bad PROVE FALSE
  OBVIOUS
<1>2. PICK x \in Bad : \A y \in Bad : x <= y
  <2> Bad \subseteq Nat /\ Bad # {}
    BY <1>1
  <2> HIDE DEF Bad
  <2> QED
    BY LeastNatural
<1>3. f[x] = (IF x = 0 THEN <<>> ELSE Grouped(f[x - 1], d[x])) /\ g[x] = IF x = 0 THEN <<>> ELSE Grouped(g[x - 1], e[x])
  <2>1. x \in 0..n /\ x \in 0..m
    BY <1>2
  <2> QED
    BY <2>1 DEF IsRun
<1>4. x # 0 => f[x - 1] = g[x - 1] /\ d[x] = e[x]
  BY <1>2 DEF AgreeUpTo
<1> QED
  BY <1>2, <1>3, <1>4

LEMMA ReduceIsLast ==
  ASSUME NEW events, Len(events) \in Nat, NEW f, IsRun(f, events, Len(events))
  PROVE  Reduce(events) = f[Len(events)]
<1> DEFINE g == CHOOSE g : g = [n \in 0 .. Len(events) |-> IF n = 0 THEN <<>> ELSE Grouped(g[n - 1], events[n])]
<1>1. IsRun(g, events, Len(events))
  BY DEF IsRun
<1>2. Reduce(events) = g[Len(events)]
  BY DEF Reduce
<1> HIDE DEF g
<1>3. g[Len(events)] = f[Len(events)]
  BY <1>1, RunsAgree DEF AgreeUpTo
<1> QED
  BY <1>2, <1>3

\* The groups of a log, one event at a time.
LEMMA ReduceSteps ==
  ASSUME NEW l, NEW S, l \in Seq(S), NEW n \in 0 .. Len(l)
  PROVE  Reduce(SubSeq(l, 1, n)) = IF n = 0 THEN <<>> ELSE Grouped(Reduce(SubSeq(l, 1, n - 1)), l[n])
<1>1. ASSUME NEW i \in 0 .. Len(l)
      PROVE  Len(SubSeq(l, 1, i)) = i /\ \A j \in 1..i : SubSeq(l, 1, i)[j] = l[j]
  <2>1. \A j \in 1..i : l[j] \in S
    OBVIOUS
  <2> QED
    BY <2>1, SubSeqProperties
<1>2. PICK f : IsRun(f, l, Len(l))
  <2> Len(l) \in Nat
    OBVIOUS
  <2> QED
    BY RunExists
<1>3. ASSUME NEW i \in 0 .. Len(l)
      PROVE  Reduce(SubSeq(l, 1, i)) = f[i]
  <2> DEFINE m == Len(l)
             d == SubSeq(l, 1, i)
  <2>1. i \in Nat /\ m \in Nat /\ i <= m /\ i \in 0..i
    OBVIOUS
  <2>2. PICK g : IsRun(g, d, i)
    BY <2>1, RunExists
  <2>3. Len(d) = i /\ \A j \in 1..i : l[j] = d[j]
    BY <1>1
  <2>4. f[i] = g[i]
    <3>1. IsRun(f, l, m)
      BY <1>2
    <3> HIDE DEF m, d
    <3>2. IsRun(g, d, i) /\ AgreeUpTo(l, d, i)
      BY <2>2, <2>3 DEF AgreeUpTo
    <3> QED
      BY <2>1, <3>1, <3>2, RunsAgree
  <2>5. Reduce(d) = g[i]
    <3> HIDE DEF d
    <3> QED
      BY <2>1, <2>2, <2>3, ReduceIsLast
  <2> QED
    BY <2>4, <2>5
<1>4. f[n] = IF n = 0 THEN <<>> ELSE Grouped(f[n - 1], l[n])
  BY <1>2 DEF IsRun
<1>5. Reduce(SubSeq(l, 1, n)) = f[n] /\ (n # 0 => Reduce(SubSeq(l, 1, n - 1)) = f[n - 1])
  BY <1>3
<1> QED
  BY <1>4, <1>5

-----------------------------------------------------------------------------
\* What is found in a sequence of items.

LEMMA SmallestOf ==
  ASSUME NEW n \in Nat, NEW T, T \subseteq 1..n, T # {}
  PROVE  Min(T) \in T /\ \A y \in T : Min(T) <= y
<1>1. T \subseteq Nat
  OBVIOUS
<1> QED
  BY <1>1, LeastNatural DEF Min

LEMMA LargestOf ==
  ASSUME NEW n \in Nat, NEW T, T \subseteq 1..n, T # {}
  PROVE  Max(T) \in T /\ \A y \in T : Max(T) >= y
<1> DEFINE R == {n - i : i \in T}
<1>1. R \subseteq Nat /\ R # {}
  <2>1. \A i \in T : i \in Nat /\ i <= n /\ n - i \in Nat
    OBVIOUS
  <2> QED
    BY <2>1
<1>2. PICK x \in R : \A y \in R : x <= y
  <2> HIDE DEF R
  <2> QED
    BY <1>1, LeastNatural
<1>3. PICK m \in T : x = n - m
  BY <1>2
<1>4. \A y \in T : m >= y
  <2> TAKE y \in T
  <2>1. n - y \in R /\ y \in Int /\ m \in Int
    OBVIOUS
  <2> QED
    BY <2>1, <1>2, <1>3
<1> QED
  BY <1>4 DEF Max

\* An item with the name that an event bears, or the one it falls back to.
LEMMA FindNamed ==
  ASSUME NEW items \in Seq(Items), NEW e \in Events, NEW type, NEW fallback, e.entity # 0
  PROVE  LET k == Find(items, e, type, fallback)
         IN  \/ k = 0 /\ \A i \in DOMAIN items : ~(items[i].type = type /\ items[i].entity = e.entity)
             \/ k \in DOMAIN items /\ items[k].type = type /\ items[k].entity = e.entity
<1> DEFINE T == {i \in 1 .. Len(items) : items[i].type = type /\ items[i].entity = e.entity}
           k == Find(items, e, type, fallback)
<1>1. k = IF T # {} THEN Min(T) ELSE 0
  BY DEF Find, SelectInSeq
<1>2. T # {} => Min(T) \in T
  <2> T \subseteq 1 .. Len(items) /\ Len(items) \in Nat
    OBVIOUS
  <2> HIDE DEF T
  <2> QED
    BY SmallestOf
<1> QED
  BY <1>1, <1>2

LEMMA FindUnnamed ==
  ASSUME NEW items, NEW e, NEW type, NEW fallback, e.entity = 0
  PROVE  Find(items, e, type, fallback) = fallback
BY DEF Find

LEMMA LastUnfinished ==
  ASSUME NEW items \in Seq(Items)
  PROVE  LET k == SelectLastInSeq(items, Unfinished)
         IN  k = 0 \/ (k \in DOMAIN items /\ items[k].type = "message")
<1> DEFINE T == {i \in 1 .. Len(items) : Unfinished(items[i])}
           k == SelectLastInSeq(items, Unfinished)
<1>1. k = IF T # {} THEN Max(T) ELSE 0
  BY DEF SelectLastInSeq
<1>2. T # {} => Max(T) \in T
  <2> T \subseteq 1 .. Len(items) /\ Len(items) \in Nat
    OBVIOUS
  <2> HIDE DEF T
  <2> QED
    BY LargestOf
<1> QED
  BY <1>1, <1>2 DEF Unfinished

\* The tool that a completion settles.
LEMMA SettledTool ==
  ASSUME NEW items \in Seq(Items), NEW e \in Events
  PROVE  \E k \in 0 .. Len(items) :
           /\ CompleteTool(items, e) =
                IF k = 0 THEN items ELSE [items EXCEPT ![k].status = "completed", ![k].output = e.call]
           /\ k # 0 => items[k].type = "tool"
           /\ e.entity # 0 =>
                IF k = 0 THEN \A i \in DOMAIN items : ~(items[i].type = "tool" /\ items[i].entity = e.entity)
                         ELSE items[k].entity = e.entity
           /\ e.entity = 0 =>
                /\ k # 0 => items[k].status = "running"
                /\ \A i \in DOMAIN items : items[i].type = "tool" /\ items[i].status = "running" => i <= k
<1> DEFINE running(it) == it.type = "tool" /\ it.status = "running"
           T == {i \in 1 .. Len(items) : running(items[i])}
           last == SelectLastInSeq(items, running)
           k == Find(items, e, "tool", last)
<1>1. last = IF T # {} THEN Max(T) ELSE 0
  BY DEF SelectLastInSeq
<1>2. T # {} => Max(T) \in T /\ \A y \in T : Max(T) >= y
  <2> T \subseteq 1 .. Len(items) /\ Len(items) \in Nat
    OBVIOUS
  <2> HIDE DEF T
  <2> QED
    BY LargestOf
<1>3. CompleteTool(items, e) = IF k = 0 THEN items ELSE [items EXCEPT ![k].status = "completed", ![k].output = e.call]
  BY DEF CompleteTool
<1>4. /\ T # {} => last \in T /\ \A y \in T : last >= y
      /\ T = {} => last = 0
  BY <1>1, <1>2
<1>5. DOMAIN items = 1 .. Len(items) /\ Len(items) \in Nat
  OBVIOUS
<1>6. CASE e.entity = 0
  <2>1. k = last
    <3> HIDE DEF last
    <3> QED
      BY <1>6, FindUnnamed
  <2>2. k # 0 => k \in DOMAIN items /\ items[k].type = "tool" /\ items[k].status = "running"
    <3> HIDE DEF last, k
    <3> QED
      BY <1>4, <2>1
  <2>3. \A i \in DOMAIN items : items[i].type = "tool" /\ items[i].status = "running" => i <= k
    <3> HIDE DEF last, k
    <3> QED
      BY <1>4, <1>5, <2>1
  <2>4. k \in 0 .. Len(items)
    <3> HIDE DEF k
    <3> QED
      BY <1>5, <2>2
  <2> HIDE DEF k
  <2> WITNESS k \in 0 .. Len(items)
  <2> QED
    BY <1>3, <1>6, <2>2, <2>3
<1>7. CASE e.entity # 0
  <2>1. \/ k = 0 /\ \A i \in DOMAIN items : ~(items[i].type = "tool" /\ items[i].entity = e.entity)
        \/ k \in DOMAIN items /\ items[k].type = "tool" /\ items[k].entity = e.entity
    <3> HIDE DEF last
    <3> QED
      BY <1>7, FindNamed
  <2>2. k \in 0 .. Len(items)
    <3> HIDE DEF k
    <3> QED
      BY <1>5, <2>1
  <2>3. k # 0 => k \in DOMAIN items
    <3> HIDE DEF k
    <3> QED
      BY <2>1
  <2> HIDE DEF k
  <2> WITNESS k \in 0 .. Len(items)
  <2> QED
    BY <1>3, <1>5, <1>7, <2>1, <2>3
<1> QED
  BY <1>6, <1>7

-----------------------------------------------------------------------------
\* What an event does to the items of its attempt: it appends one or changes one.

Grown(items, new, it) ==
  /\ new \in Seq(Items) /\ DOMAIN new = 1 .. Len(items) + 1
  /\ \A j \in DOMAIN items : new[j] = items[j]
  /\ new[Len(items) + 1] = it

Changed(items, new, k, it) ==
  /\ new \in Seq(Items) /\ DOMAIN new = DOMAIN items
  /\ k \in DOMAIN items /\ new[k] = it
  /\ \A j \in DOMAIN items : j # k => new[j] = items[j]

LEMMA Appending ==
  ASSUME NEW items \in Seq(Items), NEW it \in Items
  PROVE  Grown(items, Append(items, it), it)
BY DEF Grown

LEMMA Changing ==
  ASSUME NEW items \in Seq(Items), NEW k \in DOMAIN items, NEW it \in Items
  PROVE  Changed(items, [items EXCEPT ![k] = it], k, it)
BY DEF Changed

LEMMA NewItemsTyped ==
  ASSUME NEW e \in Events
  PROVE  /\ Message(e, <<>>) \in Items /\ Message(e, <<e.id>>) \in Items
         /\ Thinking(e) \in Items /\ Tool(e) \in Items /\ Notice(e) \in Items
<1>1. Own(e) \in Int /\ e.call \in Nat /\ <<e.id>> \in Seq(Nat) /\ <<>> \in Seq(Nat)
  BY DEF Own, Events
<1> QED
  BY <1>1 DEF Message, Thinking, Tool, Notice, Items, Messages, Thinkings, Tools, Notices

\* Text is added to a message, of the name that the event bears if it bears one.
LEMMA TextAdded ==
  ASSUME NEW items \in Seq(Items), NEW e \in Events
  PROVE  \/ Grown(items, AddText(items, e), Message(e, <<e.id>>))
         \/ \E k \in DOMAIN items :
              /\ items[k].type = "message"
              /\ e.entity # 0 => items[k].entity = e.entity
              /\ Changed(items, AddText(items, e), k, [items[k] EXCEPT !.text = Append(@, e.id)])
<1> DEFINE last == LastMessage(items)
           k == Find(items, e, "message", last)
<1>1. AddText(items, e) = IF k = 0 THEN Append(items, Message(e, <<e.id>>))
                          ELSE [items EXCEPT ![k] = [items[k] EXCEPT !.text = Append(items[k].text, e.id)]]
  BY DEF AddText
<1>2. last = 0 \/ (last \in DOMAIN items /\ items[last].type = "message")
  BY DEF LastMessage, Last, Unfinished
<1>3. k = 0 \/ (k \in DOMAIN items /\ items[k].type = "message" /\ (e.entity # 0 => items[k].entity = e.entity))
  <2> HIDE DEF last
  <2>1. e.entity = 0 => k = last
    BY FindUnnamed
  <2>2. e.entity # 0 => \/ k = 0
                        \/ k \in DOMAIN items /\ items[k].type = "message" /\ items[k].entity = e.entity
    BY FindNamed
  <2> QED
    BY <1>2, <2>1, <2>2
<1> HIDE DEF k
<1>4. CASE k = 0
  BY <1>1, <1>4, NewItemsTyped, Appending
<1>5. CASE k # 0
  <2> DEFINE it == [items[k] EXCEPT !.text = Append(items[k].text, e.id)]
  <2>1. k \in DOMAIN items /\ items[k] \in Messages
    BY <1>3, <1>5 DEF Items, Messages, Thinkings, Tools, Notices
  <2>2. it \in Items
    <3>1. items[k].text \in Seq(Nat) /\ e.id \in Nat
      BY <2>1 DEF Messages, Events
    <3>2. Append(items[k].text, e.id) \in Seq(Nat)
      BY <3>1
    <3>3. it \in Messages
      BY <2>1, <3>2 DEF Messages
    <3> QED
      BY <3>3 DEF Items
  <2>3. Changed(items, AddText(items, e), k, it)
    <3> HIDE DEF it
    <3> SUFFICES Changed(items, [items EXCEPT ![k] = it], k, it)
      BY <1>1, <1>5 DEF it
    <3> QED
      BY <2>1, <2>2, Changing
  <2> QED
    BY <1>3, <1>5, <2>1, <2>3
<1> QED
  BY <1>4, <1>5

LEMMA ThinkingAdded ==
  ASSUME NEW items \in Seq(Items), NEW e \in Events
  PROVE  \/ Grown(items, AddThinking(items, e), Thinking(e))
         \/ \E k \in DOMAIN items, it \in Items :
              /\ items[k].type = "thinking" /\ it.type = "thinking"
              /\ it.entity = items[k].entity
              /\ Changed(items, AddThinking(items, e), k, it)
<1> DEFINE last == LastSummary(items)
           k == Find(items, e, "thinking", last)
<1>1. AddThinking(items, e) = IF k = 0 THEN Append(items, Thinking(e))
                              ELSE [items EXCEPT ![k] = [items[k] EXCEPT !.text = Append(items[k].text, e.id)]]
  BY DEF AddThinking
<1>2. last = 0 \/ (last \in DOMAIN items /\ items[last].type = "thinking")
  BY DEF LastSummary, Last
<1>3. k = 0 \/ (k \in DOMAIN items /\ items[k].type = "thinking")
  <2> HIDE DEF last
  <2>1. e.entity = 0 => k = last
    BY FindUnnamed
  <2>2. e.entity # 0 => \/ k = 0
                        \/ k \in DOMAIN items /\ items[k].type = "thinking" /\ items[k].entity = e.entity
    BY FindNamed
  <2> QED
    BY <1>2, <2>1, <2>2
<1> HIDE DEF k
<1>4. CASE k = 0
  BY <1>1, <1>4, NewItemsTyped, Appending
<1>5. CASE k # 0
  <2> DEFINE it == [items[k] EXCEPT !.text = Append(items[k].text, e.id)]
  <2>1. k \in DOMAIN items /\ items[k] \in Thinkings
    BY <1>3, <1>5 DEF Items, Messages, Thinkings, Tools, Notices
  <2>2. it \in Items /\ it.type = "thinking" /\ it.entity = items[k].entity
    <3>1. items[k].text \in Seq(Nat) /\ e.id \in Nat
      BY <2>1 DEF Thinkings, Events
    <3>2. Append(items[k].text, e.id) \in Seq(Nat)
      BY <3>1
    <3>3. it \in Thinkings /\ it.type = "thinking" /\ it.entity = items[k].entity
      BY <2>1, <3>2 DEF Thinkings
    <3> QED
      BY <3>3 DEF Items
  <2>3. Changed(items, AddThinking(items, e), k, it)
    <3> HIDE DEF it
    <3> SUFFICES Changed(items, [items EXCEPT ![k] = it], k, it)
      BY <1>1, <1>5 DEF it
    <3> QED
      BY <2>1, <2>2, Changing
  <2> HIDE DEF it
  <2> QED
    BY <1>3, <1>5, <2>1, <2>2, <2>3
<1> QED
  BY <1>4, <1>5

LEMMA MessageDone ==
  ASSUME NEW items \in Seq(Items), NEW e \in Events
  PROVE  \/ CompleteMessage(items, e) = items
         \/ \E k \in DOMAIN items, it \in Items :
              /\ items[k].type = "message" /\ it.type = "message"
              /\ it.entity = items[k].entity /\ it.text = items[k].text
              /\ Changed(items, CompleteMessage(items, e), k, it)
<1> DEFINE last == SelectLastInSeq(items, Unfinished)
           k == Find(items, e, "message", last)
<1>1. CompleteMessage(items, e) = IF k = 0 THEN items
                                  ELSE [items EXCEPT ![k] = [items[k] EXCEPT !.status = "completed"]]
  BY DEF CompleteMessage
<1>2. last = 0 \/ (last \in DOMAIN items /\ items[last].type = "message")
  BY LastUnfinished
<1>3. k = 0 \/ (k \in DOMAIN items /\ items[k].type = "message")
  <2> HIDE DEF last
  <2>1. e.entity = 0 => k = last
    BY FindUnnamed
  <2>2. e.entity # 0 => \/ k = 0
                        \/ k \in DOMAIN items /\ items[k].type = "message" /\ items[k].entity = e.entity
    BY FindNamed
  <2> QED
    BY <1>2, <2>1, <2>2
<1> HIDE DEF k
<1>4. CASE k = 0
  BY <1>1, <1>4
<1>5. CASE k # 0
  <2> DEFINE it == [items[k] EXCEPT !.status = "completed"]
  <2>1. k \in DOMAIN items /\ items[k] \in Messages
    BY <1>3, <1>5 DEF Items, Messages, Thinkings, Tools, Notices
  <2>2. it \in Items /\ it.type = "message" /\ it.entity = items[k].entity /\ it.text = items[k].text
    BY <2>1 DEF Items, Messages
  <2>3. Changed(items, CompleteMessage(items, e), k, it)
    <3> HIDE DEF it
    <3> SUFFICES Changed(items, [items EXCEPT ![k] = it], k, it)
      BY <1>1, <1>5 DEF it
    <3> QED
      BY <2>1, <2>2, Changing
  <2> HIDE DEF it
  <2> QED
    BY <1>3, <1>5, <2>1, <2>2, <2>3
<1> QED
  BY <1>4, <1>5

\* A completion without a name settles the last tool that runs; one with a name,
\* the tool it names.
LEMMA ToolDone ==
  ASSUME NEW items \in Seq(Items), NEW e \in Events
  PROVE  \/ /\ CompleteTool(items, e) = items
            /\ \A i \in DOMAIN items : items[i].type = "tool" =>
                 IF e.entity = 0 THEN items[i].status # "running" ELSE items[i].entity # e.entity
         \/ \E k \in DOMAIN items :
              /\ items[k].type = "tool"
              /\ Changed(items, CompleteTool(items, e), k, [items[k] EXCEPT !.status = "completed", !.output = e.call])
              /\ IF e.entity # 0 THEN items[k].entity = e.entity
                 ELSE /\ items[k].status = "running"
                      /\ \A i \in DOMAIN items : items[i].type = "tool" /\ items[i].status = "running" => i <= k
<1>1. PICK k \in 0 .. Len(items) :
           /\ CompleteTool(items, e) =
                IF k = 0 THEN items ELSE [items EXCEPT ![k].status = "completed", ![k].output = e.call]
           /\ k # 0 => items[k].type = "tool"
           /\ e.entity # 0 =>
                IF k = 0 THEN \A i \in DOMAIN items : ~(items[i].type = "tool" /\ items[i].entity = e.entity)
                         ELSE items[k].entity = e.entity
           /\ e.entity = 0 =>
                /\ k # 0 => items[k].status = "running"
                /\ \A i \in DOMAIN items : items[i].type = "tool" /\ items[i].status = "running" => i <= k
  BY SettledTool
<1>2. CASE k = 0
  <2>1. \A i \in DOMAIN items : items[i].type = "tool" /\ e.entity = 0 => items[i].status # "running"
    BY <1>1, <1>2
  <2> QED
    BY <1>1, <1>2, <2>1
<1>3. CASE k # 0
  <2> DEFINE it == [items[k] EXCEPT !.status = "completed", !.output = e.call]
  <2>1. k \in DOMAIN items /\ items[k] \in Tools
    BY <1>1, <1>3 DEF Items, Messages, Thinkings, Tools, Notices
  <2>2. it \in Items
    BY <2>1 DEF Items, Tools, Events
  <2>3. CompleteTool(items, e) = [items EXCEPT ![k] = it]
    BY <1>1, <1>3, <2>1
  <2>4. Changed(items, CompleteTool(items, e), k, it)
    <3> HIDE DEF it
    <3> QED
      BY <2>1, <2>2, <2>3, Changing
  <2> QED
    BY <1>1, <1>3, <2>1, <2>4
<1> QED
  BY <1>2, <1>3

\* An event that is not about text leaves the text of every message as it was.
TextKept(items, new) ==
  /\ \A j \in DOMAIN items :
       /\ j \in DOMAIN new /\ new[j].type = items[j].type /\ new[j].entity = items[j].entity
       /\ items[j].type = "message" => new[j].text = items[j].text
  /\ \A j \in DOMAIN new \ DOMAIN items : new[j].type = "message" => new[j].text = <<>>

\* An event that is not about tools leaves the tools as they were.
ToolsKept(items, new) ==
  /\ \A j \in DOMAIN items :
       /\ j \in DOMAIN new
       /\ items[j].type = "tool" \/ new[j].type = "tool" => new[j] = items[j]
  /\ \A j \in DOMAIN new \ DOMAIN items : new[j].type # "tool"

LEMMA GrownKeeps ==
  ASSUME NEW items \in Seq(Items), NEW new, NEW it, Grown(items, new, it)
  PROVE  /\ (it.type = "message" => it.text = <<>>) => TextKept(items, new)
         /\ it.type # "tool" => ToolsKept(items, new)
BY DEF Grown, TextKept, ToolsKept

LEMMA ChangedKeeps ==
  ASSUME NEW items \in Seq(Items), NEW new, NEW k, NEW it, Changed(items, new, k, it), it.type = items[k].type
  PROVE  /\ it.entity = items[k].entity /\ (it.type = "message" => it.text = items[k].text) => TextKept(items, new)
         /\ it.type # "tool" => ToolsKept(items, new)
BY DEF Changed, TextKept, ToolsKept

LEMMA SameKeeps ==
  ASSUME NEW items
  PROVE  TextKept(items, items) /\ ToolsKept(items, items)
BY DEF TextKept, ToolsKept

LEMMA AddEventTyped ==
  ASSUME NEW a \in Groups, NEW e \in Events
  PROVE  /\ AddEvent(a, e) \in Groups /\ AddEvent(a, e).attempt = a.attempt
         /\ e.kind # "text.delta" => TextKept(a.items, AddEvent(a, e).items)
         /\ e.kind = "text.delta" => AddEvent(a, e).items = AddText(a.items, e)
         /\ ~OfTool(e) => ToolsKept(a.items, AddEvent(a, e).items)
         /\ e.kind = "tool.started" => AddEvent(a, e).items = Append(a.items, Tool(e))
         /\ e.kind = "tool.completed" => AddEvent(a, e).items = CompleteTool(a.items, e)
<1> DEFINE b == AddEvent(a, e)
<1>1. a \in Groups /\ a.items \in Seq(Items) /\ e.kind \in Kinds /\ e.status \in Statuses
  BY DEF Groups, Events
<1>2. ASSUME NEW new \in Seq(Items), b = [a EXCEPT !.items = new]
      PROVE  b \in Groups /\ b.attempt = a.attempt /\ b.items = new
  <2> HIDE DEF b
  <2> QED
    BY <1>1, <1>2 DEF Groups
<1>3. CASE e.kind = "attempt.finished"
  <2>1. b = [a EXCEPT !.status = e.status]
    BY <1>3 DEF AddEvent
  <2>2. b \in Groups /\ b.attempt = a.attempt /\ b.items = a.items
    <3> HIDE DEF b
    <3> QED
      BY <1>1, <2>1 DEF Groups
  <2> QED
    BY <1>3, <2>2, SameKeeps DEF OfTool
<1>4. CASE e.kind = "message.started"
  <2> DEFINE it == Message(e, <<>>)
  <2>1. b = [a EXCEPT !.items = Append(a.items, it)]
    BY <1>4 DEF AddEvent
  <2>2. Grown(a.items, Append(a.items, it), it) /\ Append(a.items, it) \in Seq(Items)
    BY <1>1, NewItemsTyped, Appending DEF Grown
  <2>3. it.type = "message" /\ it.text = <<>>
    BY DEF Message
  <2>4. TextKept(a.items, Append(a.items, it)) /\ ToolsKept(a.items, Append(a.items, it))
    <3> HIDE DEF it
    <3> QED
      BY <1>1, <2>2, <2>3, GrownKeeps
  <2> HIDE DEF it
  <2> QED
    BY <1>2, <1>4, <2>1, <2>2, <2>4 DEF OfTool
<1>5. CASE e.kind = "text.delta"
  <2>1. b = [a EXCEPT !.items = AddText(a.items, e)]
    BY <1>5 DEF AddEvent
  <2>2. AddText(a.items, e) \in Seq(Items) /\ ToolsKept(a.items, AddText(a.items, e))
    <3>1. CASE Grown(a.items, AddText(a.items, e), Message(e, <<e.id>>))
      <4>1. Message(e, <<e.id>>).type # "tool"
        BY DEF Message
      <4> QED
        BY <1>1, <3>1, <4>1, GrownKeeps DEF Grown
    <3>2. ASSUME NEW k \in DOMAIN a.items, a.items[k].type = "message",
                 Changed(a.items, AddText(a.items, e), k, [a.items[k] EXCEPT !.text = Append(@, e.id)])
          PROVE  AddText(a.items, e) \in Seq(Items) /\ ToolsKept(a.items, AddText(a.items, e))
      <4>1. a.items[k] \in Messages
        BY <1>1, <3>2 DEF Items, Messages, Thinkings, Tools, Notices
      <4> DEFINE it == [a.items[k] EXCEPT !.text = Append(a.items[k].text, e.id)]
      <4>2. it.type = a.items[k].type
        BY <4>1 DEF Messages
      <4>3. Changed(a.items, AddText(a.items, e), k, it)
        BY <3>2
      <4> HIDE DEF it
      <4> QED
        BY <1>1, <3>2, <4>2, <4>3, ChangedKeeps DEF Changed
    <3> QED
      BY <1>1, <3>1, <3>2, TextAdded
  <2> QED
    BY <1>2, <1>5, <2>1, <2>2 DEF OfTool
<1>6. CASE e.kind = "summary.delta"
  <2> DEFINE new == AddThinking(a.items, e)
  <2>1. b = [a EXCEPT !.items = new]
    BY <1>6 DEF AddEvent
  <2>2. new \in Seq(Items) /\ TextKept(a.items, new) /\ ToolsKept(a.items, new)
    <3>1. CASE Grown(a.items, new, Thinking(e))
      <4>1. Thinking(e).type = "thinking"
        BY DEF Thinking
      <4> QED
        BY <1>1, <3>1, <4>1, GrownKeeps DEF Grown
    <3>2. ASSUME NEW k \in DOMAIN a.items, NEW it \in Items, a.items[k].type = "thinking", it.type = "thinking",
                 it.entity = a.items[k].entity, Changed(a.items, new, k, it)
          PROVE  new \in Seq(Items) /\ TextKept(a.items, new) /\ ToolsKept(a.items, new)
      BY <1>1, <3>2, ChangedKeeps DEF Changed
    <3> QED
      BY <1>1, <3>1, <3>2, ThinkingAdded
  <2> HIDE DEF new
  <2> QED
    BY <1>2, <1>6, <2>1, <2>2 DEF OfTool
<1>7. CASE e.kind = "message.completed"
  <2> DEFINE new == CompleteMessage(a.items, e)
  <2>1. b = [a EXCEPT !.items = new]
    BY <1>7 DEF AddEvent
  <2>2. new \in Seq(Items) /\ TextKept(a.items, new) /\ ToolsKept(a.items, new)
    <3>1. CASE new = a.items
      BY <1>1, <3>1, SameKeeps
    <3>2. ASSUME NEW k \in DOMAIN a.items, NEW it \in Items, a.items[k].type = "message", it.type = "message",
                 it.entity = a.items[k].entity, it.text = a.items[k].text, Changed(a.items, new, k, it)
          PROVE  new \in Seq(Items) /\ TextKept(a.items, new) /\ ToolsKept(a.items, new)
      BY <1>1, <3>2, ChangedKeeps DEF Changed
    <3> QED
      BY <1>1, <3>1, <3>2, MessageDone
  <2> HIDE DEF new
  <2> QED
    BY <1>2, <1>7, <2>1, <2>2 DEF OfTool
<1>8. CASE e.kind = "tool.started"
  <2>1. b = [a EXCEPT !.items = Append(a.items, Tool(e))]
    BY <1>8 DEF AddEvent
  <2>2. Grown(a.items, Append(a.items, Tool(e)), Tool(e)) /\ Append(a.items, Tool(e)) \in Seq(Items)
    BY <1>1, NewItemsTyped, Appending DEF Grown
  <2>3. Tool(e).type = "tool"
    BY DEF Tool
  <2>4. TextKept(a.items, Append(a.items, Tool(e)))
    BY <1>1, <2>2, <2>3, GrownKeeps
  <2> QED
    BY <1>2, <1>8, <2>1, <2>2, <2>4 DEF OfTool
<1>9. CASE e.kind = "tool.completed"
  <2> DEFINE new == CompleteTool(a.items, e)
  <2>1. b = [a EXCEPT !.items = new]
    BY <1>9 DEF AddEvent
  <2>2. new \in Seq(Items) /\ TextKept(a.items, new)
    <3>1. CASE new = a.items
      BY <1>1, <3>1, SameKeeps
    <3>2. ASSUME NEW k \in DOMAIN a.items, a.items[k].type = "tool",
                 Changed(a.items, new, k, [a.items[k] EXCEPT !.status = "completed", !.output = e.call])
          PROVE  new \in Seq(Items) /\ TextKept(a.items, new)
      <4> DEFINE it == [a.items[k] EXCEPT !.status = "completed", !.output = e.call]
      <4>1. a.items[k] \in Tools
        BY <1>1, <3>2 DEF Items, Messages, Thinkings, Tools, Notices
      <4>2. it.type = "tool" /\ it.entity = a.items[k].entity
        BY <4>1 DEF Tools
      <4>3. Changed(a.items, new, k, it)
        BY <3>2
      <4> HIDE DEF it
      <4> QED
        BY <1>1, <3>2, <4>2, <4>3, ChangedKeeps DEF Changed
    <3> QED
      BY <1>1, <3>1, <3>2, ToolDone
  <2> HIDE DEF new
  <2> QED
    BY <1>2, <1>9, <2>1, <2>2 DEF OfTool, new
<1>10. CASE e.kind = "stream.truncated"
  <2>1. b = [a EXCEPT !.items = Append(a.items, Notice(e))]
    BY <1>10 DEF AddEvent
  <2>2. Grown(a.items, Append(a.items, Notice(e)), Notice(e)) /\ Append(a.items, Notice(e)) \in Seq(Items)
    BY <1>1, NewItemsTyped, Appending DEF Grown
  <2>3. Notice(e).type = "truncated"
    BY DEF Notice
  <2>4. TextKept(a.items, Append(a.items, Notice(e))) /\ ToolsKept(a.items, Append(a.items, Notice(e)))
    BY <1>1, <2>2, <2>3, GrownKeeps
  <2> QED
    BY <1>2, <1>10, <2>1, <2>2, <2>4 DEF OfTool
<1> QED
  BY <1>1, <1>3, <1>4, <1>5, <1>6, <1>7, <1>8, <1>9, <1>10 DEF Kinds

\* An event changes the group of its attempt and no other, and opens it if need be.
GroupMoved(groups, e, new) ==
  /\ new \in Seq(Groups)
  /\ \A g, h \in DOMAIN new : new[g].attempt = new[h].attempt => g = h
  /\ \A g \in DOMAIN groups : g \in DOMAIN new /\ new[g].attempt = groups[g].attempt
  /\ \E g \in DOMAIN new :
       /\ \E a \in Groups : /\ a.attempt = e.attempt /\ new[g] = AddEvent(a, e)
                            /\ IF g \in DOMAIN groups THEN a = groups[g] ELSE a.items = <<>>
       /\ \A h \in DOMAIN new : h # g => h \in DOMAIN groups /\ new[h] = groups[h] /\ new[h].attempt # e.attempt

LEMMA GroupStep ==
  ASSUME NEW groups \in Seq(Groups), NEW e \in Events,
         \A g, h \in DOMAIN groups : groups[g].attempt = groups[h].attempt => g = h
  PROVE  GroupMoved(groups, e, Grouped(groups, e))
<1> DEFINE opened == IF \E k \in DOMAIN groups : groups[k].attempt = e.attempt THEN groups
                     ELSE Append(groups, NewAttempt(e.attempt))
           T == {i \in 1 .. Len(opened) : opened[i].attempt = e.attempt}
           k == SelectInSeq(opened, LAMBDA a : a.attempt = e.attempt)
<1>1. e.attempt \in Nat /\ NewAttempt(e.attempt) \in Groups /\ NewAttempt(e.attempt).attempt = e.attempt
      /\ NewAttempt(e.attempt).items = <<>>
  <2>1. <<>> \in Seq(Items)
    OBVIOUS
  <2> QED
    BY <2>1 DEF NewAttempt, Groups, Events, Statuses
<1>2. /\ opened \in Seq(Groups)
      /\ \A g \in DOMAIN groups : g \in DOMAIN opened /\ opened[g] = groups[g]
      /\ \A g \in DOMAIN opened \ DOMAIN groups : opened[g] = NewAttempt(e.attempt)
      /\ \A g, h \in DOMAIN opened : opened[g].attempt = opened[h].attempt => g = h
      /\ \E g \in DOMAIN opened : opened[g].attempt = e.attempt
  <2>1. CASE \E g \in DOMAIN groups : groups[g].attempt = e.attempt
    <3>1. opened = groups
      BY <2>1
    <3> HIDE DEF opened
    <3> QED
      BY <2>1, <3>1
  <2>2. CASE ~ \E g \in DOMAIN groups : groups[g].attempt = e.attempt
    <3>1. opened = Append(groups, NewAttempt(e.attempt))
      BY <2>2
    <3> HIDE DEF opened
    <3>2. /\ opened \in Seq(Groups) /\ DOMAIN opened = 1 .. Len(groups) + 1 /\ DOMAIN groups = 1 .. Len(groups)
          /\ \A g \in 1 .. Len(groups) : opened[g] = groups[g]
          /\ opened[Len(groups) + 1] = NewAttempt(e.attempt) /\ Len(groups) \in Nat
      BY <3>1, <1>1
    <3> QED
      BY <1>1, <2>2, <3>2
  <2> QED
    BY <2>1, <2>2
<1>3. k = IF T # {} THEN Min(T) ELSE 0
  BY DEF SelectInSeq
<1> HIDE DEF opened
<1>4. DOMAIN opened = 1 .. Len(opened) /\ Len(opened) \in Nat
  BY <1>2
<1>5. T # {} => Min(T) \in T
  <2> T \subseteq 1 .. Len(opened)
    OBVIOUS
  <2> HIDE DEF T
  <2> QED
    BY <1>4, SmallestOf
<1>6. k \in DOMAIN opened /\ opened[k].attempt = e.attempt
  BY <1>2, <1>3, <1>4, <1>5
<1> DEFINE new == [opened EXCEPT ![k] = AddEvent(opened[k], e)]
<1>7. Grouped(groups, e) = new
  BY DEF Grouped, opened
<1> HIDE DEF k
<1>8. opened[k] \in Groups
  BY <1>2, <1>6
<1>9. AddEvent(opened[k], e) \in Groups /\ AddEvent(opened[k], e).attempt = opened[k].attempt
  BY <1>8, AddEventTyped
<1>10. /\ new \in Seq(Groups) /\ DOMAIN new = DOMAIN opened /\ new[k] = AddEvent(opened[k], e)
       /\ \A h \in DOMAIN opened : h # k => new[h] = opened[h]
  BY <1>2, <1>6, <1>9
<1> HIDE DEF new
<1>11. \A h \in DOMAIN new : new[h].attempt = opened[h].attempt
  BY <1>9, <1>10
<1>12. \A g, h \in DOMAIN new : new[g].attempt = new[h].attempt => g = h
  BY <1>2, <1>10, <1>11
<1>13. \A g \in DOMAIN groups : g \in DOMAIN new /\ new[g].attempt = groups[g].attempt
  BY <1>2, <1>10, <1>11
<1>14. \A h \in DOMAIN new : h # k => h \in DOMAIN groups /\ new[h] = groups[h] /\ new[h].attempt # e.attempt
  BY <1>1, <1>2, <1>6, <1>10, <1>11
<1>15. IF k \in DOMAIN groups THEN opened[k] = groups[k] ELSE opened[k].items = <<>>
  BY <1>1, <1>2, <1>6
<1>16. GroupMoved(groups, e, new)
  BY <1>6, <1>8, <1>10, <1>12, <1>13, <1>14, <1>15 DEF GroupMoved
<1> QED
  BY <1>7, <1>16

-----------------------------------------------------------------------------
\* The text of an attempt after one more event.

LEMMA TextUnmoved ==
  ASSUME NEW l, NEW n \in Nat \ {0}, NEW a, NEW items \in Seq(Items), NEW new \in Seq(Items),
         TextOf(items, a, l, n - 1), TextKept(items, new),
         l[n].kind = "text.delta" => l[n].attempt # a
  PROVE  TextOf(new, a, l, n)
<1>1. ASSUME NEW j \in DOMAIN new
      PROVE  IF j \in DOMAIN items
               THEN Pieces(new[j]) = Pieces(items[j]) /\ new[j].entity = items[j].entity
               ELSE Pieces(new[j]) = {}
  <2>1. ToSet(<<>>) = {}
    BY DEF ToSet
  <2> QED
    BY <2>1 DEF TextKept, Pieces
<1>2. \A j \in DOMAIN new : new[j].type = "message" => Increasing(new[j].text)
  <2>1. Increasing(<<>>)
    BY DEF Increasing
  <2> QED
    BY <2>1 DEF TextKept, TextOf
<1>3. DOMAIN items \subseteq DOMAIN new
  BY DEF TextKept
<1>4. \A i \in 1 .. n - 1 : i \in 1..n
  OBVIOUS
<1>5. \A i \in 1..n : i \in 1 .. n - 1 \/ i = n
  OBVIOUS
<1>6. ASSUME NEW k \in DOMAIN new, NEW i \in Pieces(new[k])
      PROVE  /\ i \in 1..n /\ l[i].kind = "text.delta" /\ l[i].attempt = a
             /\ l[i].entity # 0 => new[k].entity = l[i].entity
  BY <1>1, <1>4, <1>6 DEF TextOf
<1>7. ASSUME NEW i \in 1..n, l[i].kind = "text.delta", l[i].attempt = a
      PROVE  \E k \in DOMAIN new : i \in Pieces(new[k])
  <2>1. i \in 1 .. n - 1
    BY <1>5, <1>7
  <2>2. PICK k \in DOMAIN items : i \in Pieces(items[k])
    BY <1>7, <2>1 DEF TextOf
  <2> QED
    BY <1>1, <1>3, <2>2
<1>8. ASSUME NEW j \in DOMAIN new, NEW k \in DOMAIN new, NEW i \in Pieces(new[j]), i \in Pieces(new[k])
      PROVE  j = k
  BY <1>1, <1>8 DEF TextOf
<1> QED
  BY <1>2, <1>6, <1>7, <1>8 DEF TextOf

LEMMA AppendedText ==
  ASSUME NEW s \in Seq(Nat), NEW n \in Nat, Increasing(s), \A i \in ToSet(s) : i < n
  PROVE  Increasing(Append(s, n)) /\ ToSet(Append(s, n)) = ToSet(s) \union {n}
<1> DEFINE t == Append(s, n)
<1>1. /\ DOMAIN t = 1 .. Len(s) + 1 /\ t[Len(s) + 1] = n /\ \A i \in 1 .. Len(s) : t[i] = s[i]
      /\ DOMAIN s = 1 .. Len(s) /\ Len(s) \in Nat /\ \A i \in 1 .. Len(s) : s[i] \in Nat
  OBVIOUS
<1> HIDE DEF t
<1>2. \A i \in DOMAIN s : s[i] < n
  BY DEF ToSet
<1>3. Increasing(t)
  BY <1>1, <1>2 DEF Increasing
<1>4. ToSet(t) = ToSet(s) \union {n}
  BY <1>1 DEF ToSet
<1> QED
  BY <1>3, <1>4 DEF t

LEMMA TextGrows ==
  ASSUME NEW l, Numbered(l), NEW n \in DOMAIN l, NEW items \in Seq(Items),
         TextOf(items, l[n].attempt, l, n - 1), l[n].kind = "text.delta"
  PROVE  TextOf(AddText(items, l[n]), l[n].attempt, l, n)
<1> DEFINE e == l[n]
           a == e.attempt
           new == AddText(items, e)
           Gains(p) ==
             /\ p \in DOMAIN new /\ DOMAIN items \subseteq DOMAIN new
             /\ new[p].type = "message" /\ Increasing(new[p].text) /\ (e.entity # 0 => new[p].entity = e.entity)
             /\ IF p \in DOMAIN items THEN Pieces(new[p]) = Pieces(items[p]) \union {n} /\ new[p].entity = items[p].entity
                                      ELSE Pieces(new[p]) = {n}
             /\ \A j \in DOMAIN new : j # p => j \in DOMAIN items /\ new[j] = items[j]
<1>1. e \in Events /\ e.id = n /\ n \in Nat \ {0} /\ e.entity \in Nat
  <2>1. l \in Seq(Events) /\ n \in 1 .. Len(l) /\ l[n] \in Events /\ l[n].id = n
    BY DEF Numbered
  <2> QED
    BY <2>1 DEF Events
\* One message gains the piece.
<1>2. \E p : Gains(p)
  <2>1. CASE Grown(items, new, Message(e, <<e.id>>))
    <3> DEFINE p == Len(items) + 1
               it == Message(e, <<e.id>>)
    <3>1. it.type = "message" /\ it.text = <<n>> /\ (e.entity # 0 => it.entity = e.entity)
      BY <1>1 DEF Message, Own
    <3>2. Increasing(<<n>>) /\ ToSet(<<n>>) = {n}
      BY DEF Increasing, ToSet
    <3>3. Increasing(it.text) /\ Pieces(it) = {n}
      BY <3>1, <3>2 DEF Pieces
    <3>4. p \in DOMAIN new /\ new[p] = it /\ p \notin DOMAIN items /\ DOMAIN items \subseteq DOMAIN new
          /\ \A j \in DOMAIN new : j # p => j \in DOMAIN items /\ new[j] = items[j]
      <4> HIDE DEF it
      <4> QED
        BY <2>1 DEF Grown, it
    <3>5. Gains(p)
      <4> HIDE DEF p, it, new
      <4> QED
        BY <3>1, <3>3, <3>4
    <3> QED
      BY <3>5
  <2>2. ASSUME NEW k \in DOMAIN items, items[k].type = "message", e.entity # 0 => items[k].entity = e.entity,
               Changed(items, new, k, [items[k] EXCEPT !.text = Append(@, e.id)])
        PROVE  Gains(k)
    <3> DEFINE it == [items[k] EXCEPT !.text = Append(items[k].text, n)]
    <3>1. items[k] \in Messages /\ items[k].text \in Seq(Nat)
      BY <2>2 DEF Items, Messages, Thinkings, Tools, Notices
    <3>2. it.type = "message" /\ it.entity = items[k].entity /\ it.text = Append(items[k].text, n)
      BY <3>1 DEF Messages
    <3>3. Pieces(items[k]) = ToSet(items[k].text) /\ Pieces(it) = ToSet(it.text)
      BY <2>2, <3>2 DEF Pieces
    <3>4. \A i \in ToSet(items[k].text) : i < n
      BY <1>1, <3>3 DEF TextOf
    <3>5. Increasing(items[k].text)
      BY <2>2 DEF TextOf
    <3>6. Increasing(it.text) /\ Pieces(it) = Pieces(items[k]) \union {n}
      BY <1>1, <3>1, <3>2, <3>3, <3>4, <3>5, AppendedText
    <3>7. Changed(items, new, k, it)
      BY <1>1, <2>2
    <3> HIDE DEF it, new
    <3>8. new[k] = it /\ k \in DOMAIN new /\ DOMAIN items = DOMAIN new
          /\ \A j \in DOMAIN new : j # k => j \in DOMAIN items /\ new[j] = items[j]
      BY <3>7 DEF Changed
    <3> QED
      BY <2>2, <3>2, <3>6, <3>8
  <2> HIDE DEF Gains
  <2> QED
    BY <1>1, <2>1, <2>2, TextAdded
<1> HIDE DEF new
<1>3. PICK p : Gains(p)
  BY <1>2
<1>4. \A i \in 1..n : i \in 1 .. n - 1 \/ i = n
  BY <1>1
<1>5. \A i \in 1 .. n - 1 : i \in 1..n /\ i # n
  BY <1>1
<1>6. \A j \in DOMAIN new : new[j].type = "message" => Increasing(new[j].text)
  BY <1>3 DEF TextOf
<1>7. ASSUME NEW k \in DOMAIN new, NEW i \in Pieces(new[k])
      PROVE  /\ i \in 1..n /\ l[i].kind = "text.delta" /\ l[i].attempt = a
             /\ l[i].entity # 0 => new[k].entity = l[i].entity
  <2>1. CASE k \in DOMAIN items /\ i \in Pieces(items[k])
    BY <1>3, <1>5, <2>1 DEF TextOf
  <2>2. CASE k = p /\ i = n
    BY <1>1, <1>3, <2>2
  <2> QED
    BY <1>3, <2>1, <2>2
<1>8. ASSUME NEW i \in 1..n, l[i].kind = "text.delta", l[i].attempt = a
      PROVE  \E k \in DOMAIN new : i \in Pieces(new[k])
  <2>1. CASE i = n
    BY <1>3, <2>1
  <2>2. CASE i \in 1 .. n - 1
    <3>1. PICK k \in DOMAIN items : i \in Pieces(items[k])
      BY <1>8, <2>2 DEF TextOf
    <3> QED
      BY <1>3, <3>1
  <2> QED
    BY <1>4, <2>1, <2>2
<1>9. ASSUME NEW j \in DOMAIN new, NEW k \in DOMAIN new, NEW i \in Pieces(new[j]), i \in Pieces(new[k])
      PROVE  j = k
  <2>1. CASE i = n
    <3>1. \A h \in DOMAIN items : n \notin Pieces(items[h])
      BY <1>5 DEF TextOf
    <3> QED
      BY <1>3, <1>9, <2>1, <3>1
  <2>2. CASE i # n
    <3>1. j \in DOMAIN items /\ i \in Pieces(items[j])
      BY <1>3, <2>2
    <3>2. k \in DOMAIN items /\ i \in Pieces(items[k])
      BY <1>3, <1>9, <2>2
    <3> QED
      BY <3>1, <3>2 DEF TextOf
  <2> QED
    BY <2>1, <2>2
<1>10. TextOf(new, a, l, n)
  BY <1>6, <1>7, <1>8, <1>9 DEF TextOf
<1> QED
  BY <1>10 DEF new

-----------------------------------------------------------------------------
\* The tool cards of an attempt after one more event.

LEMMA EventsTyped ==
  ASSUME NEW l, Numbered(l), NEW n \in DOMAIN l
  PROVE  /\ l[n] \in Events /\ l[n].id = n /\ n \in Nat \ {0}
         /\ l[n].entity \in Nat /\ l[n].call \in Nat /\ l[n].attempt \in Nat
         /\ DOMAIN l = 1 .. Len(l) /\ Len(l) \in Nat
         /\ \A i \in 1..n : i \in DOMAIN l /\ (i = n \/ i \in 1 .. n - 1)
         /\ \A i \in 1 .. n - 1 : i \in 1..n /\ i \in DOMAIN l /\ i < n
<1>1. l \in Seq(Events) /\ n \in 1 .. Len(l) /\ l[n] \in Events /\ l[n].id = n
  BY DEF Numbered
<1>2. l[n].entity \in Nat /\ l[n].call \in Nat /\ l[n].attempt \in Nat
  BY <1>1 DEF Events
<1>3. DOMAIN l = 1 .. Len(l) /\ Len(l) \in Nat
  BY <1>1
<1> QED
  BY <1>1, <1>2, <1>3

LEMMA EarlierExcuses ==
  ASSUME NEW l, Numbered(l), Calls(l), NEW n \in DOMAIN l, NEW a, NEW it
  PROVE  Excused(it, a, l, n - 1) => Excused(it, a, l, n)
<1> USE EventsTyped
<1>1. ASSUME Orphan(a, l, n - 1) PROVE Orphan(a, l, n)
  <2>1. PICK i \in 1 .. n - 1 : /\ l[i].kind = "tool.completed" /\ l[i].entity = 0 /\ l[i].attempt = a
                                /\ Started(l, n - 1, l[i].call) = {}
    BY <1>1 DEF Orphan
  <2>2. ~(l[n].kind = "tool.started" /\ l[n].call = l[i].call)
    <3>1. i \in DOMAIN l /\ i < n /\ i \in Int /\ n \in Int
      OBVIOUS
    <3>2. l[n].kind = "tool.started" /\ l[n].call = l[i].call => n < i
      BY <2>1, <3>1 DEF Calls
    <3> QED
      BY <3>1, <3>2
  <2>3. Started(l, n, l[i].call) = {}
    BY <2>1, <2>2 DEF Started
  <2>4. i \in 1..n
    OBVIOUS
  <2> QED
    BY <2>1, <2>3, <2>4 DEF Orphan
<1>2. Namesake(it, a, l, n - 1) => Namesake(it, a, l, n)
  BY DEF Namesake
<1>3. Strayed(it, a, l, n - 1) => Strayed(it, a, l, n)
  BY DEF Strayed
<1> QED
  BY <1>1, <1>2, <1>3 DEF Excused

\* A call starts once.
LEMMA StartsOnce ==
  ASSUME NEW l, Numbered(l), Calls(l), NEW n \in DOMAIN l, NEW c, Started(l, n - 1, c) # {}
  PROVE  Started(l, n, c) = Started(l, n - 1, c)
<1> USE EventsTyped
<1>1. PICK i \in 1 .. n - 1 : l[i].kind = "tool.started" /\ l[i].call = c
  BY DEF Started
<1>2. i \in DOMAIN l /\ i < n /\ l[i].call \in Nat /\ l[n].call \in Nat
  OBVIOUS
<1>3. ~(l[n].kind = "tool.started" /\ l[n].call = c)
  <2>1. l[n].kind = "tool.started" => l[i].call < l[n].call
    BY <1>1, <1>2 DEF Calls
  <2> QED
    BY <1>1, <1>2, <2>1
<1> QED
  BY <1>3 DEF Started

\* An event that is not the completion of its call leaves a card as it was.
LEMMA CardStays ==
  ASSUME NEW l, Numbered(l), Calls(l), NEW n \in DOMAIN l, NEW a, NEW it, ToolOK(it, a, l, n - 1),
         ~(l[n].kind = "tool.completed" /\ l[n].call = it.call)
  PROVE  ToolOK(it, a, l, n)
<1>1. PICK i \in Started(l, n - 1, it.call) : l[i].attempt = a /\ it.entity = Own(l[i])
  BY DEF ToolOK
<1>2. Started(l, n, it.call) = Started(l, n - 1, it.call)
  BY <1>1, StartsOnce
<1>3. Completed(l, n, it.call) = Completed(l, n - 1, it.call)
  BY EventsTyped DEF Completed
<1>4. it.status = "completed" =>
        \E j \in 1..n : l[j].kind = "tool.completed" /\ \A s \in Started(l, n, it.call) : s < j
  BY <1>2, EventsTyped DEF ToolOK
<1>5. SettledBy(it, l, n) \/ Excused(it, a, l, n)
  BY <1>3, EarlierExcuses DEF ToolOK, SettledBy
<1> QED
  BY <1>1, <1>2, <1>4, <1>5 DEF ToolOK

\* A call belongs to one attempt.
LEMMA OtherAttempt ==
  ASSUME NEW l, Numbered(l), Calls(l), NEW n \in DOMAIN l, NEW a, NEW it, ToolOK(it, a, l, n - 1),
         l[n].kind = "tool.completed", l[n].call = it.call
  PROVE  l[n].attempt = a
<1>1. PICK i \in Started(l, n - 1, it.call) : l[i].attempt = a
  BY DEF ToolOK
<1>2. i \in DOMAIN l /\ l[i].kind = "tool.started" /\ l[i].call = it.call
  BY <1>1, EventsTyped DEF Started
<1> QED
  BY <1>1, <1>2 DEF Calls

LEMMA ToolsUnmoved ==
  ASSUME NEW l, Numbered(l), Calls(l), NEW n \in DOMAIN l, NEW a, NEW items, NEW new,
         ToolsOf(items, a, l, n - 1), ToolsKept(items, new), OfTool(l[n]) => l[n].attempt # a
  PROVE  ToolsOf(new, a, l, n)
<1>1. ASSUME NEW k \in DOMAIN new, new[k].type = "tool"
      PROVE  k \in DOMAIN items /\ new[k] = items[k] /\ items[k].type = "tool"
  BY <1>1 DEF ToolsKept
<1>2. ASSUME NEW k \in DOMAIN items, items[k].type = "tool"
      PROVE  k \in DOMAIN new /\ new[k] = items[k]
  BY <1>2 DEF ToolsKept
<1>3. ASSUME NEW k \in DOMAIN new, new[k].type = "tool" PROVE ToolOK(new[k], a, l, n)
  <2>1. ToolOK(new[k], a, l, n - 1)
    BY <1>1, <1>3 DEF ToolsOf
  <2>2. ~(l[n].kind = "tool.completed" /\ l[n].call = new[k].call)
    BY <2>1, OtherAttempt DEF OfTool
  <2> QED
    BY <2>1, <2>2, CardStays
<1>4. \A j, k \in DOMAIN new :
        new[j].type = "tool" /\ new[k].type = "tool" /\ j < k => new[j].call < new[k].call
  BY <1>1 DEF ToolsOf
<1>5. ASSUME NEW i \in 1..n, l[i].kind = "tool.started", l[i].attempt = a
      PROVE  \E k \in DOMAIN new : new[k].type = "tool" /\ new[k].call = l[i].call
  <2>1. i \in 1 .. n - 1
    BY <1>5, EventsTyped DEF OfTool
  <2>2. PICK k \in DOMAIN items : items[k].type = "tool" /\ items[k].call = l[i].call
    BY <1>5, <2>1 DEF ToolsOf
  <2> QED
    BY <1>2, <2>2
<1> QED
  BY <1>3, <1>4, <1>5 DEF ToolsOf

LEMMA ToolStarts ==
  ASSUME NEW l, Numbered(l), Calls(l), NEW n \in DOMAIN l, NEW items \in Seq(Items),
         ToolsOf(items, l[n].attempt, l, n - 1), l[n].kind = "tool.started"
  PROVE  ToolsOf(Append(items, Tool(l[n])), l[n].attempt, l, n)
<1> DEFINE e == l[n]
           a == e.attempt
           it == Tool(e)
           p == Len(items) + 1
           new == Append(items, it)
<1>1. e \in Events /\ it \in Items
  BY EventsTyped, NewItemsTyped
<1>2. /\ p \in DOMAIN new /\ new[p] = it /\ Len(items) \in Nat /\ DOMAIN items = 1 .. Len(items)
      /\ \A j \in DOMAIN items : j \in DOMAIN new /\ new[j] = items[j] /\ j < p
      /\ \A j \in DOMAIN new : j = p \/ j \in DOMAIN items
      /\ \A j \in DOMAIN new : j \in Nat
  <2> HIDE DEF it
  <2>1. Grown(items, new, it)
    BY <1>1, Appending
  <2>2. Len(items) \in Nat /\ DOMAIN items = 1 .. Len(items)
    OBVIOUS
  <2> HIDE DEF new
  <2> QED
    BY <2>1, <2>2 DEF Grown
<1>3. it.type = "tool" /\ it.call = e.call /\ it.entity = Own(e) /\ it.status = "running" /\ it.output = 0
  BY DEF Tool
<1> HIDE DEF new, it
<1>4. ToolOK(it, a, l, n)
  <2>1. n \in Started(l, n, it.call)
    BY <1>3, EventsTyped DEF Started
  <2>2. Completed(l, n, it.call) = {}
    <3>1. ASSUME NEW i \in Completed(l, n, it.call) PROVE FALSE
      <4>1. i \in DOMAIN l /\ l[i].kind = "tool.completed" /\ l[i].call = e.call /\ i \in 1..n
        BY <1>3, EventsTyped DEF Completed
      <4>2. n < i
        BY <4>1 DEF Calls
      <4> QED
        BY <4>1, <4>2, EventsTyped
    <3> QED
      BY <3>1
  <2>3. SettledBy(it, l, n)
    BY <1>3, <2>2 DEF SettledBy
  <2> QED
    BY <1>3, <2>1, <2>3 DEF ToolOK
<1>5. ASSUME NEW k \in DOMAIN items, items[k].type = "tool"
      PROVE  ToolOK(items[k], a, l, n) /\ items[k].call < it.call
  <2>1. ToolOK(items[k], a, l, n - 1)
    BY <1>5 DEF ToolsOf
  <2>2. ToolOK(items[k], a, l, n)
    BY <2>1, CardStays
  <2>3. PICK i \in Started(l, n - 1, items[k].call) : TRUE
    BY <2>1 DEF ToolOK
  <2>4. i \in DOMAIN l /\ l[i].kind = "tool.started" /\ l[i].call = items[k].call /\ i < n
    BY EventsTyped DEF Started
  <2>5. l[i].call < e.call
    BY <2>4 DEF Calls
  <2> QED
    BY <1>3, <2>2, <2>4, <2>5
<1>6. \A k \in DOMAIN new : new[k].type = "tool" => ToolOK(new[k], a, l, n)
  BY <1>2, <1>4, <1>5
<1>7. ASSUME NEW j \in DOMAIN new, NEW k \in DOMAIN new, new[j].type = "tool", new[k].type = "tool", j < k
      PROVE  new[j].call < new[k].call
  <2>1. j \in DOMAIN items
    BY <1>2, <1>7
  <2>2. CASE k = p
    BY <1>2, <1>5, <1>7, <2>1, <2>2
  <2>3. CASE k \in DOMAIN items
    BY <1>2, <1>7, <2>1, <2>3 DEF ToolsOf
  <2> QED
    BY <1>2, <2>2, <2>3
<1>8. ASSUME NEW i \in 1..n, l[i].kind = "tool.started", l[i].attempt = a
      PROVE  \E k \in DOMAIN new : new[k].type = "tool" /\ new[k].call = l[i].call
  <2>1. CASE i = n
    BY <1>2, <1>3, <2>1
  <2>2. CASE i \in 1 .. n - 1
    <3>1. PICK k \in DOMAIN items : items[k].type = "tool" /\ items[k].call = l[i].call
      BY <1>8, <2>2 DEF ToolsOf
    <3> QED
      BY <1>2, <3>1
  <2> QED
    BY <2>1, <2>2, EventsTyped
<1>9. ToolsOf(new, a, l, n)
  BY <1>6, <1>7, <1>8 DEF ToolsOf
<1> QED
  BY <1>9 DEF new, it

\* A card that a completion settles: its own, one of the same name, or any card of
\* an attempt that lost a start.
LEMMA CardDone ==
  ASSUME NEW l, Numbered(l), Calls(l), NEW n \in DOMAIN l, NEW it \in Tools, NEW new,
         l[n].kind = "tool.completed", ToolOK(it, l[n].attempt, l, n - 1),
         new = [it EXCEPT !.status = "completed", !.output = l[n].call],
         it.call = l[n].call \/ it.entity = l[n].entity \/ Orphan(l[n].attempt, l, n)
  PROVE  ToolOK(new, l[n].attempt, l, n)
<1> DEFINE a == l[n].attempt
<1>1. new.status = "completed" /\ new.output = l[n].call /\ new.call = it.call /\ new.entity = it.entity
  BY DEF Tools
<1>2. PICK i \in Started(l, n - 1, it.call) : l[i].attempt = a /\ it.entity = Own(l[i])
  BY DEF ToolOK
<1>3. Started(l, n, new.call) = Started(l, n - 1, it.call)
  BY <1>1, <1>2, StartsOnce
<1>4. \E j \in 1..n : l[j].kind = "tool.completed" /\ \A s \in Started(l, n, new.call) : s < j
  <2>1. \A s \in Started(l, n, new.call) : s < n
    BY <1>3, EventsTyped DEF Started
  <2> QED
    BY <2>1, EventsTyped
<1>5. CASE it.call = l[n].call
  <2>1. n \in Completed(l, n, new.call)
    BY <1>1, <1>5, EventsTyped DEF Completed
  <2>2. SettledBy(new, l, n)
    BY <1>1, <1>5, <2>1 DEF SettledBy
  <2> QED
    BY <1>1, <1>2, <1>3, <1>4, <2>2 DEF ToolOK
<1>6. CASE it.call # l[n].call /\ it.entity = l[n].entity
  <2>1. Excused(new, a, l, n)
    BY <1>1, <1>6, EventsTyped DEF Namesake, Excused
  <2> QED
    BY <1>1, <1>2, <1>3, <1>4, <2>1 DEF ToolOK
<1>7. CASE Orphan(a, l, n)
  BY <1>1, <1>2, <1>3, <1>4, <1>7 DEF ToolOK, Excused
<1> QED
  BY <1>5, <1>6, <1>7

\* A card that its own completion passes by, for another card of the name it bears.
LEMMA CardPassed ==
  ASSUME NEW l, Numbered(l), Calls(l), NEW n \in DOMAIN l, NEW a, NEW it,
         ToolOK(it, a, l, n - 1), Excused(it, a, l, n)
  PROVE  ToolOK(it, a, l, n)
<1>1. PICK i \in Started(l, n - 1, it.call) : l[i].attempt = a /\ it.entity = Own(l[i])
  BY DEF ToolOK
<1>2. Started(l, n, it.call) = Started(l, n - 1, it.call)
  BY <1>1, StartsOnce
<1>3. it.status = "completed" =>
        \E j \in 1..n : l[j].kind = "tool.completed" /\ \A s \in Started(l, n, it.call) : s < j
  BY <1>2, EventsTyped DEF ToolOK
<1> QED
  BY <1>1, <1>2, <1>3 DEF ToolOK

LEMMA ToolCompletes ==
  ASSUME NEW l, Numbered(l), Calls(l), NEW n \in DOMAIN l, NEW items \in Seq(Items),
         ToolsOf(items, l[n].attempt, l, n - 1), l[n].kind = "tool.completed"
  PROVE  ToolsOf(CompleteTool(items, l[n]), l[n].attempt, l, n)
<1> DEFINE e == l[n]
           a == e.attempt
           c == e.call
           new == CompleteTool(items, e)
           Done(it) == [it EXCEPT !.status = "completed", !.output = c]
           Right(K) ==
             /\ K \subseteq DOMAIN items /\ DOMAIN new = DOMAIN items
             /\ \A j \in DOMAIN items : j \notin K => new[j] = items[j]
             /\ \A k \in K : items[k].type = "tool" /\ new[k] = Done(items[k])
             /\ \A k \in K : items[k].call = c \/ items[k].entity = e.entity \/ Orphan(a, l, n)
             /\ \A j \in DOMAIN items :
                  j \notin K /\ items[j].type = "tool" /\ items[j].call = c => Excused(items[j], a, l, n)
           Missed ==
             /\ new = items
             /\ \A i \in DOMAIN items : items[i].type = "tool" =>
                  IF e.entity = 0 THEN items[i].status # "running" ELSE items[i].entity # e.entity
           Hit(k) ==
             /\ k \in DOMAIN items /\ items[k].type = "tool"
             /\ Changed(items, new, k, Done(items[k]))
             /\ IF e.entity # 0 THEN items[k].entity = e.entity
                ELSE /\ items[k].status = "running"
                     /\ \A i \in DOMAIN items : items[i].type = "tool" /\ items[i].status = "running" => i <= k
<1>1. e \in Events /\ e.entity \in Nat /\ c \in Nat /\ n \in Nat \ {0}
  BY EventsTyped
<1>2. \A k \in DOMAIN items : items[k].type = "tool" => items[k] \in Tools /\ ToolOK(items[k], a, l, n - 1)
  BY DEF ToolsOf, Items, Messages, Thinkings, Tools, Notices
<1>3. \A j, k \in DOMAIN items :
        items[j].type = "tool" /\ items[k].type = "tool" /\ items[j].call = items[k].call => j = k
  <2> TAKE j, k \in DOMAIN items
  <2>1. j \in Nat /\ k \in Nat
    OBVIOUS
  <2>2. items[j].type = "tool" /\ items[k].type = "tool" => items[j].call \in Nat /\ items[k].call \in Nat
    BY <1>2 DEF Tools
  <2> QED
    BY <2>1, <2>2 DEF ToolsOf
\* Where a card of the group came from.
<1>4. ASSUME NEW k \in DOMAIN items, items[k].type = "tool"
      PROVE  \E i \in 1 .. n - 1 :
               /\ l[i].kind = "tool.started" /\ l[i].call = items[k].call /\ l[i].attempt = a
               /\ i \in DOMAIN l /\ i < n /\ i \in Nat
               /\ l[i].entity \in Nat /\ items[k].entity = (IF l[i].entity = 0 THEN -i ELSE l[i].entity)
  <2>1. PICK i \in Started(l, n - 1, items[k].call) : l[i].attempt = a /\ items[k].entity = Own(l[i])
    BY <1>2, <1>4 DEF ToolOK
  <2>2. i \in 1 .. n - 1 /\ l[i].kind = "tool.started" /\ l[i].call = items[k].call
    BY DEF Started
  <2>3. i \in DOMAIN l /\ i < n /\ i \in Nat
    BY <2>2, EventsTyped
  <2>4. l[i].id = i /\ l[i].entity \in Nat
    BY <2>3, EventsTyped
  <2> QED
    BY <2>1, <2>2, <2>3, <2>4 DEF Own
\* One card changes at most, and then all are right.
<1>5. ASSUME NEW K, Right(K)
      PROVE  ToolsOf(new, a, l, n)
  <2> HIDE DEF new
  <2>0. \A it \in Tools : Done(it).type = "tool" /\ Done(it).call = it.call
    BY DEF Tools
  <2> HIDE DEF Done
  <2>1. \A j \in DOMAIN new : new[j].type = "tool" =>
          items[j].type = "tool" /\ new[j].call = items[j].call
    <3> TAKE j \in DOMAIN new
    <3>1. CASE j \in K
      BY <1>2, <1>5, <2>0, <3>1
    <3>2. CASE j \notin K
      BY <1>5, <3>2
    <3> QED
      BY <3>1, <3>2
  <2>2. \A j \in DOMAIN new : items[j].type = "tool" =>
          new[j].type = "tool" /\ new[j].call = items[j].call
    <3> TAKE j \in DOMAIN new
    <3>1. CASE j \in K
      BY <1>2, <1>5, <2>0, <3>1
    <3>2. CASE j \notin K
      BY <1>5, <3>2
    <3> QED
      BY <3>1, <3>2
  <2>3. ASSUME NEW j \in DOMAIN new, new[j].type = "tool" PROVE ToolOK(new[j], a, l, n)
    <3>1. CASE j \in K
      <4>1. items[j] \in Tools /\ ToolOK(items[j], a, l, n - 1)
        BY <1>2, <1>5, <3>1
      <4>2. new[j] = [items[j] EXCEPT !.status = "completed", !.output = l[n].call]
        BY <1>5, <3>1 DEF Done
      <4>3. items[j].call = l[n].call \/ items[j].entity = l[n].entity \/ Orphan(l[n].attempt, l, n)
        BY <1>5, <3>1
      <4> QED
        BY <4>1, <4>2, <4>3, CardDone
    <3>2. CASE j \notin K
      <4>1. new[j] = items[j] /\ items[j].type = "tool" /\ ToolOK(items[j], a, l, n - 1)
        BY <1>2, <1>5, <2>1, <2>3, <3>2
      <4>2. CASE items[j].call = c
        <5>1. Excused(items[j], a, l, n)
          BY <1>5, <3>2, <4>1, <4>2
        <5> QED
          BY <4>1, <5>1, CardPassed
      <4>3. CASE items[j].call # c
        BY <4>1, <4>3, CardStays
      <4> QED
        BY <4>2, <4>3
    <3> QED
      BY <3>1, <3>2
  <2>4. \A j, k \in DOMAIN new :
          new[j].type = "tool" /\ new[k].type = "tool" /\ j < k => new[j].call < new[k].call
    BY <1>5, <2>1 DEF ToolsOf
  <2>5. ASSUME NEW i \in 1..n, l[i].kind = "tool.started", l[i].attempt = a
        PROVE  \E k \in DOMAIN new : new[k].type = "tool" /\ new[k].call = l[i].call
    <3>1. i \in 1 .. n - 1
      BY <2>5, EventsTyped
    <3>2. PICK k \in DOMAIN items : items[k].type = "tool" /\ items[k].call = l[i].call
      BY <2>5, <3>1 DEF ToolsOf
    <3> QED
      BY <1>5, <2>2, <3>2
  <2> QED
    BY <2>3, <2>4, <2>5 DEF ToolsOf
\* A completion with a name finds its own card, or one that bears its name, unless
\* the name is a guess.
<1>6. ASSUME e.entity # 0, NEW k \in DOMAIN items, items[k].type = "tool", items[k].call = c
      PROVE  items[k].entity = e.entity \/ Excused(items[k], a, l, n)
  <2>1. PICK i \in 1 .. n - 1 : /\ l[i].kind = "tool.started" /\ l[i].call = items[k].call /\ i \in DOMAIN l
                                /\ items[k].entity = (IF l[i].entity = 0 THEN -i ELSE l[i].entity)
    BY <1>4, <1>6
  <2>2. l[i].entity = e.entity \/ e.astray
    BY <1>6, <2>1 DEF Calls
  <2>3. e.astray => Strayed(items[k], a, l, n)
    <3>1. n \in 1..n
      BY <1>1
    <3> QED
      BY <1>6, <3>1 DEF Strayed
  <2> QED
    BY <1>6, <2>1, <2>2, <2>3 DEF Excused
<1>7. ASSUME e.entity # 0, NEW k \in DOMAIN items, items[k].type = "tool", items[k].entity = e.entity,
             NEW j \in DOMAIN items, items[j].type = "tool", items[j].call = c, j # k
      PROVE  Excused(items[j], a, l, n)
  <2>1. PICK i \in 1 .. n - 1 : /\ l[i].kind = "tool.started" /\ l[i].call = items[k].call /\ l[i].attempt = a
                                /\ i < n /\ i \in Nat /\ l[i].entity \in Nat
                                /\ items[k].entity = (IF l[i].entity = 0 THEN -i ELSE l[i].entity)
    BY <1>4, <1>7
  <2>2. l[i].entity = e.entity
    BY <1>1, <1>7, <2>1
  <2>3. items[j].entity = e.entity \/ Excused(items[j], a, l, n)
    BY <1>6, <1>7
  <2>4. l[i].call # items[j].call
    BY <1>3, <1>7, <2>1
  <2>5. i \in 1..n
    BY <1>1
  <2> QED
    BY <2>1, <2>2, <2>3, <2>4, <2>5 DEF Namesake, Excused
\* A completion without a name is next to its start, so its card is the last and runs.
<1>8. ASSUME e.entity = 0, Started(l, n, c) # {}
      PROVE  \E p \in DOMAIN items :
               /\ items[p].type = "tool" /\ items[p].call = c /\ items[p].status = "running"
               /\ \A k \in DOMAIN items : items[k].type = "tool" => ~(p < k)
  <2>1. PICK i \in Started(l, n, c) : TRUE
    BY <1>8
  <2>2. l[i].kind = "tool.started" /\ l[i].call = c /\ i \in 1 .. n - 1 /\ i \in DOMAIN l /\ i \in Nat
    BY EventsTyped DEF Started
  <2>3. /\ l[i].attempt = a /\ l[i].entity = 0
        /\ \A h \in DOMAIN l : OfTool(l[h]) => ~(i < h /\ h < n)
    BY <1>8, <2>2 DEF Calls
  <2>4. PICK p \in DOMAIN items : items[p].type = "tool" /\ items[p].call = c
    BY <2>2, <2>3 DEF ToolsOf
  <2>5. items[p].status # "completed"
    <3>1. ASSUME items[p].status = "completed" PROVE FALSE
      <4>1. PICK m \in 1 .. n - 1 : l[m].kind = "tool.completed" /\ \A s \in Started(l, n - 1, items[p].call) : s < m
        BY <1>2, <2>4, <3>1 DEF ToolOK
      <4>2. i \in Started(l, n - 1, items[p].call)
        BY <2>2, <2>4 DEF Started
      <4>3. i < m /\ m < n /\ m \in DOMAIN l /\ OfTool(l[m])
        BY <4>1, <4>2, EventsTyped DEF OfTool
      <4> QED
        BY <2>3, <4>3
    <3> QED
      BY <3>1
  <2>6. items[p].status = "running"
    BY <1>2, <2>4, <2>5 DEF Tools
  <2>7. ASSUME NEW k \in DOMAIN items, items[k].type = "tool", p < k
        PROVE  FALSE
    <3>1. c < items[k].call
      BY <2>4, <2>7 DEF ToolsOf
    <3>2. PICK h \in 1 .. n - 1 : l[h].kind = "tool.started" /\ l[h].call = items[k].call /\ h \in DOMAIN l /\ h < n /\ h \in Nat
      BY <1>4, <2>7
    <3>3. l[h].call \in Nat /\ c < l[h].call
      BY <3>1, <3>2, EventsTyped
    <3>4. ~(h < i)
      <4>1. h < i => l[h].call < l[i].call
        BY <2>2, <3>2 DEF Calls
      <4> QED
        BY <1>1, <2>2, <3>3, <4>1
    <3>5. h # i
      BY <1>1, <2>2, <3>3
    <3>6. i < h /\ OfTool(l[h])
      BY <2>2, <3>2, <3>4, <3>5 DEF OfTool
    <3> QED
      BY <2>3, <3>2, <3>6
  <2> QED
    BY <2>4, <2>6, <2>7
<1>9. CASE Missed
  <2>1. \A j \in DOMAIN items : items[j].type = "tool" /\ items[j].call = c => Excused(items[j], a, l, n)
    <3>1. CASE e.entity = 0
      <4>1. Started(l, n, c) = {}
        BY <1>8, <1>9, <3>1
      <4>2. ASSUME NEW j \in DOMAIN items, items[j].type = "tool", items[j].call = c PROVE FALSE
        <5>1. PICK i \in 1 .. n - 1 : l[i].kind = "tool.started" /\ l[i].call = items[j].call
          BY <1>4, <4>2
        <5> QED
          BY <4>1, <4>2, <5>1, EventsTyped DEF Started
      <4> QED
        BY <4>2
    <3>2. CASE e.entity # 0
      BY <1>6, <1>9, <3>2
    <3> QED
      BY <3>1, <3>2
  <2>2. Right({})
    <3> HIDE DEF new
    <3> QED
      BY <1>9, <2>1
  <2> HIDE DEF Right
  <2> QED
    BY <1>5, <2>2
<1>10. ASSUME NEW k, Hit(k)
       PROVE  ToolsOf(new, a, l, n)
  <2>1. /\ DOMAIN new = DOMAIN items /\ new[k] = Done(items[k])
        /\ \A j \in DOMAIN items \ {k} : new[j] = items[j]
    BY <1>10 DEF Changed
  <2>2. CASE e.entity # 0
    <3>1. \A j \in DOMAIN items \ {k} : items[j].type = "tool" /\ items[j].call = c => Excused(items[j], a, l, n)
      BY <1>7, <1>10, <2>2
    <3>2. Right({k})
      <4> HIDE DEF new, Done
      <4> QED
        BY <1>10, <2>1, <2>2, <3>1
    <3> HIDE DEF Right
    <3> QED
      BY <1>5, <3>2
  <2>3. CASE e.entity = 0 /\ Started(l, n, c) # {}
    <3>1. PICK p \in DOMAIN items :
               /\ items[p].type = "tool" /\ items[p].call = c /\ items[p].status = "running"
               /\ \A h \in DOMAIN items : items[h].type = "tool" => ~(p < h)
      BY <1>8, <2>3
    <3>2. p = k
      <4>1. p <= k /\ ~(p < k) /\ p \in Nat /\ k \in Nat
        BY <1>10, <2>3, <3>1
      <4> QED
        BY <4>1
    <3>3. \A j \in DOMAIN items \ {k} : items[j].type = "tool" => items[j].call # c
      BY <1>3, <3>1, <3>2
    <3>4. Right({k})
      <4> HIDE DEF new, Done
      <4> QED
        BY <1>10, <2>1, <3>1, <3>2, <3>3
    <3> HIDE DEF Right
    <3> QED
      BY <1>5, <3>4
  <2>4. CASE e.entity = 0 /\ Started(l, n, c) = {}
    <3>1. Orphan(a, l, n)
      <4>1. n \in 1..n
        BY <1>1
      <4> QED
        BY <2>4, <4>1 DEF Orphan
    <3>2. ASSUME NEW j \in DOMAIN items, items[j].type = "tool", items[j].call = c PROVE FALSE
      <4>1. PICK i \in 1 .. n - 1 : l[i].kind = "tool.started" /\ l[i].call = items[j].call
        BY <1>4, <3>2
      <4> QED
        BY <2>4, <3>2, <4>1, EventsTyped DEF Started
    <3>3. Right({k})
      <4> HIDE DEF new, Done
      <4> QED
        BY <1>10, <2>1, <3>1, <3>2
    <3> HIDE DEF Right
    <3> QED
      BY <1>5, <3>3
  <2> QED
    BY <2>2, <2>3, <2>4
<1>11. Missed \/ \E k : Hit(k)
  BY <1>1, ToolDone
<1> HIDE DEF Missed, Hit
<1> QED
  BY <1>9, <1>10, <1>11

-----------------------------------------------------------------------------
\* The cards of every prefix of a log.

LEMMA CardsStep ==
  ASSUME NEW l, Numbered(l), NEW n \in DOMAIN l, TextCards(l, n - 1), Calls(l) => ToolCards(l, n - 1)
  PROVE  TextCards(l, n) /\ (Calls(l) => ToolCards(l, n))
<1> DEFINE groups == Reduce(SubSeq(l, 1, n - 1))
           new == Reduce(SubSeq(l, 1, n))
           e == l[n]
<1>1. e \in Events /\ n \in Nat \ {0} /\ n \in 1 .. Len(l) /\ l \in Seq(Events)
  BY EventsTyped DEF Numbered
<1>2. new = Grouped(groups, e)
  BY <1>1, ReduceSteps
<1>3. /\ Grouping(groups, l, n - 1)
      /\ \A g \in DOMAIN groups : TextOf(groups[g].items, groups[g].attempt, l, n - 1)
      /\ Calls(l) => \A g \in DOMAIN groups : ToolsOf(groups[g].items, groups[g].attempt, l, n - 1)
  BY DEF TextCards, ToolCards
<1> HIDE DEF groups, new
<1>4. groups \in Seq(Groups) /\ \A g, h \in DOMAIN groups : groups[g].attempt = groups[h].attempt => g = h
  BY <1>3 DEF Grouping
<1>5. GroupMoved(groups, e, new)
  <2>1. e \in Events
    BY <1>1
  <2> HIDE DEF e
  <2> QED
    BY <1>2, <1>4, <2>1, GroupStep
<1>6. PICK g \in DOMAIN new :
           /\ \E a \in Groups : /\ a.attempt = e.attempt /\ new[g] = AddEvent(a, e)
                                /\ IF g \in DOMAIN groups THEN a = groups[g] ELSE a.items = <<>>
           /\ \A h \in DOMAIN new : h # g => h \in DOMAIN groups /\ new[h] = groups[h] /\ new[h].attempt # e.attempt
  BY <1>5 DEF GroupMoved
<1>7. PICK a \in Groups : /\ a.attempt = e.attempt /\ new[g] = AddEvent(a, e)
                          /\ IF g \in DOMAIN groups THEN a = groups[g] ELSE a.items = <<>>
  BY <1>6
<1> DEFINE cards == new[g].items
<1>20. /\ new[g] \in Groups /\ new[g].attempt = e.attempt
       /\ e.kind # "text.delta" => TextKept(a.items, cards)
       /\ e.kind = "text.delta" => cards = AddText(a.items, e)
       /\ ~OfTool(e) => ToolsKept(a.items, cards)
       /\ e.kind = "tool.started" => cards = Append(a.items, Tool(e))
       /\ e.kind = "tool.completed" => cards = CompleteTool(a.items, e)
  <2>1. e \in Events
    BY <1>1
  <2>2. a.attempt = e.attempt /\ new[g] = AddEvent(a, e)
    BY <1>7
  <2> HIDE DEF e
  <2> QED
    BY <2>1, <2>2, AddEventTyped
<1>8. a.items \in Seq(Items) /\ cards \in Seq(Items)
  BY <1>20 DEF Groups
<1> HIDE DEF cards
\* Before its first event an attempt has no cards.
<1>9. g \notin DOMAIN groups => \A i \in 1 .. n - 1 : l[i].attempt # e.attempt
  BY <1>3, <1>5, <1>20 DEF Grouping, GroupMoved
<1>10. TextOf(a.items, e.attempt, l, n - 1)
  <2>1. CASE g \in DOMAIN groups
    BY <1>3, <1>7, <2>1
  <2>2. CASE g \notin DOMAIN groups
    <3>1. a.items = <<>> /\ DOMAIN <<>> = {}
      BY <1>7, <2>2
    <3> QED
      BY <1>9, <2>2, <3>1 DEF TextOf
  <2> QED
    BY <2>1, <2>2
<1>11. Calls(l) => ToolsOf(a.items, e.attempt, l, n - 1)
  <2>1. CASE g \in DOMAIN groups
    BY <1>3, <1>7, <2>1
  <2>2. CASE g \notin DOMAIN groups
    <3>1. a.items = <<>> /\ DOMAIN <<>> = {}
      BY <1>7, <2>2
    <3> QED
      BY <1>9, <2>2, <3>1 DEF ToolsOf
  <2> QED
    BY <2>1, <2>2
<1>12. Grouping(new, l, n)
  <2>1. ASSUME NEW i \in 1..n PROVE \E h \in DOMAIN new : new[h].attempt = l[i].attempt
    <3>1. CASE i = n
      BY <1>20, <3>1
    <3>2. CASE i \in 1 .. n - 1
      BY <1>3, <1>5, <3>2 DEF Grouping, GroupMoved
    <3> QED
      BY <3>1, <3>2, EventsTyped
  <2> QED
    BY <1>5, <2>1 DEF Grouping, GroupMoved
<1>13. TextOf(cards, e.attempt, l, n)
  <2>1. CASE e.kind = "text.delta"
    <3>1. TextOf(AddText(a.items, e), e.attempt, l, n)
      BY <1>8, <1>10, <2>1, TextGrows
    <3> QED
      BY <1>20, <2>1, <3>1
  <2>2. CASE e.kind # "text.delta"
    BY <1>1, <1>8, <1>10, <1>20, <2>2, TextUnmoved
  <2> QED
    BY <2>1, <2>2
<1>14. Calls(l) => ToolsOf(cards, e.attempt, l, n)
  <2> HAVE Calls(l)
  <2>1. CASE e.kind = "tool.started"
    <3>1. ToolsOf(Append(a.items, Tool(e)), e.attempt, l, n)
      BY <1>8, <1>11, <2>1, ToolStarts
    <3> QED
      BY <1>20, <2>1, <3>1
  <2>2. CASE e.kind = "tool.completed"
    <3>1. ToolsOf(CompleteTool(a.items, e), e.attempt, l, n)
      BY <1>8, <1>11, <2>2, ToolCompletes
    <3> QED
      BY <1>20, <2>2, <3>1
  <2>3. CASE ~OfTool(e)
    BY <1>11, <1>20, <2>3, ToolsUnmoved
  <2> QED
    BY <2>1, <2>2, <2>3 DEF OfTool
<1>15. ASSUME NEW h \in DOMAIN new, h # g
       PROVE  /\ TextOf(new[h].items, new[h].attempt, l, n)
              /\ Calls(l) => ToolsOf(new[h].items, new[h].attempt, l, n)
  <2>1. h \in DOMAIN groups /\ new[h] = groups[h] /\ new[h].attempt # e.attempt
    BY <1>6, <1>15
  <2>2. new[h].items \in Seq(Items)
    <3>1. new[h] \in Groups
      BY <1>5 DEF GroupMoved
    <3> QED
      BY <3>1 DEF Groups
  <2>3. TextOf(new[h].items, new[h].attempt, l, n - 1)
    BY <1>3, <2>1
  <2>4. Calls(l) => ToolsOf(new[h].items, new[h].attempt, l, n - 1)
    BY <1>3, <2>1
  <2>5. TextOf(new[h].items, new[h].attempt, l, n)
    BY <1>1, <2>1, <2>2, <2>3, SameKeeps, TextUnmoved
  <2>6. Calls(l) => ToolsOf(new[h].items, new[h].attempt, l, n)
    BY <2>1, <2>4, SameKeeps, ToolsUnmoved
  <2> QED
    BY <2>5, <2>6
<1>16. TextCards(l, n)
  BY <1>12, <1>13, <1>15, <1>20 DEF TextCards, new, cards
<1>17. Calls(l) => ToolCards(l, n)
  BY <1>14, <1>15, <1>20 DEF ToolCards, new, cards
<1> QED
  BY <1>16, <1>17

LEMMA CardsOfLog ==
  ASSUME NEW l, Numbered(l), NEW n \in 0 .. Len(l)
  PROVE  TextCards(l, n) /\ (Calls(l) => ToolCards(l, n))
<1> DEFINE OK(i) == TextCards(l, i) /\ (Calls(l) => ToolCards(l, i))
           Bad == {i \in 0 .. Len(l) : ~OK(i)}
<1>1. SUFFICES ASSUME n \in Bad PROVE FALSE
  OBVIOUS
<1>2. PICK x \in Bad : \A y \in Bad : x <= y
  <2> Bad \subseteq Nat /\ Bad # {}
    BY <1>1
  <2> HIDE DEF Bad
  <2> QED
    BY LeastNatural
<1>3. l \in Seq(Events) /\ Len(l) \in Nat /\ DOMAIN l = 1 .. Len(l) /\ x \in 0 .. Len(l)
  BY <1>2 DEF Numbered
<1>4. CASE x = 0
  <2>1. Reduce(SubSeq(l, 1, 0)) = <<>>
    BY <1>3, <1>4, ReduceSteps
  <2>2. <<>> \in Seq(Groups) /\ DOMAIN <<>> = {} /\ 1..0 = {}
    OBVIOUS
  <2>3. Grouping(<<>>, l, 0)
    BY <2>2 DEF Grouping
  <2>4. TextCards(l, 0)
    BY <2>1, <2>2, <2>3 DEF TextCards
  <2>5. ToolCards(l, 0)
    BY <2>1, <2>2 DEF ToolCards
  <2> QED
    BY <1>2, <1>4, <2>4, <2>5
<1>5. CASE x > 0
  <2>1. x - 1 \notin Bad /\ x - 1 \in 0 .. Len(l)
    BY <1>2, <1>3, <1>5
  <2>2. OK(x - 1) /\ x \in DOMAIN l
    BY <1>3, <1>5, <2>1
  <2>3. OK(x)
    BY <2>2, CardsStep
  <2> QED
    BY <1>2, <2>3
<1> QED
  BY <1>3, <1>4, <1>5

-----------------------------------------------------------------------------
\* What is recorded.

Extends(l, m) == Numbered(m) /\ \A i \in DOMAIN l : i \in DOMAIN m /\ m[i] = l[i]

\* What was added is of the attempt, and not about tools.
Quiet(l, m) == Extends(l, m) /\ \A i \in DOMAIN m \ DOMAIN l : ~OfTool(m[i]) /\ m[i].attempt = attempt

LEMMA EventTyped ==
  ASSUME NEW kind \in Kinds, NEW entity \in Nat, NEW call \in Nat, attempt \in Nat
  PROVE  Event(kind, entity, call) \in Events
BY DEF Event, Events, Statuses

LEMMA AstrayTyped ==
  ASSUME NEW call \in Nat, attempt \in Nat, Latest \in Nat \ {0}
  PROVE  /\ Astray(call) \in Events /\ Astray(call).kind = "tool.completed"
         /\ Astray(call).attempt = attempt /\ Astray(call).call = call
         /\ Astray(call).astray = TRUE /\ Astray(call).entity = Latest
<1>1. Event("tool.completed", Latest, call) \in Events
  BY EventTyped DEF Kinds
<1> QED
  BY <1>1 DEF Astray, Event, Events

LEMMA Recorded ==
  ASSUME Numbered(log), NEW events \in Seq(Events), Record(events),
         recording \in BOOLEAN, faults \in Nat
  PROVE  /\ Extends(log, log') /\ recording' \in BOOLEAN /\ faults' \in Nat
         /\ \A i \in DOMAIN log' \ DOMAIN log : \E k \in DOMAIN events :
              i = Len(log) + k /\ log'[i] = [events[k] EXCEPT !.id = i]
<1>1. recording' \in BOOLEAN /\ faults' \in Nat
  BY DEF Record
<1>2. CASE log' = log
  BY <1>1, <1>2 DEF Extends
<1>3. CASE log' = log \o [k \in DOMAIN events |-> [events[k] EXCEPT !.id = Len(log) + k]]
  <2> DEFINE new == [k \in DOMAIN events |-> [events[k] EXCEPT !.id = Len(log) + k]]
  <2>1. log \in Seq(Events) /\ Len(log) \in Nat /\ DOMAIN log = 1 .. Len(log) /\ \A i \in DOMAIN log : log[i].id = i
    BY DEF Numbered
  <2>2. DOMAIN events = 1 .. Len(events) /\ Len(events) \in Nat
    OBVIOUS
  <2>3. ASSUME NEW k \in DOMAIN events
        PROVE  [events[k] EXCEPT !.id = Len(log) + k] \in Events /\ [events[k] EXCEPT !.id = Len(log) + k].id = Len(log) + k
    <3>1. events[k] \in Events /\ Len(log) + k \in Nat
      BY <2>1, <2>2
    <3> QED
      BY <3>1 DEF Events
  <2>4. new \in Seq(Events) /\ Len(new) = Len(events)
    <3>1. new \in [1 .. Len(events) -> Events]
      BY <2>2, <2>3
    <3> QED
      BY <2>2, <3>1
  <2>5. \A k \in DOMAIN events : new[k] = [events[k] EXCEPT !.id = Len(log) + k] /\ new[k].id = Len(log) + k
    BY <2>3
  <2> HIDE DEF new
  <2>6. /\ log \o new \in Seq(Events) /\ Len(log \o new) = Len(log) + Len(new)
        /\ DOMAIN (log \o new) = 1 .. Len(log) + Len(new)
        /\ \A i \in 1 .. Len(log) + Len(new) : (log \o new)[i] = IF i <= Len(log) THEN log[i] ELSE new[i - Len(log)]
    <3>1. /\ log \o new \in Seq(Events) /\ Len(log \o new) = Len(log) + Len(new)
          /\ \A i \in 1 .. Len(log) + Len(new) : (log \o new)[i] = IF i <= Len(log) THEN log[i] ELSE new[i - Len(log)]
      BY <2>1, <2>4, ConcatProperties
    <3>2. DOMAIN (log \o new) = 1 .. Len(log \o new)
      BY <3>1, LenProperties
    <3> QED
      BY <3>1, <3>2
  <2>7. log' = log \o new
    BY <1>3 DEF new
  <2>8. ASSUME NEW i \in DOMAIN log', i \notin DOMAIN log
        PROVE  i - Len(log) \in DOMAIN events /\ log'[i] = new[i - Len(log)]
    BY <2>1, <2>2, <2>4, <2>6, <2>7, <2>8
  <2>9. \A i \in DOMAIN log : i \in DOMAIN log' /\ log'[i] = log[i]
    BY <2>1, <2>4, <2>6, <2>7, <2>2
  <2>10. \A i \in DOMAIN log' : log'[i].id = i
    <3> TAKE i \in DOMAIN log'
    <3>1. CASE i \in DOMAIN log
      BY <2>1, <2>9, <3>1
    <3>2. CASE i \notin DOMAIN log
      <4>1. i \in Nat
        BY <2>1, <2>2, <2>4, <2>6, <2>7
      <4>2. i - Len(log) \in DOMAIN events /\ log'[i] = new[i - Len(log)]
        BY <2>8, <3>2
      <4>3. log'[i].id = Len(log) + (i - Len(log))
        BY <2>5, <4>2
      <4> QED
        BY <2>1, <4>1, <4>3
    <3> QED
      BY <3>1, <3>2
  <2>11. ASSUME NEW i \in DOMAIN log', i \notin DOMAIN log
         PROVE  \E k \in DOMAIN events : i = Len(log) + k /\ log'[i] = [events[k] EXCEPT !.id = i]
    <3>1. i \in Nat
      BY <2>1, <2>2, <2>4, <2>6, <2>7
    <3>2. i - Len(log) \in DOMAIN events /\ log'[i] = new[i - Len(log)] /\ i = Len(log) + (i - Len(log))
      BY <2>1, <2>8, <2>11, <3>1
    <3> QED
      BY <2>5, <3>2
  <2>12. Extends(log, log')
    BY <2>6, <2>7, <2>9, <2>10 DEF Extends, Numbered
  <2> QED
    BY <1>1, <2>11, <2>12
<1> QED
  BY <1>2, <1>3 DEF Record

\* One event, or none.
LEMMA OneRecorded ==
  ASSUME Numbered(log), NEW e \in Events, Record(<<e>>), recording \in BOOLEAN, faults \in Nat
  PROVE  /\ Extends(log, log') /\ recording' \in BOOLEAN /\ faults' \in Nat
         /\ \A i \in DOMAIN log' \ DOMAIN log :
              /\ i = Len(log) + 1 /\ \A j \in DOMAIN log : j < i
              /\ log'[i].kind = e.kind /\ log'[i].attempt = e.attempt /\ log'[i].astray = e.astray
              /\ log'[i].entity = e.entity /\ log'[i].call = e.call
<1>1. <<e>> \in Seq(Events) /\ DOMAIN <<e>> = {1} /\ <<e>>[1] = e
  OBVIOUS
<1>2. /\ Extends(log, log') /\ recording' \in BOOLEAN /\ faults' \in Nat
      /\ \A i \in DOMAIN log' \ DOMAIN log : \E k \in DOMAIN <<e>> :
           i = Len(log) + k /\ log'[i] = [(<<e>>)[k] EXCEPT !.id = i]
  BY <1>1, Recorded
<1>3. Len(log) \in Nat /\ DOMAIN log = 1 .. Len(log)
  BY DEF Numbered
<1>4. \A i \in DOMAIN log' \ DOMAIN log : i = Len(log) + 1 /\ log'[i] = [e EXCEPT !.id = i]
  BY <1>1, <1>2
<1> QED
  BY <1>2, <1>3, <1>4 DEF Events

LEMMA QuietlyRecorded ==
  ASSUME Numbered(log), NEW events \in Seq(Events), Record(events), recording \in BOOLEAN, faults \in Nat,
         \A k \in DOMAIN events : ~OfTool(events[k]) /\ events[k].attempt = attempt
  PROVE  Quiet(log, log') /\ recording' \in BOOLEAN /\ faults' \in Nat
<1>1. /\ Extends(log, log') /\ recording' \in BOOLEAN /\ faults' \in Nat
      /\ \A i \in DOMAIN log' \ DOMAIN log : \E k \in DOMAIN events :
           i = Len(log) + k /\ log'[i] = [events[k] EXCEPT !.id = i]
  BY Recorded
<1>2. ASSUME NEW i \in DOMAIN log' \ DOMAIN log PROVE ~OfTool(log'[i]) /\ log'[i].attempt = attempt
  <2>1. PICK k \in DOMAIN events : log'[i] = [events[k] EXCEPT !.id = i]
    BY <1>1
  <2>2. events[k] \in Events
    OBVIOUS
  <2>3. log'[i].kind = events[k].kind /\ log'[i].attempt = events[k].attempt
    BY <2>1, <2>2 DEF Events
  <2> QED
    BY <2>3 DEF OfTool
<1> QED
  BY <1>1, <1>2 DEF Quiet

LEMMA Unrecorded ==
  ASSUME Numbered(log), UNCHANGED log
  PROVE  Quiet(log, log')
BY DEF Quiet, Extends

LEMMA ShownStays ==
  ASSUME Numbered(log), shown \in 0 .. Len(log), Extends(log, log'), UNCHANGED shown
  PROVE  shown' \in 0 .. Len(log')
<1>1. Len(log) \in Nat /\ Len(log') \in Nat /\ DOMAIN log = 1 .. Len(log) /\ DOMAIN log' = 1 .. Len(log')
  BY DEF Numbered, Extends
<1>2. Len(log) = 0 \/ Len(log) \in DOMAIN log'
  BY <1>1 DEF Extends
<1> QED
  BY <1>1, <1>2

-----------------------------------------------------------------------------
\* The log and the calls that are open, through a step that is not about tools.

LEMMA QuietCalls ==
  ASSUME Calls(log), Quiet(log, log')
  PROVE  Calls(log')
<1>1. \A i \in DOMAIN log' : OfTool(log'[i]) => i \in DOMAIN log /\ log'[i] = log[i]
  BY DEF Quiet, Extends
<1>2. \A i \in DOMAIN log' : log'[i].kind = "tool.started" \/ log'[i].kind = "tool.completed" =>
        i \in DOMAIN log /\ log'[i] = log[i]
  BY <1>1 DEF OfTool
<1> QED
  BY <1>1, <1>2 DEF Calls

LEMMA QuietStep ==
  ASSUME TranscriptInv, Quiet(log, log'), run' \in Runs, UNCHANGED <<phase, attempt, calls, retries>>,
         run'.adapter = run.adapter, run'.open = run.open, run'.tools = run.tools, Counter' >= Counter
  PROVE  Calls(log') /\ OpenCalls' /\ (retries' = MaxRetries => FreshNames')
<1>1. \A i \in DOMAIN log' : OfTool(log'[i]) => i \in DOMAIN log /\ log'[i] = log[i]
  BY DEF Quiet, Extends
<1>2. \A i \in DOMAIN log' : log'[i].kind = "tool.started" => i \in DOMAIN log /\ log'[i] = log[i]
  BY <1>1 DEF OfTool
<1>3. Counter \in Nat /\ Counter' \in Nat
  BY DEF TranscriptInv, Typed, Counter, Runs
<1>4. \A k \in DOMAIN run.open : run.open[k].name \in Nat
  <2>1. run.open \in Seq(Opens)
    BY DEF TranscriptInv, Typed, Runs
  <2>2. \A k \in DOMAIN run.open : run.open[k] \in Opens
    BY <2>1
  <2> QED
    BY <2>2 DEF Opens
<1>5. Calls(log')
  BY QuietCalls DEF TranscriptInv
<1>6. \A m \in Nat : Named(m)' = Named(m)
  BY DEF Named
<1>7. OpenCalls'
  <2>1. OpenCalls
    BY DEF TranscriptInv
  <2>2. /\ phase' # "running" => run'.open = <<>>
        /\ run'.open # <<>> => run'.tools > 0
    BY <2>1 DEF OpenCalls
  <2>3. \A j, k \in DOMAIN run'.open : run'.open[j].name = run'.open[k].name => j = k
    BY <2>1 DEF OpenCalls
  <2>4. \A k \in DOMAIN run'.open : run'.open[k].name <= Counter' /\ run'.open[k].call <= calls'
    <3> HIDE DEF Counter
    <3> QED
      BY <1>3, <1>4, <2>1 DEF OpenCalls
  <2>5. run'.adapter = "unnamed" => Len(run'.open) <= 1
    BY <2>1 DEF OpenCalls
  <2>6. \A i \in DOMAIN log' : OfTool(log'[i]) => log'[i].call <= calls'
    BY <1>1, <2>1 DEF OpenCalls
  <2>7. \A k \in DOMAIN run'.open : \A i \in DOMAIN log' :
          log'[i].kind = "tool.started" /\ log'[i].call = run'.open[k].call =>
            /\ log'[i].attempt = attempt' /\ log'[i].entity = Named(run.open[k].name)
            /\ run'.adapter = "unnamed" => \A h \in DOMAIN log' : OfTool(log'[h]) => h <= i
    BY <1>1, <1>2, <2>1 DEF OpenCalls
  <2> QED
    BY <1>4, <1>6, <2>2, <2>3, <2>4, <2>5, <2>6, <2>7 DEF OpenCalls, OfTool
<1>8. ASSUME FreshNames PROVE FreshNames'
  <2>1. NamesOnce(log')
    BY <1>1, <1>8 DEF FreshNames, NamesOnce, OwnName
  <2>2. \A i \in DOMAIN log' : log'[i].attempt <= attempt'
    <3>1. attempt \in Nat /\ attempt <= attempt
      BY DEF TranscriptInv, Typed
    <3> QED
      BY <1>8, <3>1 DEF FreshNames, Quiet, Extends
  <2>3. ASSUME NEW i \in DOMAIN log', phase' = "running", OwnName(log'[i]), log'[i].attempt = attempt'
        PROVE  /\ run'.tools > 0 /\ log'[i].entity <= Counter'
               /\ \A k \in DOMAIN run'.open : log'[i].entity = run'.open[k].name => log'[i].call = run'.open[k].call
    <3>1. i \in DOMAIN log /\ log'[i] = log[i]
      BY <1>1, <2>3 DEF OwnName
    <3>2. log[i].entity \in Nat
      BY <3>1, EventsTyped DEF TranscriptInv, Typed
    <3>3. /\ run.tools > 0 /\ log[i].entity <= Counter
          /\ \A k \in DOMAIN run.open : log[i].entity = run.open[k].name => log[i].call = run.open[k].call
      BY <1>8, <2>3, <3>1 DEF FreshNames
    <3>4. log[i].entity <= Counter'
      <4> HIDE DEF Counter
      <4> QED
        BY <1>3, <3>2, <3>3
    <3> QED
      BY <3>1, <3>3, <3>4
  <2> QED
    BY <2>1, <2>2, <2>3 DEF FreshNames, OwnName, OfTool
<1> QED
  BY <1>5, <1>7, <1>8 DEF TranscriptInv

\* A run that begins or ends has no open calls.
LEMMA NewRunStep ==
  ASSUME TranscriptInv, Quiet(log, log'), run'.open = <<>>, UNCHANGED calls
  PROVE  Calls(log') /\ OpenCalls'
<1>1. \A i \in DOMAIN log' : OfTool(log'[i]) => i \in DOMAIN log /\ log'[i] = log[i]
  BY DEF Quiet, Extends
<1>2. Calls(log')
  BY QuietCalls DEF TranscriptInv
<1>3. \A i \in DOMAIN log' : OfTool(log'[i]) => log'[i].call <= calls'
  BY <1>1 DEF TranscriptInv, OpenCalls
<1>4. DOMAIN run'.open = {} /\ Len(run'.open) = 0
  OBVIOUS
<1> QED
  BY <1>2, <1>3, <1>4 DEF OpenCalls, OfTool

LEMMA FreshAfter ==
  ASSUME TranscriptInv, FreshNames, Quiet(log, log'), attempt' \in Nat, attempt' >= attempt,
         \/ phase' # "running"
         \/ attempt' > attempt /\ UNCHANGED log
         \/ run.tools = 0 /\ phase = "running" /\ UNCHANGED <<log, attempt>>
  PROVE  FreshNames'
<1>1. \A i \in DOMAIN log' : OfTool(log'[i]) => i \in DOMAIN log /\ log'[i] = log[i]
  BY DEF Quiet, Extends
<1>2. NamesOnce(log')
  BY <1>1 DEF FreshNames, NamesOnce, OwnName
<1>3. attempt \in Nat /\ \A i \in DOMAIN log : log[i].attempt \in Nat
  BY EventsTyped DEF TranscriptInv, Typed
<1>4. \A i \in DOMAIN log' : log'[i].attempt <= attempt'
  <2> TAKE i \in DOMAIN log'
  <2>1. CASE i \in DOMAIN log
    BY <1>3, <2>1 DEF Quiet, Extends, FreshNames
  <2>2. CASE i \notin DOMAIN log
    BY <1>3, <2>2 DEF Quiet
  <2> QED
    BY <2>1, <2>2
<1>5. ASSUME NEW i \in DOMAIN log', phase' = "running", OwnName(log'[i]), log'[i].attempt = attempt'
      PROVE  FALSE
  <2>1. i \in DOMAIN log /\ log'[i] = log[i] /\ log[i].attempt \in Nat /\ log[i].attempt <= attempt
    BY <1>1, <1>3, <1>5 DEF FreshNames, OwnName
  <2>2. CASE attempt' > attempt
    BY <1>3, <1>5, <2>1, <2>2
  <2>3. CASE run.tools = 0 /\ phase = "running" /\ UNCHANGED attempt
    <3>1. run.tools > 0
      BY <1>5, <2>1, <2>3 DEF FreshNames
    <3> QED
      BY <2>3, <3>1
  <2> QED
    BY <1>5, <2>2, <2>3
<1> QED
  BY <1>2, <1>4, <1>5 DEF FreshNames, OwnName, OfTool

-----------------------------------------------------------------------------
\* A call starts.

LEMMA AppendedOpen ==
  ASSUME NEW s \in Seq(Opens), NEW x \in Opens, NEW t, t = Append(s, x), NEW p, p = Len(s) + 1
  PROVE  /\ p \in DOMAIN t /\ t[p] = x
         /\ \A k \in DOMAIN t : k = p \/ k \in DOMAIN s
         /\ \A k \in DOMAIN s : k \in DOMAIN t /\ t[k] = s[k] /\ k # p
         /\ t \in Seq(Opens) /\ Len(t) = p
OBVIOUS

LEMMA CallStarts ==
  ASSUME TranscriptInv, NEW name \in Nat \ {0}, name = Counter + 1,
         phase = "running", calls' = calls + 1, UNCHANGED <<phase, attempt, retries>>,
         run.adapter = "unnamed" => run.open = <<>>,
         Extends(log, log'),
         \A i \in DOMAIN log' \ DOMAIN log :
           /\ \A j \in DOMAIN log : j < i
           /\ i = Len(log) + 1
           /\ log'[i].kind = "tool.started" /\ log'[i].attempt = attempt
           /\ log'[i].entity = Named(name) /\ log'[i].call = calls + 1,
         run' = [run EXCEPT !.tools = @ + 1, !.open = Append(@, [name |-> name, call |-> calls + 1])]
  PROVE  run' \in Runs /\ Calls(log') /\ OpenCalls' /\ (retries' = MaxRetries => FreshNames')
<1> DEFINE new == [name |-> name, call |-> calls + 1]
           p == Len(run.open) + 1
           c == calls + 1
<1>1. /\ run \in Runs /\ run.open \in Seq(Opens) /\ run.tools \in Nat /\ run.messages \in Nat
      /\ calls \in Nat /\ attempt \in Nat /\ c \in Nat /\ new \in Opens
  <2>1. run \in Runs /\ calls \in Nat /\ attempt \in Nat
    BY DEF TranscriptInv, Typed
  <2>2. run.open \in Seq(Opens) /\ run.tools \in Nat /\ run.messages \in Nat
    BY <2>1 DEF Runs
  <2>3. c \in Nat /\ new \in Opens
    BY <2>1 DEF Opens
  <2> QED
    BY <2>1, <2>2, <2>3
<1>2. /\ run'.adapter = run.adapter /\ run'.tools = run.tools + 1 /\ run'.messages = run.messages
      /\ run'.open = Append(run.open, new)
  BY <1>1 DEF Runs
<1>3. /\ p \in DOMAIN run'.open /\ run'.open[p] = new
      /\ \A k \in DOMAIN run'.open : k = p \/ k \in DOMAIN run.open
      /\ \A k \in DOMAIN run.open : k \in DOMAIN run'.open /\ run'.open[k] = run.open[k] /\ k # p
      /\ run'.open \in Seq(Opens) /\ Len(run'.open) = p
  <2>1. run.open \in Seq(Opens) /\ new \in Opens /\ run'.open = Append(run.open, new) /\ p = Len(run.open) + 1
    BY <1>1, <1>2
  <2> HIDE DEF new, p
  <2> QED
    BY <2>1, AppendedOpen
<1>4. run' \in Runs
  <2>1. run' = [run EXCEPT !.tools = run.tools + 1, !.open = Append(run.open, new)]
    OBVIOUS
  <2>2. Append(run.open, new) \in Seq(Opens) /\ run.tools + 1 \in Nat /\ run \in Runs
    BY <1>1, <1>2, <1>3
  <2> HIDE DEF new
  <2> QED
    BY <2>1, <2>2 DEF Runs
<1>5. new.name = name /\ new.call = c
  OBVIOUS
<1>6. Counter' = Counter + 1 /\ Counter \in Nat
  <2> DEFINE m == IF run.adapter = "items" THEN run.messages ELSE 0
  <2>1. m \in Nat
    BY <1>1
  <2>2. Counter = run.tools + m /\ Counter' = (run.tools + 1) + m
    BY <1>2 DEF Counter
  <2> HIDE DEF m
  <2> QED
    BY <1>1, <2>1, <2>2
<1> HIDE DEF Counter, new, p
<1>7. \A m \in Nat : Named(m)' = Named(m)
  BY <1>2 DEF Named
<1>8. OpenCalls /\ Calls(log) /\ Numbered(log) /\ Numbered(log')
  BY DEF TranscriptInv, Typed, Extends
<1>9. \A k \in DOMAIN run.open : run.open[k].name \in Nat /\ run.open[k].call \in Nat
      /\ run.open[k].name <= Counter /\ run.open[k].call <= calls
  <2>1. \A k \in DOMAIN run.open : run.open[k] \in Opens
    BY <1>1
  <2> QED
    BY <1>8, <2>1 DEF OpenCalls, Opens
\* What the log holds now: what it held, and perhaps the start.
<1>10. ASSUME NEW i \in DOMAIN log'
       PROVE  /\ log'[i].call \in Nat /\ log'[i].entity \in Nat /\ i \in Nat
              /\ \/ i \in DOMAIN log /\ log'[i] = log[i]
                 \/ /\ i \notin DOMAIN log /\ i = Len(log) + 1 /\ \A j \in DOMAIN log : j < i
                    /\ log'[i].kind = "tool.started" /\ log'[i].attempt = attempt
                    /\ log'[i].entity = Named(name) /\ log'[i].call = c
  BY <1>8, EventsTyped DEF Extends
<1>11. \A i \in DOMAIN log : /\ i \in DOMAIN log' /\ log'[i] = log[i] /\ log[i].call \in Nat /\ log[i].entity \in Nat
                             /\ i \in Nat /\ (OfTool(log[i]) => log[i].call <= calls /\ log[i].call # c)
  <2> TAKE i \in DOMAIN log
  <2>1. log[i].call \in Nat /\ log[i].entity \in Nat /\ i \in Nat
    BY <1>8, EventsTyped
  <2>2. OfTool(log[i]) => log[i].call <= calls
    BY <1>8 DEF OpenCalls
  <2> QED
    BY <1>1, <2>1, <2>2 DEF Extends
<1>12. Calls(log')
  <2>1. ASSUME NEW i \in DOMAIN log', NEW j \in DOMAIN log',
               log'[i].kind = "tool.started", log'[j].kind = "tool.started", i < j
        PROVE  log'[i].call < log'[j].call
    <3>1. i \in DOMAIN log
      <4>1. CASE j \in DOMAIN log
        <5>1. i # Len(log) + 1
          BY <1>8, <1>10, <1>11, <2>1, <4>1 DEF Numbered
        <5> QED
          BY <1>10, <5>1
      <4>2. CASE j \notin DOMAIN log
        <5>1. j = Len(log) + 1
          BY <1>10, <4>2
        <5> QED
          BY <1>10, <2>1, <5>1
      <4> QED
        BY <4>1, <4>2
    <3>2. CASE j \in DOMAIN log
      BY <1>8, <1>11, <2>1, <3>1, <3>2 DEF Calls
    <3>3. CASE j \notin DOMAIN log
      <4>1. log'[j].call = c
        BY <1>10, <3>3
      <4>2. log'[i].call <= calls /\ log'[i].call \in Nat
        BY <1>11, <2>1, <3>1 DEF OfTool
      <4> QED
        BY <1>1, <4>1, <4>2
    <3> QED
      BY <3>2, <3>3
  <2>2. ASSUME NEW i \in DOMAIN log', NEW j \in DOMAIN log',
               log'[i].kind = "tool.started", log'[j].kind = "tool.completed", log'[i].call = log'[j].call
        PROVE  /\ i < j /\ log'[i].attempt = log'[j].attempt
               /\ log'[i].entity = log'[j].entity \/ (log'[j].astray /\ log'[j].entity # 0)
               /\ log'[j].entity = 0 => \A h \in DOMAIN log' : OfTool(log'[h]) => ~(i < h /\ h < j)
    <3>1. j \in DOMAIN log /\ log'[j] = log[j]
      BY <1>10, <2>2
    <3>2. log[j].call # c
      BY <1>11, <2>2, <3>1 DEF OfTool
    <3>3. i \in DOMAIN log /\ log'[i] = log[i]
      BY <1>10, <2>2, <3>1, <3>2
    <3>4. \A h \in DOMAIN log' : h < j => h \in DOMAIN log /\ log'[h] = log[h]
      <4> TAKE h \in DOMAIN log'
      <4>1. h \notin DOMAIN log => j < h
        BY <1>10, <3>1
      <4>2. h \in Nat /\ j \in Nat
        BY <1>10, <1>11, <3>1
      <4> QED
        BY <1>10, <4>1, <4>2
    <3> QED
      BY <1>8, <2>2, <3>1, <3>3, <3>4 DEF Calls
  <2> QED
    BY <2>1, <2>2 DEF Calls
<1>13. OpenCalls'
  <2>1. /\ phase' # "running" => run'.open = <<>>
        /\ run'.tools > 0
    BY <1>1, <1>2
  <2>2. ASSUME NEW j \in DOMAIN run'.open, NEW k \in DOMAIN run'.open, run'.open[j].name = run'.open[k].name
        PROVE  j = k
    <3>1. ASSUME NEW h \in DOMAIN run.open PROVE run'.open[h].name # name
      BY <1>3, <1>6, <1>9
    <3>2. CASE j = p \/ k = p
      BY <1>3, <1>5, <2>2, <3>1, <3>2
    <3>3. CASE j # p /\ k # p
      BY <1>3, <1>8, <2>2, <3>3 DEF OpenCalls
    <3> QED
      BY <3>2, <3>3
  <2>3. ASSUME NEW k \in DOMAIN run'.open PROVE run'.open[k].name <= Counter' /\ run'.open[k].call <= calls'
    <3>1. CASE k = p
      BY <1>1, <1>3, <1>5, <1>6, <3>1
    <3>2. CASE k \in DOMAIN run.open
      <4>1. run'.open[k] = run.open[k]
        BY <1>3, <3>2
      <4>2. run.open[k].name <= Counter'
        BY <1>6, <1>9, <3>2
      <4>3. run.open[k].call <= calls'
        BY <1>1, <1>9, <3>2
      <4> QED
        BY <4>1, <4>2, <4>3
    <3> QED
      BY <1>3, <3>1, <3>2
  <2>4. run'.adapter = "unnamed" => Len(run'.open) <= 1
    <3>1. run.open = <<>> => p = 1
      BY DEF p
    <3> QED
      BY <1>2, <1>3, <3>1
  <2>5. ASSUME NEW i \in DOMAIN log', OfTool(log'[i]) PROVE log'[i].call <= calls'
    <3>1. CASE i \in DOMAIN log
      BY <1>1, <1>11, <2>5, <3>1
    <3>2. CASE i \notin DOMAIN log
      BY <1>1, <1>10, <3>2
    <3> QED
      BY <3>1, <3>2
  <2>6. ASSUME NEW k \in DOMAIN run'.open, NEW i \in DOMAIN log',
               log'[i].kind = "tool.started", log'[i].call = run'.open[k].call
        PROVE  /\ log'[i].attempt = attempt' /\ log'[i].entity = Named(run'.open[k].name)
               /\ run'.adapter = "unnamed" => \A h \in DOMAIN log' : OfTool(log'[h]) => h <= i
    <3>1. CASE k = p
      <4>1. i \notin DOMAIN log
        BY <1>3, <1>5, <1>11, <2>6, <3>1 DEF OfTool
      <4>2. \A h \in DOMAIN log' : h <= i
        BY <1>10, <4>1
      <4> QED
        BY <1>3, <1>5, <1>10, <3>1, <4>1, <4>2
    <3>2. CASE k \in DOMAIN run.open /\ k # p
      <4>1. run'.open[k] = run.open[k]
        BY <1>3, <3>2
      <4>2. i \in DOMAIN log /\ log'[i] = log[i]
        <5>1. run.open[k].call # c
          BY <1>1, <1>9, <3>2
        <5> QED
          BY <1>10, <2>6, <4>1, <5>1
      <4>3. run.adapter # "unnamed"
        <5>1. run.open # <<>>
          BY <3>2
        <5> QED
          BY <5>1
      <4>4. log[i].attempt = attempt /\ log[i].entity = Named(run.open[k].name)
        BY <1>8, <2>6, <3>2, <4>1, <4>2 DEF OpenCalls
      <4> QED
        BY <1>2, <4>1, <4>2, <4>3, <4>4
    <3> QED
      BY <1>3, <3>1, <3>2
  <2> QED
    BY <1>2, <2>1, <2>2, <2>3, <2>4, <2>5, <2>6 DEF OpenCalls, OfTool, Named
<1>14. ASSUME FreshNames PROVE FreshNames'
  <2>1. Named(name) = 0 \/ Named(name) = name
    BY DEF Named
  \* The new name is larger than all that the attempt has used.
  <2>2. ASSUME NEW i \in DOMAIN log, OwnName(log[i]), log[i].attempt = attempt, log[i].entity = Named(name)
        PROVE  Named(name) = 0
    <3>1. log[i].entity <= Counter
      BY <1>14, <2>2 DEF FreshNames
    <3> QED
      BY <1>6, <1>11, <2>1, <2>2, <3>1
  <2>3. ASSUME NEW i \in DOMAIN log', NEW j \in DOMAIN log', OwnName(log'[i]), OwnName(log'[j]),
               log'[i].attempt = log'[j].attempt, log'[i].entity = log'[j].entity, log'[i].entity # 0
        PROVE  log'[i].call = log'[j].call
    <3>1. CASE i \in DOMAIN log /\ j \in DOMAIN log
      BY <1>11, <1>14, <2>3, <3>1 DEF FreshNames, NamesOnce
    <3>2. CASE i \notin DOMAIN log /\ j \in DOMAIN log
      BY <1>10, <1>11, <2>2, <2>3, <3>2
    <3>3. CASE i \in DOMAIN log /\ j \notin DOMAIN log
      BY <1>10, <1>11, <2>2, <2>3, <3>3
    <3>4. CASE i \notin DOMAIN log /\ j \notin DOMAIN log
      BY <1>10, <3>4
    <3> QED
      BY <3>1, <3>2, <3>3, <3>4
  <2>4. NamesOnce(log')
    BY <2>3 DEF NamesOnce
  <2>5. \A i \in DOMAIN log' : log'[i].attempt <= attempt'
    <3> TAKE i \in DOMAIN log'
    <3>1. CASE i \in DOMAIN log
      BY <1>11, <1>14, <3>1 DEF FreshNames
    <3>2. CASE i \notin DOMAIN log
      BY <1>1, <1>10, <3>2
    <3> QED
      BY <3>1, <3>2
  <2>6. ASSUME NEW i \in DOMAIN log', OwnName(log'[i]), log'[i].attempt = attempt'
        PROVE  /\ run'.tools > 0 /\ log'[i].entity <= Counter'
               /\ \A k \in DOMAIN run'.open : log'[i].entity = run'.open[k].name => log'[i].call = run'.open[k].call
    <3>1. run'.tools > 0
      BY <1>1, <1>2
    <3>2. CASE i \in DOMAIN log
      <4>1. /\ log'[i] = log[i] /\ log[i].entity \in Nat /\ log[i].entity <= Counter
            /\ \A k \in DOMAIN run.open : log[i].entity = run.open[k].name => log[i].call = run.open[k].call
        BY <1>11, <1>14, <2>6, <3>2 DEF FreshNames
      <4>2. log[i].entity # name
        BY <1>6, <4>1
      <4>3. log'[i].entity <= Counter'
        BY <1>6, <4>1
      <4> QED
        BY <1>3, <1>5, <3>1, <4>1, <4>2, <4>3
    <3>3. CASE i \notin DOMAIN log
      <4>1. log'[i].entity = Named(name) /\ log'[i].call = c
        BY <1>10, <3>3
      <4>2. log'[i].entity <= Counter'
        BY <1>6, <2>1, <4>1
      <4>3. ASSUME NEW k \in DOMAIN run'.open, log'[i].entity = run'.open[k].name
            PROVE  log'[i].call = run'.open[k].call
        <5>1. CASE k = p
          BY <1>3, <1>5, <4>1, <5>1
        <5>2. CASE k \in DOMAIN run.open
          <6>1. run'.open[k].name <= Counter /\ run'.open[k].name \in Nat \ {0}
            <7>1. run'.open[k] = run.open[k] /\ run.open[k] \in Opens
              BY <1>1, <1>3, <5>2
            <7> QED
              BY <1>9, <5>2, <7>1 DEF Opens
          <6> QED
            BY <1>6, <2>1, <4>1, <4>3, <6>1
        <5> QED
          BY <1>3, <5>1, <5>2
      <4> QED
        BY <3>1, <4>2, <4>3
    <3> QED
      BY <3>2, <3>3
  <2> QED
    BY <2>4, <2>5, <2>6 DEF FreshNames, OwnName, OfTool
<1> QED
  BY <1>4, <1>12, <1>13, <1>14 DEF TranscriptInv

-----------------------------------------------------------------------------
\* A call ends.

\* Where an item was that now stands at j, after the one at k has gone.
Before(j, k) == IF j < k THEN j ELSE j + 1

LEMMA RemovedOpen ==
  ASSUME NEW s \in Seq(Opens), NEW k \in DOMAIN s, NEW t, t = RemoveAt(s, k)
  PROVE  /\ t \in Seq(Opens) /\ Len(t) = Len(s) - 1
         /\ \A j \in DOMAIN t : Before(j, k) \in DOMAIN s /\ Before(j, k) # k /\ t[j] = s[Before(j, k)]
<1> DEFINE a == SubSeq(s, 1, k - 1)
           b == SubSeq(s, k + 1, Len(s))
<1>1. k \in 1 .. Len(s) /\ Len(s) \in Nat /\ \A i \in 1 .. Len(s) : s[i] \in Opens
  OBVIOUS
<1>2. a \in Seq(Opens) /\ Len(a) = k - 1 /\ \A i \in 1 .. k - 1 : a[i] = s[i]
  <2>1. \A i \in 1 .. k - 1 : s[i] \in Opens
    BY <1>1
  <2>2. /\ a \in Seq(Opens) /\ Len(a) = (IF 1 <= k - 1 THEN k - 1 - 1 + 1 ELSE 0)
        /\ \A i \in 1 .. k - 1 - 1 + 1 : a[i] = s[1 + i - 1]
    BY <1>1, <2>1, SubSeqProperties
  <2> HIDE DEF a
  <2> QED
    BY <1>1, <2>2
<1>3. b \in Seq(Opens) /\ Len(b) = Len(s) - k /\ \A i \in 1 .. Len(s) - k : b[i] = s[k + i]
  <2>1. \A i \in k + 1 .. Len(s) : s[i] \in Opens
    BY <1>1
  <2>2. /\ b \in Seq(Opens) /\ Len(b) = (IF k + 1 <= Len(s) THEN Len(s) - (k + 1) + 1 ELSE 0)
        /\ \A i \in 1 .. Len(s) - (k + 1) + 1 : b[i] = s[k + 1 + i - 1]
    BY <1>1, <2>1, SubSeqProperties
  <2> HIDE DEF b
  <2> QED
    BY <1>1, <2>2
<1>4. t = a \o b
  BY DEF RemoveAt
<1> HIDE DEF a, b
<1>5. /\ t \in Seq(Opens) /\ Len(t) = Len(a) + Len(b)
      /\ \A j \in 1 .. Len(a) + Len(b) : t[j] = IF j <= Len(a) THEN a[j] ELSE b[j - Len(a)]
  <2>1. /\ a \o b \in Seq(Opens) /\ Len(a \o b) = Len(a) + Len(b)
        /\ \A j \in 1 .. Len(a) + Len(b) : (a \o b)[j] = IF j <= Len(a) THEN a[j] ELSE b[j - Len(a)]
    BY <1>2, <1>3, ConcatProperties
  <2> QED
    BY <1>4, <2>1
<1>6. Len(t) = Len(s) - 1 /\ DOMAIN t = 1 .. Len(s) - 1 /\ DOMAIN s = 1 .. Len(s)
  BY <1>1, <1>2, <1>3, <1>5
<1>7. ASSUME NEW j \in DOMAIN t
      PROVE  Before(j, k) \in DOMAIN s /\ Before(j, k) # k /\ t[j] = s[Before(j, k)]
  <2>1. j \in 1 .. Len(s) - 1 /\ t[j] = IF j <= k - 1 THEN a[j] ELSE b[j - (k - 1)]
    BY <1>2, <1>3, <1>5, <1>6
  <2>2. CASE j < k
    <3>1. j \in 1 .. k - 1
      BY <1>1, <2>1, <2>2
    <3> QED
      BY <1>1, <1>2, <1>6, <2>1, <2>2, <3>1 DEF Before
  <2>3. CASE ~(j < k)
    <3>1. j - (k - 1) \in 1 .. Len(s) - k /\ k + (j - (k - 1)) = j + 1
      <4>1. j \in Int /\ k \in Int /\ Len(s) \in Int /\ k <= j /\ j <= Len(s) - 1
        BY <1>1, <2>1, <2>3
      <4> QED
        BY <4>1
    <3>2. t[j] = s[j + 1]
      <4>1. ~(j <= k - 1)
        BY <1>1, <2>1, <2>3
      <4>2. t[j] = b[j - (k - 1)]
        BY <2>1, <4>1
      <4>3. b[j - (k - 1)] = s[k + (j - (k - 1))]
        BY <1>3, <3>1
      <4> QED
        BY <3>1, <4>2, <4>3
    <3> QED
      BY <1>1, <1>6, <2>1, <2>3, <3>2 DEF Before
  <2> QED
    BY <2>2, <2>3
<1> QED
  BY <1>5, <1>6, <1>7

LEMMA CallCompletes ==
  ASSUME TranscriptInv, NEW k \in DOMAIN run.open, NEW e \in Events, e.call = run.open[k].call,
         IF e.astray THEN e.entity \in Nat \ {0} /\ run.adapter # "unnamed" ELSE e.entity = Named(run.open[k].name),
         phase = "running", UNCHANGED <<phase, attempt, calls, retries>>,
         Extends(log, log'),
         \A i \in DOMAIN log' \ DOMAIN log :
           /\ \A j \in DOMAIN log : j < i
           /\ i = Len(log) + 1
           /\ log'[i].kind = "tool.completed" /\ log'[i].attempt = attempt
           /\ log'[i].entity = e.entity /\ log'[i].call = e.call /\ log'[i].astray = e.astray,
         run' = [run EXCEPT !.open = RemoveAt(@, k)]
  PROVE  run' \in Runs /\ Calls(log') /\ OpenCalls' /\ (retries' = MaxRetries => FreshNames')
<1> DEFINE name == run.open[k].name
           c == run.open[k].call
<1>1. /\ run \in Runs /\ run.open \in Seq(Opens) /\ run.tools \in Nat /\ run.messages \in Nat
      /\ calls \in Nat /\ attempt \in Nat
  BY DEF TranscriptInv, Typed, Runs
<1>2. OpenCalls /\ Calls(log) /\ Numbered(log) /\ Numbered(log')
  BY DEF TranscriptInv, Typed, Extends
<1>3. \A j \in DOMAIN run.open : run.open[j].name \in Nat \ {0} /\ run.open[j].call \in Nat
      /\ run.open[j].name <= Counter /\ run.open[j].call <= calls
  <2>1. \A j \in DOMAIN run.open : run.open[j] \in Opens
    BY <1>1
  <2> QED
    BY <1>2, <2>1 DEF OpenCalls, Opens
<1>4. run'.adapter = run.adapter /\ run'.tools = run.tools /\ run'.messages = run.messages
      /\ run'.open = RemoveAt(run.open, k)
  BY <1>1 DEF Runs
<1>5. /\ run'.open \in Seq(Opens) /\ Len(run'.open) = Len(run.open) - 1
      /\ \A j \in DOMAIN run'.open : Before(j, k) \in DOMAIN run.open /\ Before(j, k) # k /\ run'.open[j] = run.open[Before(j, k)]
  <2> DEFINE s == run.open
             t == run'.open
  <2>1. s \in Seq(Opens) /\ k \in DOMAIN s /\ t = RemoveAt(s, k)
    BY <1>1, <1>4
  <2> HIDE DEF s, t
  <2>2. /\ t \in Seq(Opens) /\ Len(t) = Len(s) - 1
        /\ \A j \in DOMAIN t : Before(j, k) \in DOMAIN s /\ Before(j, k) # k /\ t[j] = s[Before(j, k)]
    BY <2>1, RemovedOpen
  <2> QED
    BY <2>2 DEF s, t
<1>6. run' \in Runs
  BY <1>1, <1>4, <1>5 DEF Runs
<1>7. Counter' = Counter /\ Counter \in Nat
  <2>1. (IF run.adapter = "items" THEN run.messages ELSE 0) \in Nat
    BY <1>1
  <2> QED
    BY <1>1, <1>4, <2>1 DEF Counter
<1>8. k \in DOMAIN run.open /\ k \in Nat /\ Len(run.open) \in Nat /\ Len(run.open) >= 1 /\ run.open # <<>>
  BY <1>1
<1>9. run.tools > 0
  BY <1>2, <1>8 DEF OpenCalls
<1>10. run.adapter = "unnamed" => DOMAIN run'.open = {}
  BY <1>1, <1>2, <1>5, <1>8 DEF OpenCalls
<1> HIDE DEF Counter
\* What the log holds now: what it held, and perhaps the completion.
<1>11. ASSUME NEW i \in DOMAIN log'
       PROVE  /\ log'[i].call \in Nat /\ log'[i].entity \in Nat /\ i \in Nat
              /\ \/ i \in DOMAIN log /\ log'[i] = log[i]
                 \/ /\ i \notin DOMAIN log /\ i = Len(log) + 1 /\ \A j \in DOMAIN log : j < i
                    /\ log'[i].kind = "tool.completed" /\ log'[i].attempt = attempt
                    /\ log'[i].entity = e.entity /\ log'[i].call = c /\ log'[i].astray = e.astray
  BY <1>2, EventsTyped DEF Extends
<1>12. \A i \in DOMAIN log : i \in DOMAIN log' /\ log'[i] = log[i] /\ log[i].call \in Nat /\ log[i].entity \in Nat /\ i \in Nat
  <2> TAKE i \in DOMAIN log
  <2>1. log[i].call \in Nat /\ log[i].entity \in Nat /\ i \in Nat
    BY <1>2, EventsTyped
  <2> QED
    BY <2>1 DEF Extends
<1>13. Named(name) = 0 \/ Named(name) = name
  BY DEF Named
<1>14. Calls(log')
  <2>1. \A i, j \in DOMAIN log' :
          log'[i].kind = "tool.started" /\ log'[j].kind = "tool.started" /\ i < j => log'[i].call < log'[j].call
    <3>1. \A i \in DOMAIN log' : log'[i].kind = "tool.started" => i \in DOMAIN log /\ log'[i] = log[i]
      BY <1>11
    <3> QED
      BY <1>2, <3>1 DEF Calls
  <2>2. ASSUME NEW i \in DOMAIN log', NEW j \in DOMAIN log',
               log'[i].kind = "tool.started", log'[j].kind = "tool.completed", log'[i].call = log'[j].call
        PROVE  /\ i < j /\ log'[i].attempt = log'[j].attempt
               /\ log'[i].entity = log'[j].entity \/ (log'[j].astray /\ log'[j].entity # 0)
               /\ log'[j].entity = 0 => \A h \in DOMAIN log' : OfTool(log'[h]) => ~(i < h /\ h < j)
    <3>1. i \in DOMAIN log /\ log'[i] = log[i] /\ i \in Nat
      BY <1>11, <2>2
    <3>2. CASE j \in DOMAIN log
      <4>1. \A h \in DOMAIN log' : h < j => h \in DOMAIN log /\ log'[h] = log[h]
        <5> TAKE h \in DOMAIN log'
        <5>1. h \notin DOMAIN log => j < h
          BY <1>11, <3>2
        <5>2. h \in Nat /\ j \in Nat
          BY <1>11, <1>12, <3>2
        <5> QED
          BY <1>11, <5>1, <5>2
      <4>2. log'[j] = log[j]
        BY <1>12, <3>2
      <4> QED
        BY <1>2, <2>2, <3>1, <3>2, <4>1, <4>2 DEF Calls
    <3>3. CASE j \notin DOMAIN log
      <4>1. /\ i < j /\ j = Len(log) + 1 /\ log'[j].attempt = attempt
            /\ log'[j].entity = e.entity /\ log'[j].call = c /\ log'[j].astray = e.astray
        BY <1>11, <3>1, <3>3
      <4>2. /\ log[i].attempt = attempt /\ log[i].entity = Named(name)
            /\ run.adapter = "unnamed" => \A h \in DOMAIN log : OfTool(log[h]) => h <= i
        BY <1>2, <2>2, <3>1, <4>1 DEF OpenCalls
      <4>3. log'[j].entity = 0 => run.adapter = "unnamed"
        BY <1>3, <4>1 DEF Named
      <4>5. log'[i].entity = log'[j].entity \/ (log'[j].astray /\ log'[j].entity # 0)
        BY <3>1, <4>1, <4>2
      <4>4. ASSUME log'[j].entity = 0, NEW h \in DOMAIN log', OfTool(log'[h])
            PROVE  ~(i < h /\ h < j)
        <5>1. CASE h \in DOMAIN log
          <6>1. h <= i /\ h \in Nat
            BY <1>12, <4>2, <4>3, <4>4, <5>1
          <6> QED
            BY <3>1, <6>1
        <5>2. CASE h \notin DOMAIN log
          <6>1. h = j /\ h \in Nat
            BY <1>11, <4>1, <5>2
          <6> QED
            BY <6>1
        <5> QED
          BY <5>1, <5>2
      <4> QED
        BY <3>1, <4>1, <4>2, <4>4, <4>5
    <3> QED
      BY <3>2, <3>3
  <2> QED
    BY <2>1, <2>2 DEF Calls
<1>15. OpenCalls'
  <2>1. phase' # "running" => run'.open = <<>>
    OBVIOUS
  <2>2. run'.open # <<>> => run'.tools > 0
    BY <1>4, <1>9
  <2>3. ASSUME NEW i \in DOMAIN run'.open, NEW j \in DOMAIN run'.open, run'.open[i].name = run'.open[j].name
        PROVE  i = j
    <3>1. Before(i, k) = Before(j, k)
      BY <1>2, <1>5, <2>3 DEF OpenCalls
    <3>2. i \in Nat /\ j \in Nat
      BY <1>5
    <3> QED
      BY <1>8, <3>1, <3>2 DEF Before
  <2>4. \A j \in DOMAIN run'.open : run'.open[j].name <= Counter' /\ run'.open[j].call <= calls'
    BY <1>3, <1>5, <1>7
  <2>5. run'.adapter = "unnamed" => Len(run'.open) <= 1
    BY <1>2, <1>4, <1>5, <1>8 DEF OpenCalls
  <2>6. \A i \in DOMAIN log' : OfTool(log'[i]) => log'[i].call <= calls'
    BY <1>2, <1>3, <1>11 DEF OpenCalls
  <2>7. ASSUME NEW j \in DOMAIN run'.open, NEW i \in DOMAIN log',
               log'[i].kind = "tool.started", log'[i].call = run'.open[j].call
        PROVE  /\ log'[i].attempt = attempt' /\ log'[i].entity = Named(run'.open[j].name)
               /\ run'.adapter # "unnamed"
    <3>1. i \in DOMAIN log /\ log'[i] = log[i]
      BY <1>11, <2>7
    <3>2. Before(j, k) \in DOMAIN run.open /\ run'.open[j] = run.open[Before(j, k)]
      BY <1>5
    <3>3. log[i].attempt = attempt /\ log[i].entity = Named(run.open[Before(j, k)].name)
      BY <1>2, <2>7, <3>1, <3>2 DEF OpenCalls
    <3> QED
      BY <1>4, <1>10, <3>1, <3>2, <3>3
  <2> QED
    BY <1>4, <2>1, <2>2, <2>3, <2>4, <2>5, <2>6, <2>7 DEF OpenCalls, OfTool, Named
<1>16. ASSUME FreshNames PROVE FreshNames'
  <2>6. \A i \in DOMAIN log' \ DOMAIN log : OwnName(log'[i]) => log'[i].entity = Named(name)
    BY <1>11 DEF OwnName
  \* The name of an open call is used by no other call of the attempt.
  <2>1. ASSUME NEW i \in DOMAIN log, OwnName(log[i]), log[i].attempt = attempt, log[i].entity = Named(name),
               Named(name) # 0
        PROVE  log[i].call = c
    BY <1>13, <1>16, <2>1 DEF FreshNames
  <2>2. ASSUME NEW i \in DOMAIN log', NEW j \in DOMAIN log', OwnName(log'[i]), OwnName(log'[j]),
               log'[i].attempt = log'[j].attempt, log'[i].entity = log'[j].entity, log'[i].entity # 0
        PROVE  log'[i].call = log'[j].call
    <3>1. CASE i \in DOMAIN log /\ j \in DOMAIN log
      BY <1>12, <1>16, <2>2, <3>1 DEF FreshNames, NamesOnce
    <3>2. CASE i \notin DOMAIN log /\ j \in DOMAIN log
      BY <1>11, <1>12, <2>1, <2>2, <2>6, <3>2
    <3>3. CASE i \in DOMAIN log /\ j \notin DOMAIN log
      BY <1>11, <1>12, <2>1, <2>2, <2>6, <3>3
    <3>4. CASE i \notin DOMAIN log /\ j \notin DOMAIN log
      BY <1>11, <3>4
    <3> QED
      BY <3>1, <3>2, <3>3, <3>4
  <2>3. NamesOnce(log')
    BY <2>2 DEF NamesOnce
  <2>4. \A i \in DOMAIN log' : log'[i].attempt <= attempt'
    <3> TAKE i \in DOMAIN log'
    <3>1. CASE i \in DOMAIN log
      BY <1>12, <1>16, <3>1 DEF FreshNames
    <3>2. CASE i \notin DOMAIN log
      BY <1>1, <1>11, <3>2
    <3> QED
      BY <3>1, <3>2
  <2>5. ASSUME NEW i \in DOMAIN log', OwnName(log'[i]), log'[i].attempt = attempt'
        PROVE  /\ run'.tools > 0 /\ log'[i].entity <= Counter'
               /\ \A j \in DOMAIN run'.open : log'[i].entity = run'.open[j].name => log'[i].call = run'.open[j].call
    <3>1. CASE i \in DOMAIN log
      <4>1. log'[i] = log[i] /\ OwnName(log[i]) /\ log[i].attempt = attempt
        BY <1>12, <2>5, <3>1
      <4>2. /\ log[i].entity <= Counter
            /\ \A j \in DOMAIN run.open : log[i].entity = run.open[j].name => log[i].call = run.open[j].call
        BY <1>16, <3>1, <4>1 DEF FreshNames
      <4>3. log'[i].entity <= Counter' /\ run'.tools > 0
        BY <1>4, <1>7, <1>9, <4>1, <4>2
      <4>4. \A j \in DOMAIN run'.open : log[i].entity = run'.open[j].name => log[i].call = run'.open[j].call
        BY <1>5, <4>2
      <4> QED
        BY <4>1, <4>3, <4>4
    <3>2. CASE i \notin DOMAIN log
      <4>1. log'[i].entity = Named(name)
        BY <2>5, <2>6, <3>2
      <4>2. log'[i].entity <= Counter'
        BY <1>3, <1>7, <1>13, <4>1
      <4>3. ASSUME NEW j \in DOMAIN run'.open PROVE run'.open[j].name # Named(name)
        <5>1. Before(j, k) \in DOMAIN run.open /\ Before(j, k) # k /\ run'.open[j] = run.open[Before(j, k)]
          BY <1>5
        <5>2. run.open[Before(j, k)].name # name /\ run.open[Before(j, k)].name # 0
          BY <1>2, <1>3, <5>1 DEF OpenCalls
        <5> QED
          BY <1>13, <5>1, <5>2
      <4> QED
        BY <1>4, <1>9, <4>1, <4>2, <4>3
    <3> QED
      BY <3>1, <3>2
  <2> QED
    BY <2>3, <2>4, <2>5 DEF FreshNames, OwnName, OfTool
<1> QED
  BY <1>6, <1>14, <1>15, <1>16 DEF TranscriptInv

\* The end of a call whose start was never told.
LEMMA CallUnannounced ==
  ASSUME TranscriptInv, run.adapter # "unnamed", calls' = calls + 1, UNCHANGED <<run, phase, attempt, retries>>,
         Extends(log, log'),
         \A i \in DOMAIN log' \ DOMAIN log :
           /\ \A j \in DOMAIN log : j < i
           /\ i = Len(log) + 1
           /\ log'[i].kind = "tool.completed" /\ log'[i].attempt = attempt
           /\ log'[i].call = calls + 1 /\ log'[i].astray
  PROVE  Calls(log') /\ OpenCalls' /\ (retries' = MaxRetries => FreshNames')
<1>1. calls \in Nat /\ attempt \in Nat /\ run.open \in Seq(Opens)
  BY DEF TranscriptInv, Typed, Runs
<1>2. OpenCalls /\ Calls(log) /\ Numbered(log) /\ Numbered(log')
  BY DEF TranscriptInv, Typed, Extends
<1>3. \A i \in DOMAIN log : /\ i \in DOMAIN log' /\ log'[i] = log[i] /\ i \in Nat /\ log[i].call \in Nat
                            /\ OfTool(log[i]) => log[i].call <= calls
  BY <1>2, EventsTyped DEF Extends, OpenCalls
<1>4. ASSUME NEW i \in DOMAIN log'
      PROVE  /\ i \in Nat
             /\ \/ i \in DOMAIN log /\ log'[i] = log[i]
                \/ /\ i \notin DOMAIN log /\ \A j \in DOMAIN log : j < i
                   /\ log'[i].kind = "tool.completed" /\ log'[i].attempt = attempt
                   /\ log'[i].call = calls + 1 /\ log'[i].astray
  BY <1>2, EventsTyped DEF Extends
<1>5. Calls(log')
  <2>1. \A i \in DOMAIN log' : log'[i].kind = "tool.started" => i \in DOMAIN log /\ log'[i] = log[i]
    BY <1>4
  <2>2. \A i, j \in DOMAIN log' :
          log'[i].kind = "tool.started" /\ log'[j].kind = "tool.started" /\ i < j => log'[i].call < log'[j].call
    BY <1>2, <2>1 DEF Calls
  <2>3. ASSUME NEW i \in DOMAIN log', NEW j \in DOMAIN log',
               log'[i].kind = "tool.started", log'[j].kind = "tool.completed", log'[i].call = log'[j].call
        PROVE  /\ i < j /\ log'[i].attempt = log'[j].attempt
               /\ log'[i].entity = log'[j].entity \/ (log'[j].astray /\ log'[j].entity # 0)
               /\ log'[j].entity = 0 => \A h \in DOMAIN log' : OfTool(log'[h]) => ~(i < h /\ h < j)
    <3>1. i \in DOMAIN log /\ log'[i] = log[i] /\ log[i].call \in Nat /\ log[i].call <= calls
      BY <1>3, <2>1, <2>3 DEF OfTool
    <3>2. j \in DOMAIN log /\ log'[j] = log[j]
      BY <1>1, <1>4, <2>3, <3>1
    <3>3. \A h \in DOMAIN log' : h < j => h \in DOMAIN log /\ log'[h] = log[h]
      <4> TAKE h \in DOMAIN log'
      <4>1. h \notin DOMAIN log => j < h
        BY <1>4, <3>2
      <4>2. h \in Nat /\ j \in Nat
        BY <1>4
      <4> QED
        BY <1>4, <4>1, <4>2
    <3> QED
      BY <1>2, <2>3, <3>1, <3>2, <3>3 DEF Calls
  <2> QED
    BY <2>2, <2>3 DEF Calls
<1>6. OpenCalls'
  <2>1. \A i \in DOMAIN log' : OfTool(log'[i]) => log'[i].call <= calls'
    BY <1>1, <1>3, <1>4
  <2>2. ASSUME NEW k \in DOMAIN run.open, NEW i \in DOMAIN log',
               log'[i].kind = "tool.started", log'[i].call = run.open[k].call
        PROVE  log'[i].attempt = attempt /\ log'[i].entity = Named(run.open[k].name)
    <3>1. i \in DOMAIN log /\ log'[i] = log[i]
      BY <1>4, <2>2
    <3> QED
      BY <1>2, <2>2, <3>1 DEF OpenCalls
  <2>3. \A k \in DOMAIN run.open : run.open[k].name <= Counter' /\ run.open[k].call <= calls'
    <3>1. Counter' = Counter /\ \A k \in DOMAIN run.open : run.open[k].call \in Nat
      <4>1. \A k \in DOMAIN run.open : run.open[k] \in Opens
        BY <1>1
      <4> QED
        BY <4>1 DEF Counter, Opens
    <3>2. \A k \in DOMAIN run.open : run.open[k].name <= Counter /\ run.open[k].call <= calls
      BY <1>2 DEF OpenCalls
    <3> QED
      BY <1>1, <3>1, <3>2
  <2> QED
    BY <1>2, <2>1, <2>2, <2>3 DEF OpenCalls, OfTool, Named
<1>7. ASSUME FreshNames PROVE FreshNames'
  <2>1. \A i \in DOMAIN log' : OwnName(log'[i]) => i \in DOMAIN log /\ log'[i] = log[i]
    BY <1>4 DEF OwnName
  <2>2. NamesOnce(log')
    BY <1>7, <2>1 DEF FreshNames, NamesOnce
  <2>3. \A i \in DOMAIN log' : log'[i].attempt <= attempt'
    BY <1>1, <1>4, <1>7 DEF FreshNames
  <2>4. Counter' = Counter
    BY DEF Counter
  <2> QED
    BY <1>7, <2>1, <2>2, <2>3, <2>4 DEF FreshNames, OwnName, OfTool
<1> QED
  BY <1>5, <1>6, <1>7 DEF TranscriptInv

-----------------------------------------------------------------------------
\* The invariant of the run.

LEMMA NewRunTyped ==
  ASSUME NEW adapter \in Adapters, NEW n \in Nat
  PROVE  NewRun(adapter, n) \in Runs /\ NewRun(adapter, n).open = <<>>
<1>1. <<>> \in Seq(Opens)
  OBVIOUS
<1> QED
  BY <1>1 DEF NewRun, Runs

LEMMA NamesTyped ==
  ASSUME Typed
  PROVE  /\ run.tools \in Nat /\ run.messages \in Nat /\ run.adapter \in Adapters /\ run.n \in Nat
         /\ run.announced \in SUBSET Nat /\ run.open \in Seq(Opens)
         /\ Counter \in Nat /\ Latest \in Nat \ {0} /\ \A m \in Nat : Named(m) \in Nat
<1>1. /\ run.tools \in Nat /\ run.messages \in Nat /\ run.adapter \in Adapters /\ run.n \in Nat
      /\ run.announced \in SUBSET Nat /\ run.open \in Seq(Opens)
  BY DEF Typed, Runs
<1>2. (IF run.adapter = "items" THEN run.messages ELSE 0) \in Nat
  BY <1>1
<1>3. Counter \in Nat
  BY <1>1, <1>2 DEF Counter
<1>4. Latest \in Nat \ {0}
  BY <1>3 DEF Latest
<1> QED
  BY <1>1, <1>3, <1>4 DEF Named

LEMMA InitInv ==
  ASSUME Init
  PROVE  TranscriptInv
<1>1. Numbered(<<>>) /\ Len(<<>>) = 0 /\ DOMAIN <<>> = {}
  BY DEF Numbered
<1>2. run \in Runs /\ run.open = <<>>
  <2>1. "deltas" \in Adapters /\ 1 \in Nat
    BY DEF Adapters
  <2> QED
    BY <2>1, NewRunTyped DEF Init
<1>3. MaxFaults \in Nat /\ MaxGuesses \in Nat /\ MaxRetries \in Nat
  BY TranscriptConstants
<1>4. Typed
  BY <1>1, <1>2, <1>3 DEF Init, Typed
<1>5. Calls(log)
  BY <1>1 DEF Init, Calls
<1>6. OpenCalls
  BY <1>1, <1>2 DEF Init, OpenCalls
<1>7. FreshNames
  BY <1>1 DEF Init, FreshNames, NamesOnce
<1> QED
  BY <1>4, <1>5, <1>6, <1>7 DEF TranscriptInv

\* What a run emits that is not about tools.
LEMMA EmitsQuietly ==
  ASSUME TranscriptInv, NEW events \in Seq(Events), Emits(events),
         \A k \in DOMAIN events : ~OfTool(events[k]) /\ events[k].attempt = attempt,
         run' \in Runs, run'.adapter = run.adapter, run'.open = run.open, run'.tools = run.tools,
         Counter' >= Counter, UNCHANGED guesses
  PROVE  TranscriptInv'
<1>1. Typed
  BY DEF TranscriptInv
<1>2. Quiet(log, log') /\ recording' \in BOOLEAN /\ faults' \in Nat
  BY <1>1, QuietlyRecorded DEF Emits, Typed
<1>3. shown' \in 0 .. Len(log') /\ Numbered(log')
  BY <1>1, <1>2, ShownStays DEF Emits, Typed, Quiet, Extends
<1>4. UNCHANGED <<phase, attempt, calls, retries>>
  BY DEF Emits
<1>5. Typed'
  BY <1>1, <1>2, <1>3, <1>4 DEF Typed
<1>6. Calls(log') /\ OpenCalls' /\ (retries' = MaxRetries => FreshNames')
  BY <1>2, <1>4, QuietStep
<1> QED
  BY <1>5, <1>6 DEF TranscriptInv

LEMMA OneQuiet ==
  ASSUME NEW kind \in Kinds \ {"tool.started", "tool.completed"}, NEW entity \in Nat, attempt \in Nat
  PROVE  /\ Event(kind, entity, 0) \in Events
         /\ ~OfTool(Event(kind, entity, 0)) /\ Event(kind, entity, 0).attempt = attempt
<1>1. Event(kind, entity, 0) \in Events
  BY EventTyped
<1> QED
  BY <1>1 DEF Event, OfTool

LEMMA DeltaStep ==
  ASSUME TranscriptInv, TextDelta \/ SummaryDelta
  PROVE  TranscriptInv'
<1>1. PICK kind \in {"text.delta", "summary.delta"}, entity \in Nat :
        Emits(<<Event(kind, entity, 0)>>) /\ UNCHANGED <<run, guesses>>
  <2>1. \A m \in 1..MaxMessages : Named(m) \in Nat
    BY NamesTyped DEF TranscriptInv
  <2> QED
    BY <2>1 DEF TextDelta, SummaryDelta
<1> DEFINE e == Event(kind, entity, 0)
<1>2. e \in Events /\ ~OfTool(e) /\ e.attempt = attempt
  BY OneQuiet DEF TranscriptInv, Typed, Kinds
<1>3. Counter' = Counter /\ Counter \in Nat
  BY <1>1, NamesTyped DEF TranscriptInv, Counter
<1>4. run' \in Runs /\ run'.adapter = run.adapter /\ run'.open = run.open /\ run'.tools = run.tools
  BY <1>1 DEF TranscriptInv, Typed
<1>5. Emits(<<e>>)
  BY <1>1
<1> HIDE DEF e
<1>6. <<e>> \in Seq(Events) /\ \A k \in DOMAIN <<e>> : ~OfTool((<<e>>)[k]) /\ (<<e>>)[k].attempt = attempt
  BY <1>2
<1>7. Counter' >= Counter /\ UNCHANGED guesses
  BY <1>1, <1>3
<1> QED
  BY <1>4, <1>5, <1>6, <1>7, EmitsQuietly

LEMMA MessageStartedStep ==
  ASSUME TranscriptInv, MessageStarted
  PROVE  TranscriptInv'
<1> DEFINE m == Counter + 1
           e == Event("message.started", m, 0)
<1>1. /\ run.tools \in Nat /\ run.messages \in Nat /\ run.announced \in SUBSET Nat
      /\ Counter \in Nat /\ run \in Runs /\ attempt \in Nat /\ m \in Nat /\ run.adapter = "items"
  <2>1. Typed /\ run.adapter = "items"
    BY DEF TranscriptInv, MessageStarted
  <2>2. run \in Runs /\ attempt \in Nat
    BY <2>1 DEF Typed
  <2>3. run.tools \in Nat /\ run.messages \in Nat /\ run.announced \in SUBSET Nat
    BY <2>2 DEF Runs
  <2>4. Counter \in Nat
    BY <2>1, NamesTyped
  <2> QED
    BY <2>1, <2>2, <2>3, <2>4
<1>2. /\ Emits(<<e>>) /\ UNCHANGED guesses
      /\ run' = [run EXCEPT !.messages = run.messages + 1, !.announced = run.announced \union {m}]
  BY DEF MessageStarted
<1>3. e \in Events /\ ~OfTool(e) /\ e.attempt = attempt
  BY <1>1, OneQuiet DEF Kinds
<1>4. /\ run' \in Runs /\ run'.adapter = run.adapter /\ run'.open = run.open /\ run'.tools = run.tools
      /\ run'.messages = run.messages + 1
  <2>1. run.messages + 1 \in Nat /\ run.announced \union {m} \in SUBSET Nat /\ run \in Runs
    BY <1>1
  <2>2. run' = [run EXCEPT !.messages = run.messages + 1, !.announced = run.announced \union {m}]
    BY <1>2
  <2> HIDE DEF m
  <2>3. run' \in Runs
    BY <2>1, <2>2 DEF Runs
  <2> QED
    BY <2>1, <2>2 DEF Runs
<1>5. Counter' >= Counter
  BY <1>1, <1>4 DEF Counter
<1> HIDE DEF e
<1>6. <<e>> \in Seq(Events) /\ \A k \in DOMAIN <<e>> : ~OfTool((<<e>>)[k]) /\ (<<e>>)[k].attempt = attempt
  BY <1>3
<1> QED
  BY <1>2, <1>4, <1>5, <1>6, EmitsQuietly

LEMMA MessageCompletedStep ==
  ASSUME TranscriptInv, MessageCompleted
  PROVE  TranscriptInv'
<1>1. /\ run.announced \in SUBSET Nat /\ Latest \in Nat /\ Counter \in Nat /\ run \in Runs /\ attempt \in Nat
  BY NamesTyped DEF TranscriptInv, Typed
<1>2. PICK m \in Nat : LET done == Event("message.completed", m, 0)
                      IN  Emits(<<done>>) \/ Emits(<<Event("text.delta", m, 0), done>>)
  BY <1>1 DEF MessageCompleted
<1> DEFINE d == Event("text.delta", m, 0)
           e == Event("message.completed", m, 0)
<1>3. Emits(<<e>>) \/ Emits(<<d, e>>)
  BY <1>2
<1>4. /\ d \in Events /\ ~OfTool(d) /\ d.attempt = attempt
      /\ e \in Events /\ ~OfTool(e) /\ e.attempt = attempt
  BY <1>1, OneQuiet DEF Kinds
<1>5. run' = run /\ UNCHANGED guesses
  BY DEF MessageCompleted
<1>6. Counter' >= Counter
  BY <1>1, <1>5 DEF Counter
<1> HIDE DEF d, e
<1>7. CASE Emits(<<e>>)
  <2>1. <<e>> \in Seq(Events) /\ \A k \in DOMAIN <<e>> : ~OfTool((<<e>>)[k]) /\ (<<e>>)[k].attempt = attempt
    BY <1>4
  <2> QED
    BY <1>1, <1>5, <1>6, <1>7, <2>1, EmitsQuietly
<1>8. CASE Emits(<<d, e>>)
  <2>1. <<d, e>> \in Seq(Events) /\ \A k \in DOMAIN <<d, e>> : ~OfTool((<<d, e>>)[k]) /\ (<<d, e>>)[k].attempt = attempt
    BY <1>4
  <2> QED
    BY <1>1, <1>5, <1>6, <1>8, <2>1, EmitsQuietly
<1> QED
  BY <1>3, <1>7, <1>8

LEMMA ToolStartedStep ==
  ASSUME TranscriptInv, ToolStarted
  PROVE  TranscriptInv'
<1> DEFINE name == Counter + 1
           e == Event("tool.started", Named(name), calls + 1)
<1>1. Typed /\ attempt \in Nat /\ calls \in Nat /\ run.tools \in Nat /\ run.messages \in Nat /\ Counter \in Nat
  BY NamesTyped DEF TranscriptInv, Typed
<1>2. name \in Nat \ {0} /\ name = Counter + 1
  BY <1>1
<1>3. /\ Record(<<e>>) /\ UNCHANGED <<phase, attempt, guesses, retries, shown>> /\ phase = "running" /\ calls' = calls + 1
      /\ run.adapter = "unnamed" => run.open = <<>>
      /\ run' = [run EXCEPT !.tools = @ + 1, !.open = Append(@, [name |-> name, call |-> calls + 1])]
  BY DEF ToolStarted
<1> HIDE DEF name
<1>4. /\ e \in Events /\ e.kind = "tool.started" /\ e.attempt = attempt
      /\ e.entity = Named(name) /\ e.call = calls + 1
  <2>1. Named(name) \in Nat
    <3>1. \A m \in Nat : Named(m) \in Nat
      BY <1>1, NamesTyped
    <3> QED
      BY <1>2, <3>1
  <2>3. calls + 1 \in Nat /\ "tool.started" \in Kinds
    BY <1>1 DEF Kinds
  <2>2. e \in Events
    BY <1>1, <2>1, <2>3, EventTyped
  <2> QED
    BY <2>2 DEF Event
<1> HIDE DEF e
<1>5. /\ Extends(log, log') /\ recording' \in BOOLEAN /\ faults' \in Nat
      /\ \A i \in DOMAIN log' \ DOMAIN log :
           /\ i = Len(log) + 1 /\ \A j \in DOMAIN log : j < i
           /\ log'[i].kind = e.kind /\ log'[i].attempt = e.attempt
           /\ log'[i].entity = e.entity /\ log'[i].call = e.call
  BY <1>1, <1>3, <1>4, OneRecorded DEF Typed
<1>6. \A i \in DOMAIN log' \ DOMAIN log :
        /\ \A j \in DOMAIN log : j < i
        /\ i = Len(log) + 1
        /\ log'[i].kind = "tool.started" /\ log'[i].attempt = attempt
        /\ log'[i].entity = Named(name) /\ log'[i].call = calls + 1
  BY <1>4, <1>5
<1>7. run' \in Runs /\ Calls(log') /\ OpenCalls' /\ (retries' = MaxRetries => FreshNames')
  BY <1>2, <1>3, <1>5, <1>6, CallStarts
<1>8. shown' \in 0 .. Len(log') /\ Numbered(log')
  BY <1>1, <1>3, <1>5, ShownStays DEF Typed, Extends
<1>9. Typed'
  BY <1>1, <1>3, <1>5, <1>7, <1>8 DEF Typed
<1> QED
  BY <1>7, <1>9 DEF TranscriptInv

\* Under the name of its call or under a guess.
LEMMA ToolCompletedStep ==
  ASSUME TranscriptInv, ToolCompleted \/ ToolCompletedAstray
  PROVE  TranscriptInv'
<1>1. Typed /\ attempt \in Nat /\ run.open \in Seq(Opens) /\ Latest \in Nat \ {0} /\ guesses \in Nat
  BY NamesTyped DEF TranscriptInv, Typed
<1>2. \A k \in DOMAIN run.open : run.open[k].name \in Nat /\ run.open[k].call \in Nat /\ Named(run.open[k].name) \in Nat
  <2>1. \A k \in DOMAIN run.open : run.open[k] \in Opens
    BY <1>1
  <2> QED
    BY <1>1, <2>1, NamesTyped DEF Opens
<1>3. PICK k \in DOMAIN run.open, e \in Events :
        /\ Emits(<<e>>) /\ run' = [run EXCEPT !.open = RemoveAt(@, k)] /\ guesses' \in Nat
        /\ e.kind = "tool.completed" /\ e.attempt = attempt /\ e.call = run.open[k].call /\ e.astray \in BOOLEAN
        /\ IF e.astray THEN e.entity \in Nat \ {0} /\ run.adapter # "unnamed" ELSE e.entity = Named(run.open[k].name)
  <2>1. CASE ToolCompleted
    <3>1. PICK k \in DOMAIN run.open :
            /\ Emits(<<Event("tool.completed", Named(run.open[k].name), run.open[k].call)>>)
            /\ run' = [run EXCEPT !.open = RemoveAt(@, k)]
      BY <2>1 DEF ToolCompleted
    <3> DEFINE e == Event("tool.completed", Named(run.open[k].name), run.open[k].call)
    <3>2. e \in Events
      BY <1>1, <1>2, EventTyped DEF Kinds
    <3>3. /\ e.kind = "tool.completed" /\ e.attempt = attempt /\ e.call = run.open[k].call
          /\ e.astray = FALSE /\ e.entity = Named(run.open[k].name)
      BY DEF Event
    <3>4. guesses' \in Nat
      BY <1>1, <2>1 DEF ToolCompleted
    <3>5. Emits(<<e>>)
      BY <3>1
    <3> HIDE DEF e
    <3> QED
      BY <3>1, <3>2, <3>3, <3>4, <3>5
  <2>2. CASE ToolCompletedAstray
    <3>1. PICK k \in DOMAIN run.open :
            Emits(<<Astray(run.open[k].call)>>) /\ run' = [run EXCEPT !.open = RemoveAt(@, k)]
      BY <2>2 DEF ToolCompletedAstray
    <3> DEFINE e == Astray(run.open[k].call)
    <3>2. /\ e \in Events /\ e.kind = "tool.completed" /\ e.attempt = attempt /\ e.call = run.open[k].call
          /\ e.astray = TRUE /\ e.entity = Latest
      BY <1>1, <1>2, AstrayTyped
    <3>3. run.adapter # "unnamed" /\ guesses' \in Nat
      BY <1>1, <2>2 DEF ToolCompletedAstray
    <3>4. Emits(<<e>>)
      BY <3>1
    <3> HIDE DEF e
    <3> QED
      BY <1>1, <3>1, <3>2, <3>3, <3>4
  <2> QED
    BY <2>1, <2>2
<1>4. Record(<<e>>) /\ UNCHANGED <<phase, attempt, calls, retries, shown>> /\ phase = "running"
  BY <1>3 DEF Emits
<1>5. /\ Extends(log, log') /\ recording' \in BOOLEAN /\ faults' \in Nat
      /\ \A i \in DOMAIN log' \ DOMAIN log :
           /\ i = Len(log) + 1 /\ \A j \in DOMAIN log : j < i
           /\ log'[i].kind = e.kind /\ log'[i].attempt = e.attempt /\ log'[i].astray = e.astray
           /\ log'[i].entity = e.entity /\ log'[i].call = e.call
  BY <1>1, <1>4, OneRecorded DEF Typed
<1>6. \A i \in DOMAIN log' \ DOMAIN log :
        /\ \A j \in DOMAIN log : j < i
        /\ i = Len(log) + 1
        /\ log'[i].kind = "tool.completed" /\ log'[i].attempt = attempt
        /\ log'[i].entity = e.entity /\ log'[i].call = e.call /\ log'[i].astray = e.astray
  BY <1>3, <1>5
<1>7. run' \in Runs /\ Calls(log') /\ OpenCalls' /\ (retries' = MaxRetries => FreshNames')
  <2>1. run' = [run EXCEPT !.open = RemoveAt(@, k)]
    BY <1>3
  <2>2. phase = "running" /\ UNCHANGED <<phase, attempt, calls, retries>> /\ Extends(log, log')
    BY <1>4, <1>5
  <2> QED
    BY <1>3, <1>6, <2>1, <2>2, CallCompletes
<1>8. shown' \in 0 .. Len(log') /\ Numbered(log')
  BY <1>1, <1>4, <1>5, ShownStays DEF Typed, Extends
<1>9. Typed'
  BY <1>1, <1>3, <1>4, <1>5, <1>7, <1>8 DEF Typed
<1> QED
  BY <1>7, <1>9 DEF TranscriptInv

LEMMA ToolUnannouncedStep ==
  ASSUME TranscriptInv, ToolCompletedUnannounced
  PROVE  TranscriptInv'
<1> DEFINE e == Astray(calls + 1)
<1>1. Typed /\ attempt \in Nat /\ calls + 1 \in Nat /\ Latest \in Nat \ {0} /\ guesses \in Nat
  BY NamesTyped DEF TranscriptInv, Typed
<1>2. /\ e \in Events /\ e.kind = "tool.completed" /\ e.attempt = attempt /\ e.call = calls + 1
      /\ e.astray = TRUE /\ e.entity = Latest
  BY <1>1, AstrayTyped
<1>3. /\ Record(<<e>>) /\ run.adapter # "unnamed" /\ calls' = calls + 1 /\ guesses > 0 /\ guesses' = guesses - 1
      /\ UNCHANGED <<phase, attempt, run, retries, shown>>
  BY DEF ToolCompletedUnannounced
<1> HIDE DEF e
<1>4. /\ Extends(log, log') /\ recording' \in BOOLEAN /\ faults' \in Nat
      /\ \A i \in DOMAIN log' \ DOMAIN log :
           /\ i = Len(log) + 1 /\ \A j \in DOMAIN log : j < i
           /\ log'[i].kind = e.kind /\ log'[i].attempt = e.attempt /\ log'[i].astray = e.astray
           /\ log'[i].entity = e.entity /\ log'[i].call = e.call
  BY <1>1, <1>2, <1>3, OneRecorded DEF Typed
<1>5. \A i \in DOMAIN log' \ DOMAIN log :
        /\ \A j \in DOMAIN log : j < i
        /\ i = Len(log) + 1
        /\ log'[i].kind = "tool.completed" /\ log'[i].attempt = attempt
        /\ log'[i].call = calls + 1 /\ log'[i].astray
  BY <1>2, <1>4
<1>6. Calls(log') /\ OpenCalls' /\ (retries' = MaxRetries => FreshNames')
  BY <1>3, <1>4, <1>5, CallUnannounced
<1>7. shown' \in 0 .. Len(log') /\ Numbered(log')
  BY <1>1, <1>3, <1>4, ShownStays DEF Typed, Extends
<1>8. guesses' \in Nat /\ calls' \in Nat
  BY <1>1, <1>3
<1>9. Typed'
  BY <1>1, <1>3, <1>4, <1>7, <1>8 DEF Typed
<1> QED
  BY <1>6, <1>9 DEF TranscriptInv

\* An attempt begins, runs again, ends, or is started over.
LEMMA AttemptStep ==
  ASSUME TranscriptInv, StartAttempt \/ Recover \/ AttemptFinished \/ Interrupt
  PROVE  TranscriptInv'
<1>1. Typed /\ attempt \in Nat /\ run.n \in Nat /\ run.adapter \in Adapters /\ run.tools \in Nat
  BY NamesTyped DEF TranscriptInv, Typed
<1>2. run' \in Runs /\ run'.open = <<>>
  <2>1. PICK adapter \in Adapters, n \in Nat : run' = NewRun(adapter, n)
    <3>1. "deltas" \in Adapters /\ run.n + 1 \in Nat
      BY <1>1 DEF Adapters
    <3> QED
      BY <1>1, <3>1 DEF StartAttempt, Recover, AttemptFinished, Interrupt
  <2> QED
    BY <2>1, NewRunTyped
<1>3. /\ Quiet(log, log') /\ recording' \in BOOLEAN /\ faults' \in Nat
      /\ AttemptFinished \/ UNCHANGED log
  <2>1. CASE AttemptFinished
    <3>1. PICK status \in {"succeeded", "failed"} :
            Record(<<[Event("attempt.finished", 0, 0) EXCEPT !.status = status]>>)
      BY <2>1 DEF AttemptFinished
    <3> DEFINE e == [Event("attempt.finished", 0, 0) EXCEPT !.status = status]
    <3>2. e \in Events /\ ~OfTool(e) /\ e.attempt = attempt
      <4>1. Event("attempt.finished", 0, 0) \in Events
        BY <1>1, EventTyped DEF Kinds
      <4>2. e \in Events /\ e.kind = "attempt.finished" /\ e.attempt = attempt
        BY <4>1 DEF Event, Events, Statuses
      <4> QED
        BY <4>2 DEF OfTool
    <3>3. Record(<<e>>)
      BY <3>1
    <3> HIDE DEF e
    <3>4. <<e>> \in Seq(Events) /\ \A k \in DOMAIN <<e>> : ~OfTool((<<e>>)[k]) /\ (<<e>>)[k].attempt = attempt
      BY <3>2
    <3> QED
      BY <1>1, <2>1, <3>3, <3>4, QuietlyRecorded DEF Typed
  <2>2. CASE StartAttempt \/ Recover \/ Interrupt
    <3>1. UNCHANGED log /\ recording' = recording /\ (faults' = faults \/ (faults > 0 /\ faults' = faults - 1))
      BY <2>2 DEF StartAttempt, Recover, Interrupt
    <3> QED
      BY <1>1, <3>1, Unrecorded DEF Typed
  <2> QED
    BY <2>1, <2>2
<1>4. /\ UNCHANGED <<calls, guesses, retries, shown>> /\ attempt' \in Nat /\ attempt' >= attempt
      /\ phase' \in {"between", "running", "succeeded", "unsuccessful"}
  <2>1. CASE StartAttempt
    BY <1>1, <2>1 DEF StartAttempt
  <2>2. CASE Recover \/ Interrupt
    BY <1>1, <2>2 DEF Recover, Interrupt
  <2>3. CASE AttemptFinished
    BY <1>1, <2>3 DEF AttemptFinished
  <2> QED
    BY <2>1, <2>2, <2>3
<1>5. shown' \in 0 .. Len(log') /\ Numbered(log')
  BY <1>1, <1>3, <1>4, ShownStays DEF Typed, Quiet, Extends
<1>6. Typed'
  BY <1>1, <1>2, <1>3, <1>4, <1>5 DEF Typed
<1>7. Calls(log') /\ OpenCalls'
  BY <1>2, <1>3, <1>4, NewRunStep
<1>8. \/ phase' # "running"
      \/ attempt' > attempt /\ UNCHANGED log
      \/ run.tools = 0 /\ phase = "running" /\ UNCHANGED <<log, attempt>>
  <2>1. CASE StartAttempt
    BY <1>1, <2>1 DEF StartAttempt
  <2>2. CASE Recover
    BY <2>2 DEF Recover, CanRecover
  <2>3. CASE AttemptFinished \/ Interrupt
    BY <2>3 DEF AttemptFinished, Interrupt
  <2> QED
    BY <2>1, <2>2, <2>3
<1>9. retries' = MaxRetries => FreshNames'
  BY <1>3, <1>4, <1>8, FreshAfter DEF TranscriptInv
<1> QED
  BY <1>6, <1>7, <1>9 DEF TranscriptInv

LEMMA TruncateStep ==
  ASSUME TranscriptInv, Truncate
  PROVE  TranscriptInv'
<1>1. Typed /\ attempt \in Nat /\ Numbered(log) /\ Counter \in Nat
  BY NamesTyped DEF TranscriptInv, Typed
<1> DEFINE e == [Event("stream.truncated", 0, 0) EXCEPT !.id = Len(log) + 1]
<1>2. log \in Seq(Events) /\ Len(log) \in Nat /\ DOMAIN log = 1 .. Len(log)
  BY <1>1 DEF Numbered
<1>3. e \in Events /\ e.kind = "stream.truncated" /\ e.attempt = attempt /\ e.id = Len(log) + 1
  <2>1. Event("stream.truncated", 0, 0) \in Events /\ Len(log) + 1 \in Nat
    BY <1>1, <1>2, EventTyped DEF Kinds
  <2>2. e \in Events /\ e.id = Len(log) + 1
    BY <2>1 DEF Events
  <2>3. e.kind = "stream.truncated" /\ e.attempt = attempt
    BY DEF Event
  <2> QED
    BY <2>2, <2>3
<1>4. log' = Append(log, e)
  BY DEF Truncate
<1> HIDE DEF e
<1>5. /\ log' \in Seq(Events) /\ DOMAIN log' = 1 .. Len(log) + 1 /\ log'[Len(log) + 1] = e
      /\ \A i \in 1 .. Len(log) : log'[i] = log[i]
  BY <1>2, <1>3, <1>4
<1>6. Quiet(log, log')
  BY <1>1, <1>2, <1>3, <1>5 DEF Quiet, Extends, Numbered, OfTool
<1>7. /\ UNCHANGED <<phase, attempt, run, calls, guesses, retries, shown>>
      /\ recording' \in BOOLEAN /\ faults' \in Nat
  <2>1. faults \in Nat /\ faults > 0 /\ faults' = faults - 1 /\ recording' = FALSE
    BY <1>1 DEF Truncate, Typed
  <2>2. UNCHANGED <<phase, attempt, run, calls, guesses, retries, shown>>
    BY DEF Truncate
  <2>3. faults' \in Nat
    BY <2>1
  <2>4. recording' \in BOOLEAN
    BY <2>1
  <2> QED
    BY <2>2, <2>3, <2>4
<1>8. Counter' >= Counter
  BY <1>1, <1>7 DEF Counter
<1>9. run' \in Runs
  BY <1>1, <1>7 DEF Typed
<1>10. Calls(log') /\ OpenCalls' /\ (retries' = MaxRetries => FreshNames')
  BY <1>6, <1>7, <1>8, <1>9, QuietStep
<1>11. shown' \in 0 .. Len(log') /\ Numbered(log')
  BY <1>1, <1>6, <1>7, ShownStays DEF Typed, Quiet, Extends
<1>12. Typed'
  BY <1>1, <1>7, <1>9, <1>11 DEF Typed
<1> QED
  BY <1>10, <1>12 DEF TranscriptInv

LEMMA JobRetryStep ==
  ASSUME TranscriptInv, JobRetry
  PROVE  TranscriptInv'
<1>1. Typed
  BY DEF TranscriptInv
<1>2. /\ UNCHANGED <<log, run, calls, guesses, recording, faults, shown>> /\ phase' = "between" /\ attempt' = 0
      /\ retries > 0 /\ retries' = retries - 1 /\ phase # "running"
  BY DEF JobRetry
<1>3. MaxRetries \in Nat
  BY TranscriptConstants
<1>4. Typed'
  BY <1>1, <1>2, <1>3 DEF Typed
<1>5. run'.open = <<>>
  BY <1>2 DEF TranscriptInv, OpenCalls
<1>6. Calls(log') /\ OpenCalls'
  BY <1>1, <1>2, <1>5, Unrecorded, NewRunStep DEF Typed
<1>7. retries' # MaxRetries
  BY <1>1, <1>2, <1>3 DEF Typed
<1> QED
  BY <1>4, <1>6, <1>7 DEF TranscriptInv

LEMMA StillStep ==
  ASSUME TranscriptInv, UNCHANGED <<log, phase, attempt, run, calls, guesses, recording, faults, retries>>,
         shown' \in 0 .. Len(log)
  PROVE  TranscriptInv'
<1>1. Typed'
  BY DEF TranscriptInv, Typed
<1>2. Calls(log') /\ OpenCalls'
  BY DEF TranscriptInv, OpenCalls, Counter, Named
<1>3. FreshNames => FreshNames'
  BY DEF FreshNames, Counter
<1> QED
  BY <1>1, <1>2, <1>3 DEF TranscriptInv

LEMMA NextInv ==
  ASSUME TranscriptInv, [Next]_vars
  PROVE  TranscriptInv'
<1>1. CASE StartAttempt \/ Recover \/ AttemptFinished \/ Interrupt
  BY <1>1, AttemptStep
<1>2. CASE TextDelta \/ SummaryDelta
  BY <1>2, DeltaStep
<1>3. CASE MessageStarted
  BY <1>3, MessageStartedStep
<1>4. CASE MessageCompleted
  BY <1>4, MessageCompletedStep
<1>5. CASE ToolStarted
  BY <1>5, ToolStartedStep
<1>6. CASE ToolCompleted \/ ToolCompletedAstray
  BY <1>6, ToolCompletedStep
<1>11. CASE ToolCompletedUnannounced
  BY <1>11, ToolUnannouncedStep
<1>7. CASE Truncate
  BY <1>7, TruncateStep
<1>8. CASE JobRetry
  BY <1>8, JobRetryStep
<1>9. CASE Page
  <2>1. shown \in 0 .. Len(log) /\ Len(log) \in Nat
    BY DEF TranscriptInv, Typed, Numbered
  <2>2. PICK upto \in shown + 1 .. Len(log) : shown' = upto
    BY <1>9 DEF Page
  <2>3. shown' \in 0 .. Len(log)
    BY <2>1, <2>2
  <2> QED
    BY <1>9, <2>3, StillStep DEF Page
<1>10. CASE UNCHANGED vars
  <2>1. shown' \in 0 .. Len(log) /\ UNCHANGED <<log, phase, attempt, run, calls, guesses, recording, faults, retries>>
    BY <1>10 DEF TranscriptInv, Typed, vars
  <2> QED
    BY <2>1, StillStep
<1> QED
  BY <1>1, <1>2, <1>3, <1>4, <1>5, <1>6, <1>7, <1>8, <1>9, <1>10, <1>11 DEF Next

\* The log names calls in a way that lets the cards find them (TranscriptInv): a
\* completion follows the start of its call in the same attempt, and bears its
\* name or is known to bear a guess (codex.py:316, pi.py:235, agy.py:273, 330); a
\* name that is not a guess belongs to one call of the attempt until the job is
\* retried.  For any numbers of attempts, runs, calls, guesses, losses and retries.
THEOREM TranscriptInvariant == Spec => []TranscriptInv
<1>1. Init => TranscriptInv
  BY InitInv
<1>2. TranscriptInv /\ [Next]_vars => TranscriptInv'
  BY NextInv
<1> QED
  BY <1>1, <1>2, PTL DEF Spec

-----------------------------------------------------------------------------
\* From the groups to what is on screen.

LEMMA SeenEvents ==
  ASSUME Typed
  PROVE  /\ shown \in 0 .. Len(log) /\ DOMAIN Seen = 1..shown
         /\ \A i \in 1..shown : Seen[i] = log[i] /\ log[i] \in Events /\ log[i].id = i /\ i \in DOMAIN log
<1>1. log \in Seq(Events) /\ Len(log) \in Nat /\ DOMAIN log = 1 .. Len(log) /\ shown \in 0 .. Len(log)
  BY DEF Typed, Numbered
<1>2. \A i \in 1..shown : i \in DOMAIN log /\ log[i] \in Events /\ log[i].id = i
  <2>1. \A i \in 1..shown : i \in DOMAIN log
    BY <1>1
  <2> QED
    BY <1>1, <2>1 DEF Typed, Numbered
<1>3. Seen \in Seq(Events) /\ Len(Seen) = shown /\ \A i \in 1..shown : Seen[i] = log[i]
  <2>1. \A i \in 1..shown : log[i] \in Events
    BY <1>2
  <2> QED
    BY <1>1, <2>1, SubSeqProperties DEF Seen
<1>4. DOMAIN Seen = 1..shown
  BY <1>3
<1> QED
  BY <1>1, <1>2, <1>3, <1>4

LEMMA SeenOfKind ==
  ASSUME Typed, NEW kind, NEW e
  PROVE  e \in SeenOf(kind) <=> \E i \in 1..shown : e = log[i] /\ log[i].kind = kind
BY SeenEvents DEF SeenOf

LEMMA CardsShown ==
  ASSUME NEW type, NEW c
  PROVE  c \in Cards(type) <=>
           \E g \in DOMAIN Reduce(Seen) : \E k \in DOMAIN Reduce(Seen)[g].items :
             /\ Reduce(Seen)[g].items[k].type = type
             /\ c = [attempt |-> Reduce(Seen)[g].attempt, card |-> Reduce(Seen)[g].items[k]]
<1> DEFINE groups == Reduce(Seen)
           Of(g) == {[attempt |-> groups[g].attempt, card |-> groups[g].items[k]] :
                       k \in {i \in DOMAIN groups[g].items : groups[g].items[i].type = type}}
<1>1. Cards(type) = UNION {Of(g) : g \in DOMAIN groups}
  BY DEF Cards
<1>2. c \in Cards(type) <=> \E g \in DOMAIN groups : c \in Of(g)
  BY <1>1
<1>3. ASSUME NEW g \in DOMAIN groups
      PROVE  c \in Of(g) <=> \E k \in DOMAIN groups[g].items :
               groups[g].items[k].type = type /\ c = [attempt |-> groups[g].attempt, card |-> groups[g].items[k]]
  OBVIOUS
<1> HIDE DEF Of
<1> QED
  BY <1>2, <1>3

LEMMA ShowsTextOnce ==
  ASSUME TranscriptInv
  PROVE  TextOnce
<1> DEFINE groups == Reduce(Seen)
           At(g, k) == [attempt |-> groups[g].attempt, card |-> groups[g].items[k]]
<1>1. Typed /\ Numbered(log) /\ shown \in 0 .. Len(log)
  BY DEF TranscriptInv, Typed
<1>2. TextCards(log, shown)
  BY <1>1, CardsOfLog
<1>3. /\ \A g, h \in DOMAIN groups : groups[g].attempt = groups[h].attempt => g = h
      /\ \A i \in 1..shown : \E g \in DOMAIN groups : groups[g].attempt = log[i].attempt
      /\ \A g \in DOMAIN groups : TextOf(groups[g].items, groups[g].attempt, log, shown)
  BY <1>2 DEF TextCards, Grouping, Seen
<1>4. \A i \in 1..shown : log[i].id = i
  BY <1>1, SeenEvents
<1>5. ASSUME NEW m \in Cards("message")
      PROVE  \E g \in DOMAIN groups : \E k \in DOMAIN groups[g].items :
               groups[g].items[k].type = "message" /\ m = At(g, k) /\ Pieces(m.card) = ToSet(m.card.text)
                 /\ m.card = groups[g].items[k] /\ m.attempt = groups[g].attempt
  BY <1>5, CardsShown DEF Pieces
<1>6. ASSUME NEW g \in DOMAIN groups, NEW k \in DOMAIN groups[g].items, groups[g].items[k].type = "message"
      PROVE  At(g, k) \in Cards("message")
  BY <1>6, CardsShown
<1> HIDE DEF groups, At
<1>7. ASSUME NEW m \in Cards("message")
      PROVE  Increasing(m.card.text)
  BY <1>3, <1>5 DEF TextOf
<1>8. ASSUME NEW m \in Cards("message"), NEW i \in ToSet(m.card.text)
      PROVE  /\ i \in 1..shown /\ log[i].kind = "text.delta" /\ log[i].attempt = m.attempt
             /\ log[i].entity # 0 => m.card.entity = log[i].entity
  <2>1. PICK g \in DOMAIN groups : \E k \in DOMAIN groups[g].items :
          i \in Pieces(groups[g].items[k]) /\ m.card = groups[g].items[k] /\ m.attempt = groups[g].attempt
    BY <1>5
  <2>2. TextOf(groups[g].items, groups[g].attempt, log, shown)
    BY <1>3
  <2> QED
    BY <2>1, <2>2 DEF TextOf
<1>9. ASSUME NEW m \in Cards("message"), NEW o \in Cards("message"),
             NEW i \in ToSet(m.card.text), i \in ToSet(o.card.text)
      PROVE  o = m
  <2>1. PICK g \in DOMAIN groups : \E k \in DOMAIN groups[g].items :
          i \in Pieces(groups[g].items[k]) /\ m = At(g, k) /\ m.attempt = groups[g].attempt
    BY <1>5
  <2>2. PICK h \in DOMAIN groups : \E j \in DOMAIN groups[h].items :
          i \in Pieces(groups[h].items[j]) /\ o = At(h, j) /\ o.attempt = groups[h].attempt
    BY <1>5, <1>9
  <2>3. m.attempt = log[i].attempt /\ o.attempt = log[i].attempt
    BY <1>8, <1>9
  <2>4. g = h
    BY <1>3, <2>1, <2>2, <2>3
  <2>5. TextOf(groups[g].items, groups[g].attempt, log, shown)
    BY <1>3
  <2>6. PICK k \in DOMAIN groups[g].items : i \in Pieces(groups[g].items[k]) /\ m = At(g, k)
    BY <2>1
  <2>7. PICK j \in DOMAIN groups[g].items : i \in Pieces(groups[g].items[j]) /\ o = At(g, j)
    BY <2>2, <2>4
  <2>8. j = k
    BY <2>5, <2>6, <2>7 DEF TextOf
  <2> QED
    BY <2>6, <2>7, <2>8
<1>10. ASSUME NEW e \in SeenOf("text.delta")
       PROVE  \E m \in Cards("message") :
                /\ e.id \in ToSet(m.card.text)
                /\ m.attempt = e.attempt
                /\ e.entity # 0 => m.card.entity = e.entity
                /\ \A other \in Cards("message") : e.id \in ToSet(other.card.text) => other = m
  <2>1. PICK i \in 1..shown : e = log[i] /\ log[i].kind = "text.delta"
    BY <1>1, SeenOfKind
  <2>2. PICK g \in DOMAIN groups : groups[g].attempt = log[i].attempt
    BY <1>3
  <2>3. TextOf(groups[g].items, groups[g].attempt, log, shown)
    BY <1>3
  <2>4. PICK k \in DOMAIN groups[g].items : i \in Pieces(groups[g].items[k])
    BY <2>1, <2>2, <2>3 DEF TextOf
  <2>5. groups[g].items[k].type = "message" /\ i \in ToSet(groups[g].items[k].text)
    BY <2>4 DEF Pieces
  <2>6. At(g, k) \in Cards("message") /\ i \in ToSet(At(g, k).card.text)
    BY <1>6, <2>5 DEF At
  <2>7. e.id = i
    BY <1>4, <2>1
  <2>8. /\ At(g, k).attempt = e.attempt
        /\ e.entity # 0 => At(g, k).card.entity = e.entity
    BY <1>8, <2>1, <2>6
  <2>9. \A other \in Cards("message") : i \in ToSet(other.card.text) => other = At(g, k)
    BY <1>9, <2>6
  <2> QED
    BY <2>6, <2>7, <2>8, <2>9
<1>11. ASSUME NEW m \in Cards("message")
       PROVE  ToSet(m.card.text) \subseteq {e.id : e \in SeenOf("text.delta")}
  <2>1. SUFFICES ASSUME NEW i \in ToSet(m.card.text) PROVE i \in {e.id : e \in SeenOf("text.delta")}
    OBVIOUS
  <2>2. i \in 1..shown /\ log[i].kind = "text.delta"
    BY <1>8
  <2>3. log[i] \in SeenOf("text.delta") /\ log[i].id = i
    BY <1>1, <1>4, <2>2, SeenOfKind
  <2> QED
    BY <2>3
<1> QED
  BY <1>7, <1>10, <1>11 DEF TextOnce

LEMMA ShowsOwnCalls ==
  ASSUME TranscriptInv
  PROVE  OwnCallSettles
<1>1. Typed /\ Numbered(log) /\ shown \in 0 .. Len(log) /\ Calls(log) /\ retries \in 0..MaxRetries
  BY DEF TranscriptInv, Typed
<1>2. ToolCards(log, shown)
  BY <1>1, CardsOfLog
<1>3. \A i \in 1..shown : log[i] \in Events /\ log[i].id = i /\ i \in DOMAIN log
  BY <1>1, SeenEvents
<1>4. SUFFICES ASSUME NEW t \in Cards("tool")
      PROVE  \/ Settled(t)
             \/ \E e \in SeenOf("tool.completed") :
                  /\ e.entity = 0 /\ e.attempt = t.attempt
                  /\ e.call \notin {s.call : s \in SeenOf("tool.started")}
             \/ \E e \in SeenOf("tool.completed") :
                  /\ e.astray /\ e.attempt = t.attempt
                  /\ e.entity = t.card.entity \/ e.call = t.card.call
             \/ /\ retries < MaxRetries
                /\ \E e \in SeenOf("tool.started") \union SeenOf("tool.completed") :
                     e.attempt = t.attempt /\ e.entity = t.card.entity /\ e.call # t.card.call
  BY DEF OwnCallSettles
<1>5. ToolOK(t.card, t.attempt, log, shown)
  <2>1. PICK g \in DOMAIN Reduce(Seen) : \E k \in DOMAIN Reduce(Seen)[g].items :
          /\ Reduce(Seen)[g].items[k].type = "tool"
          /\ t = [attempt |-> Reduce(Seen)[g].attempt, card |-> Reduce(Seen)[g].items[k]]
    BY CardsShown
  <2>2. ToolsOf(Reduce(Seen)[g].items, Reduce(Seen)[g].attempt, log, shown)
    BY <1>2 DEF ToolCards, Seen
  <2>3. PICK k \in DOMAIN Reduce(Seen)[g].items :
          /\ Reduce(Seen)[g].items[k].type = "tool"
          /\ t.attempt = Reduce(Seen)[g].attempt /\ t.card = Reduce(Seen)[g].items[k]
    BY <2>1
  <2> QED
    BY <2>2, <2>3 DEF ToolsOf
<1>6. CASE SettledBy(t.card, log, shown)
  <2>1. t.card.call \in {e.call : e \in SeenOf("tool.completed")} <=> Completed(log, shown, t.card.call) # {}
    BY <1>1, SeenOfKind DEF Completed
  <2>2. Settled(t)
    BY <1>6, <2>1 DEF Settled, SettledBy
  <2> QED
    BY <2>2
<1>7. CASE Orphan(t.attempt, log, shown)
  <2>1. PICK i \in 1..shown : /\ log[i].kind = "tool.completed" /\ log[i].entity = 0 /\ log[i].attempt = t.attempt
                              /\ Started(log, shown, log[i].call) = {}
    BY <1>7 DEF Orphan
  <2>2. log[i] \in SeenOf("tool.completed")
    BY <1>1, <2>1, SeenOfKind
  <2>3. log[i].call \notin {s.call : s \in SeenOf("tool.started")}
    BY <1>1, <2>1, SeenOfKind DEF Started
  <2> QED
    BY <2>1, <2>2, <2>3
<1>8. CASE Namesake(t.card, t.attempt, log, shown)
  <2>1. PICK i \in 1..shown : /\ log[i].kind \in {"tool.started", "tool.completed"}
                              /\ log[i].attempt = t.attempt /\ log[i].entity = t.card.entity /\ log[i].call # t.card.call
    BY <1>8 DEF Namesake
  <2>2. log[i] \in SeenOf("tool.started") \union SeenOf("tool.completed")
    BY <1>1, <2>1, SeenOfKind
  <2>3. CASE ~OwnName(log[i])
    <3>1. log[i].kind = "tool.completed" /\ log[i].astray
      BY <2>1, <2>3 DEF OwnName, OfTool
    <3>2. log[i] \in SeenOf("tool.completed")
      BY <1>1, <3>1, SeenOfKind
    <3> QED
      BY <2>1, <3>1, <3>2
  <2>4. ASSUME OwnName(log[i]) PROVE retries < MaxRetries
    <3>1. SUFFICES ASSUME retries = MaxRetries PROVE FALSE
      BY <1>1, TranscriptConstants
    <3>2. NamesOnce(log)
      BY <3>1 DEF TranscriptInv, FreshNames
    <3>3. PICK s \in 1..shown : /\ log[s].kind = "tool.started" /\ log[s].call = t.card.call
                                /\ log[s].attempt = t.attempt /\ t.card.entity = Own(log[s])
      BY <1>5 DEF ToolOK, Started
    <3>4. log[i].entity \in Nat /\ log[s].entity \in Nat /\ log[s].id = s /\ s > 0
      BY <1>3 DEF Events
    <3>5. log[s].entity # 0 /\ log[i].entity = log[s].entity
      BY <2>1, <3>3, <3>4 DEF Own
    <3>6. log[i].call = log[s].call
      BY <1>3, <2>1, <2>4, <3>2, <3>3, <3>5 DEF NamesOnce, OwnName, OfTool
    <3> QED
      BY <2>1, <3>3, <3>6
  <2> QED
    BY <2>1, <2>2, <2>3, <2>4
<1>9. CASE Strayed(t.card, t.attempt, log, shown)
  <2>1. PICK i \in 1..shown : /\ log[i].kind = "tool.completed" /\ log[i].astray
                              /\ log[i].attempt = t.attempt /\ log[i].call = t.card.call
    BY <1>9 DEF Strayed
  <2>2. log[i] \in SeenOf("tool.completed")
    BY <1>1, <2>1, SeenOfKind
  <2> QED
    BY <2>1, <2>2
<1> QED
  BY <1>5, <1>6, <1>7, <1>8, <1>9 DEF ToolOK, Excused

\* TextOnce of reduceTranscriptEvents (useJobStream.js:6-162): every piece of text
\* that has been read stands in one message, under its own attempt and name, in the
\* order of the log.
THEOREM TextIsShownOnce == Spec => []TextOnce
BY TranscriptInvariant, ShowsTextOnce, PTL

\* OwnCallSettles: every tool card is settled by its own call, but for the card that
\* a guessed name falls on and the one whose own completion it is (codex.py:316,
\* pi.py:235, agy.py:273, 330), a name used twice by a job that was retried, or a
\* nameless call whose start was lost.
THEOREM OwnCallsSettle == Spec => []OwnCallSettles
BY TranscriptInvariant, ShowsOwnCalls, PTL
=============================================================================
