--------------------------- MODULE JobScreenProofs ---------------------------
(***************************************************************************)
(* The job screen shows what the URL says, its spinners wait for requests  *)
(* that are under way, its polls never die, and its lists never go back,   *)
(* for any number of projects, jobs, requests, navigations and failures.   *)
(*                                                                         *)
(* The invariant says of every request whether somebody still waits for    *)
(* it: a fetch is of the route on screen; a poll or a tick that is live    *)
(* belongs to an effect that polls; of the queries only one is the newest, *)
(* and what it brings is not older than what is shown.                     *)
(***************************************************************************)
EXTENDS JobScreen, FiniteSetTheorems, WellFoundedInduction, TLAPS

JobKinds   == {"fetch", "poll", "refresh"}
QueryKinds == {"query", "tick"}

JobAnswers == {Pending, Lost} \union [kind : {"job"}, version : 0..MaxVersion]
Lists(p)   == [JobsOf(p) -> 0..MaxVersion]
ListAnswers(p) == {Pending, Lost} \union [kind : {"list"}, versions : Lists(p)]

(* A request has an answer of its own kind.                                *)
Sound(r) ==
  /\ r \in Requests
  /\ r.kind \in JobKinds => r.at.job \in Jobs /\ r.answer \in JobAnswers
  /\ r.kind \in QueryKinds => r.answer \in ListAnswers(r.at.project)

Slots(net) == \A q, r \in net : q.slot = r.slot => q = r

Net(net) == /\ \A r \in net : Sound(r)
            /\ Slots(net)
            /\ IsFiniteSet(net) /\ Cardinality(net) <= MaxNet

Datas   == {NoData} \union UNION { [of : {p}, versions : Lists(p)] : p \in Projects }
Queries == [data : Datas, error : BOOLEAN, loading : BOOLEAN, refreshing : BOOLEAN, timer : BOOLEAN]
Polls   == [armed : Nat, held : BOOLEAN]

(* Every page that was hidden may be shown once.                           *)
Visits == left.hides + (IF hidden THEN 1 ELSE 0)

TypedPage ==
  /\ version \in [Jobs -> 0..MaxVersion]
  /\ route \in Routes /\ tab \in {"jobs", "other"}
  /\ full \in {NoFull} \union [job : Jobs, version : 0..MaxVersion]
  /\ loading \in BOOLEAN /\ hidden \in BOOLEAN /\ errors \subseteq {"fetch", "refresh"}
  /\ watched \in Watched
  /\ query \in Queries
  /\ left \in [faults : Nat, moves : Nat, hides : Nat] /\ Visits <= MaxHides

Typed == TypedPage /\ Net(requests) /\ polls \in [job : Polls, list : Polls]

LiveOnes(net, kind) == { r \in net : r.kind = kind /\ r.live }

(* The timers and ticks of a poll: one chain when its effect starts, and   *)
(* one more with every visit of the page.                                  *)
Chains(poll, ticks, visits) ==
  /\ poll.held => poll.armed > 0
  /\ poll.armed + Cardinality(ticks) + visits <= 1 + MaxHides

(* A poll goes on while it is wanted, and stops with its effect.           *)
PollGoesOn(wanted, poll, ticks, paused) ==
  /\ ticks # {} => wanted
  /\ ~wanted => poll = NotPolling
  /\ wanted /\ ~paused => poll.armed > 0 \/ ticks # {}

(* While the job is watched.                                               *)
FetchesAreWanted == \A r \in requests : r.kind = "fetch" => r.live /\ r.at = route

(* A request that will end the loading of the job on screen.               *)
EndsLoading(r) == r.kind = "refresh" \/ (r.kind = "fetch" /\ r.live)

JobIsOfRoute ==
  /\ route.job = NoJob => full = NoFull
  /\ full # NoFull => Owner[full.job] = route.project
  /\ full.job \notin {NoJob, route.job} => \E r \in requests : r.kind = "fetch" /\ r.live /\ r.at = route

JobInv ==
  /\ Typed
  /\ watched = "job" /\ query = Settle(FreshQuery, FALSE) /\ polls.list = NotPolling
  /\ \A r \in requests : r.kind \in JobKinds
  /\ FetchesAreWanted
  /\ loading /\ route.job # NoJob => \E r \in requests : EndsLoading(r) /\ r.at = route
  /\ JobIsOfRoute
  /\ PollGoesOn(PollsJob, polls.job, LiveOnes(requests, "poll"), hidden)
  /\ Chains(polls.job, LiveOnes(requests, "poll"), Visits)

(* While a query is watched: the newest request, its answer and the data.  *)
OneNewest(net) == \A q, r \in net : q.newest /\ r.newest => q = r

(* What is shown is not newer than `versions'.                             *)
NotNewer(data, p, versions) ==
  data # NoData /\ data.of = p => \A j \in JobsOf(p) : data.versions[j] <= versions[j]

Aging(net, data, versions) ==
  /\ \A p \in Projects : NotNewer(data, p, versions)
  /\ \A r \in net : r.answer.kind = "list" =>
       /\ \A j \in JobsOf(r.at.project) : r.answer.versions[j] <= versions[j]
       /\ r.newest => NotNewer(data, r.at.project, r.answer.versions)

(* Query q of project p, with the requests in `net'.                       *)
Querying(net, q, p, versions) ==
  /\ \A r \in net : r.kind \in QueryKinds /\ (r.kind = "tick" => watched = "jobs")
  /\ OneNewest(net)
  /\ \A r \in net : r.newest => r.at.project = p
  /\ (q.loading \/ q.refreshing) <=> \E r \in net : r.newest
  /\ q.data.of \notin {"nothing", p} => q.error \/ \E r \in net : r.newest
  /\ watched = "project" => q.timer \/ \E r \in net : r.newest
  /\ Aging(net, q.data, versions)

QueryInv ==
  /\ Typed
  /\ watched # "job" /\ full = NoFull /\ ~loading /\ polls.job = NotPolling
  /\ Querying(requests, query, route.project, version)
  /\ PollGoesOn(PollsList, polls.list, LiveOnes(requests, "tick"), hidden)
  /\ Chains(polls.list, LiveOnes(requests, "tick"), Visits)

SInv == JobInv \/ QueryInv

-----------------------------------------------------------------------------
(* Requests in flight.                                                     *)

LEMMA LeastNatural ==
  ASSUME NEW T, T \subseteq Nat, T # {}
  PROVE  \E x \in T : \A y \in T : x <= y
<1>1. PICK x \in T : \A y \in T : ~(<<y, x>> \in OpToRel(<, Nat))
  BY NatLessThanWellFounded, WFMin
<1>2. ASSUME NEW y \in T PROVE x <= y
  <2>1. ~(<<y, x>> \in {ss \in Nat \X Nat : ss[1] < ss[2]})
    BY <1>1 DEF OpToRel
  <2>2. x \in Nat /\ y \in Nat /\ <<y, x>> \in Nat \X Nat
    OBVIOUS
  <2>3. ~(y < x)
    BY <2>1, <2>2
  <2> QED
    BY <2>2, <2>3
<1> QED
  BY <1>2

(* What is made of the requests one by one is not more.                    *)
LEMMA Covered ==
  ASSUME NEW S, IsFiniteSet(S), NEW f, NEW T, \A t \in T : \E s \in S : t = f[s],
         DOMAIN f = S, f = [s \in S |-> f[s]]
  PROVE  IsFiniteSet(T) /\ Cardinality(T) <= Cardinality(S)
<1> DEFINE I == {f[s] : s \in S}
<1>1. f \in Surjection(S, I)
  BY DEF Surjection
<1>2. IsFiniteSet(I) /\ Cardinality(I) <= Cardinality(S)
  <2> HIDE DEF I
  <2> QED
    BY <1>1, FS_Surjection
<1>3. T \in SUBSET I
  OBVIOUS
<1>4. IsFiniteSet(T) /\ Cardinality(T) <= Cardinality(I)
  <2> HIDE DEF I
  <2> QED
    BY <1>2, <1>3, FS_Subset
<1>5. Cardinality(T) \in Nat /\ Cardinality(I) \in Nat /\ Cardinality(S) \in Nat
  <2> HIDE DEF I
  <2> QED
    BY <1>2, <1>4, FS_CardinalityType
<1> QED
  <2> HIDE DEF I
  <2> QED
    BY <1>2, <1>4, <1>5

LEMMA NetMapped ==
  ASSUME NEW net, Net(net), NEW new, \A r \in new : Sound(r),
         NEW f, f = [q \in net |-> f[q]], \A q \in net : f[q].slot = q.slot,
         \A r \in new : \E q \in net : r = f[q]
  PROVE  Net(new) /\ Cardinality(new) <= Cardinality(net)
<1>1. IsFiniteSet(new) /\ Cardinality(new) <= Cardinality(net)
  BY Covered DEF Net
<1>2. Cardinality(new) \in Nat /\ Cardinality(net) \in Nat
  BY <1>1, FS_CardinalityType DEF Net
<1>3. Slots(new)
  BY DEF Net, Slots
<1> QED
  BY <1>1, <1>2, <1>3, ScreenConstants DEF Net

(* There is a free slot for a request that the bound admits.               *)
LEMMA FreeSlot ==
  ASSUME NEW net, Net(net), Cardinality(net) + 1 <= MaxNet
  PROVE  LET free == (1..MaxNet) \ { r.slot : r \in net } IN Min(free) \in free
<1> DEFINE taken == { r.slot : r \in net }
           free == (1..MaxNet) \ taken
           f == [r \in net |-> r.slot]
<1>1. IsFiniteSet(taken) /\ Cardinality(taken) <= Cardinality(net)
  <2>1. \A t \in taken : \E s \in net : t = f[s]
    OBVIOUS
  <2> HIDE DEF taken
  <2>2. DOMAIN f = net /\ f = [s \in net |-> f[s]]
    OBVIOUS
  <2> HIDE DEF f
  <2> QED
    BY <2>1, <2>2, Covered DEF Net
<1>2. MaxNet \in Nat /\ Cardinality(net) \in Nat /\ Cardinality(taken) \in Nat
  <2> HIDE DEF taken
  <2> QED
    BY <1>1, ScreenConstants, FS_CardinalityType DEF Net
<1>3. free # {}
  <2> HIDE DEF taken
  <2> SUFFICES ASSUME (1..MaxNet) \in SUBSET taken PROVE FALSE
    OBVIOUS
  <2>1. Cardinality(1..MaxNet) <= Cardinality(taken)
    BY <1>1, FS_Subset
  <2>2. Cardinality(1..MaxNet) = MaxNet
    BY <1>2, FS_Interval
  <2> QED
    BY <2>1, <2>2, <1>1, <1>2
<1>4. free \subseteq Nat
  BY <1>2
<1> HIDE DEF free
<1>5. PICK x \in free : \A y \in free : x <= y
  BY <1>3, <1>4, LeastNatural
<1>6. Min(free) \in free
  BY <1>5 DEF Min
<1> QED
  BY <1>6 DEF free
(* What is new in the network: a request that nobody has answered.         *)
Fresh(m, kind, at) ==
  m.kind = kind /\ m.at = at /\ m.live /\ m.newest /\ m.answer = Pending

LEMMA SendNet ==
  ASSUME NEW net, Net(net), Cardinality(net) + 1 <= MaxNet,
         NEW kind \in Kinds, NEW at \in Routes, kind \in JobKinds => at.job \in Jobs
  PROVE  \E m : /\ Send(net, kind, at) = net \union {m}
                /\ Fresh(m, kind, at) /\ Sound(m)
                /\ m \notin net
                /\ Net(net \union {m})
<1> DEFINE free == (1..MaxNet) \ { r.slot : r \in net }
           m == [slot |-> Min(free), kind |-> kind, at |-> at, live |-> TRUE, newest |-> TRUE,
                 answer |-> Pending]
<1>1. Min(free) \in free
  BY FreeSlot
<1>2. Send(net, kind, at) = net \union {m}
  BY DEF Send
<1>3. \A r \in net : r.slot # m.slot
  BY <1>1
<1>4. m.slot \in 1..MaxNet
  BY <1>1
<1> HIDE DEF free
<1>5. Sound(m) /\ Fresh(m, kind, at)
  BY <1>4 DEF Sound, Fresh, Requests, Answers, JobAnswers, ListAnswers, Lists
<1> HIDE DEF m
<1>6. m \notin net
  BY <1>3
<1>7. IsFiniteSet(net \union {m}) /\ Cardinality(net \union {m}) <= MaxNet
  BY <1>6, FS_AddElement DEF Net
<1>8. Slots(net \union {m})
  BY <1>3 DEF Slots, Net
<1> QED
  BY <1>2, <1>5, <1>6, <1>7, <1>8 DEF Net

(* A query that is asked again: nobody waits for the older answers.        *)
Aged(r) == [r EXCEPT !.newest = r.kind \notin {"query", "tick"}]

LEMMA AgedFacts ==
  ASSUME NEW r, Sound(r)
  PROVE  /\ Sound(Aged(r))
         /\ Aged(r).slot = r.slot /\ Aged(r).kind = r.kind /\ Aged(r).at = r.at
         /\ Aged(r).live = r.live /\ Aged(r).answer = r.answer
         /\ Aged(r).newest <=> r.kind \notin QueryKinds
<1>1. CASE r.kind \in QueryKinds
  <2>1. Aged(r) = [r EXCEPT !.newest = FALSE]
    <3>1. (r.kind \notin {"query", "tick"}) = FALSE
      BY <1>1 DEF QueryKinds
    <3> QED
      BY <3>1 DEF Aged
  <2> QED
    BY <1>1, <2>1 DEF Sound, Requests
<1>2. CASE r.kind \notin QueryKinds
  <2>1. Aged(r) = [r EXCEPT !.newest = TRUE]
    <3>1. (r.kind \notin {"query", "tick"}) = TRUE
      BY <1>2 DEF QueryKinds
    <3> QED
      BY <3>1 DEF Aged
  <2> QED
    BY <1>2, <2>1 DEF Sound, Requests
<1> QED
  BY <1>1, <1>2

LEMMA SendQueryNet ==
  ASSUME NEW net, Net(net), Cardinality(net) + 1 <= MaxNet,
         NEW kind \in QueryKinds, NEW at \in Routes
  PROVE  \E m : /\ SendQuery(net, kind, at) = { Aged(r) : r \in net } \union {m}
                /\ Fresh(m, kind, at) /\ Sound(m)
                /\ m \notin { Aged(r) : r \in net }
                /\ Net({ Aged(r) : r \in net })
                /\ Net({ Aged(r) : r \in net } \union {m})
<1> DEFINE aged == { Aged(r) : r \in net }
           f == [r \in net |-> Aged(r)]
<1>1. Net(aged) /\ Cardinality(aged) <= Cardinality(net)
  <2>1. \A r \in net : f[r].slot = r.slot
    BY AgedFacts DEF Net
  <2>2. \A r \in aged : \E q \in net : r = f[q]
    OBVIOUS
  <2>3. \A r \in aged : Sound(r)
    BY AgedFacts DEF Net
  <2>4. f = [q \in net |-> f[q]]
    OBVIOUS
  <2> HIDE DEF f, aged
  <2> QED
    BY <2>1, <2>2, <2>3, <2>4, NetMapped
<1>2. SendQuery(net, kind, at) = Send(aged, kind, at)
  BY DEF SendQuery, Aged
<1>3. Cardinality(aged) + 1 <= MaxNet /\ kind \in Kinds /\ kind \notin JobKinds
  <2> HIDE DEF aged
  <2>1. Cardinality(aged) \in Nat /\ Cardinality(net) \in Nat
    BY <1>1, FS_CardinalityType DEF Net
  <2> QED
    BY <1>1, <2>1, ScreenConstants DEF Kinds, JobKinds, QueryKinds
<1>4. \E m : /\ Send(aged, kind, at) = aged \union {m} /\ Fresh(m, kind, at) /\ Sound(m)
             /\ m \notin aged /\ Net(aged \union {m})
  <2> HIDE DEF aged
  <2> QED
    BY <1>1, <1>3, SendNet
<1> QED
  BY <1>1, <1>2, <1>4

(* An answer does not touch what the request is.                           *)
LEMMA AnsweredNet ==
  ASSUME NEW net, Net(net), NEW r \in net, NEW a \in Answers,
         r.kind \in JobKinds => a \in JobAnswers,
         r.kind \in QueryKinds => a \in ListAnswers(r.at.project),
         NEW m, m = [r EXCEPT !.answer = a]
  PROVE  /\ Net((net \ {r}) \union {m}) /\ Sound(m) /\ m.answer = a
         /\ m.slot = r.slot /\ m.kind = r.kind /\ m.at = r.at
         /\ m.live = r.live /\ m.newest = r.newest
<1> DEFINE new == (net \ {r}) \union {m}
           f == [q \in net |-> IF q = r THEN m ELSE q]
<1>1. /\ Sound(m) /\ m.answer = a /\ m.slot = r.slot /\ m.kind = r.kind /\ m.at = r.at
      /\ m.live = r.live /\ m.newest = r.newest
  BY DEF Net, Sound, Requests
<1>2. \A q \in net : f[q].slot = q.slot
  BY <1>1
<1>3. \A s \in new : Sound(s) /\ \E q \in net : s = f[q]
  BY <1>1 DEF Net
<1>4. f = [q \in net |-> f[q]]
  OBVIOUS
<1> HIDE DEF f, new
<1>5. Net(new)
  BY <1>2, <1>3, <1>4, NetMapped
<1> QED
  BY <1>1, <1>5 DEF new

LEMMA SubNet ==
  ASSUME NEW net, Net(net), NEW new, new \subseteq net
  PROVE  Net(new) /\ Cardinality(new) <= Cardinality(net)
<1>1. IsFiniteSet(new) /\ Cardinality(new) <= Cardinality(net)
  BY FS_Subset DEF Net
<1>2. Cardinality(new) \in Nat /\ Cardinality(net) \in Nat
  BY <1>1, FS_CardinalityType DEF Net
<1> QED
  BY <1>1, <1>2, ScreenConstants DEF Net, Slots
-----------------------------------------------------------------------------
(* The effects after a render.                                             *)

Wanted(r) ==
  /\ r.kind = "fetch" => r.at = route'
  /\ r.kind = "poll"  => JobDeps' = JobDeps
  /\ r.kind = "tick"  => ListDeps' = ListDeps

Same(r, q) == r.slot = q.slot /\ r.kind = q.kind /\ r.at = q.at /\ r.newest = q.newest /\ r.answer = q.answer

(* What is left of a request is live only if it was and is still wanted;   *)
(* one whose answer can still do something is left.                        *)
LEMMA EffectsNet ==
  ASSUME NEW net, Net(net), NEW job, NEW list, Effects(net, job, list)
  PROVE  /\ Net(requests')
         /\ \A r \in requests' : r.live => r \in net /\ Wanted(r)
         /\ \A r \in requests' : r.kind = "fetch" => r.live
         /\ \A r \in requests' : \E q \in net : Same(r, q)
         /\ \A q \in net : Wanted(q) /\ (q.kind # "fetch" \/ q.live)
                             /\ (q.kind \in QueryKinds => q.newest \/ (q.kind = "tick" /\ q.live)) =>
              q \in requests'
         /\ \A q \in net : q.kind \in QueryKinds /\ q.newest => \E r \in requests' : Same(r, q)
<1> DEFINE keeps(r) == CASE r.kind = "fetch" -> r.at = route'
                         [] r.kind = "poll"  -> JobDeps' = JobDeps
                         [] r.kind = "tick"  -> ListDeps' = ListDeps
                         [] OTHER -> TRUE
           cut(r)   == [r EXCEPT !.live = r.live /\ keeps(r)]
           idle(r)  == \/ r.kind = "fetch" /\ ~r.live
                       \/ r.kind \in {"query", "tick"} /\ ~r.newest /\ (r.kind = "tick" => ~r.live)
<1>1. requests' = { r \in { cut(q) : q \in net } : ~idle(r) }
  BY DEF Effects
<1>2. ASSUME NEW q \in net
      PROVE  /\ Same(cut(q), q) /\ Sound(cut(q))
             /\ cut(q).live <=> q.live /\ Wanted(q)
             /\ cut(q).live => cut(q) = q
             /\ Wanted(q) => cut(q) = q
  <2>1. keeps(q) = TRUE \/ keeps(q) = FALSE
    OBVIOUS
  <2>2. keeps(q) <=> Wanted(q)
    BY DEF Wanted
  <2> HIDE DEF keeps
  <2>3. Sound(q) /\ q \in Requests
    BY DEF Net, Sound
  <2>4. CASE q.live /\ keeps(q)
    <3>1. cut(q) = [q EXCEPT !.live = TRUE]
      BY <2>4
    <3>2. [q EXCEPT !.live = TRUE] = q
      BY <2>3, <2>4 DEF Requests
    <3> HIDE DEF cut
    <3> QED
      BY <3>1, <3>2, <2>2, <2>3, <2>4 DEF Same
  <2>5. CASE ~(q.live /\ keeps(q))
    <3>1. cut(q) = [q EXCEPT !.live = FALSE]
      BY <2>5, <2>1, <2>3 DEF Requests
    <3>2. keeps(q) => [q EXCEPT !.live = FALSE] = q
      BY <2>3, <2>5 DEF Requests
    <3> HIDE DEF cut
    <3>3. Same(cut(q), q) /\ cut(q) \in Requests /\ cut(q).live = FALSE
      BY <3>1, <2>3 DEF Same, Requests
    <3> QED
      BY <3>1, <3>2, <3>3, <2>2, <2>3, <2>5 DEF Same, Sound
  <2> QED
    BY <2>4, <2>5
<1> HIDE DEF keeps, cut
<1>3. Net(requests')
  <2> DEFINE f == [q \in net |-> cut(q)]
  <2>1. \A q \in net : f[q].slot = q.slot
    BY <1>2 DEF Same
  <2>2. \A r \in requests' : Sound(r) /\ \E q \in net : r = f[q]
    BY <1>1, <1>2
  <2>3. f = [q \in net |-> f[q]]
    OBVIOUS
  <2> HIDE DEF f
  <2> QED
    BY <2>1, <2>2, <2>3, NetMapped
<1>4. \A r \in requests' : r.live => r \in net /\ Wanted(r)
  BY <1>1, <1>2
<1>5. \A r \in requests' : r.kind = "fetch" => r.live
  BY <1>1
<1>6. \A r \in requests' : \E q \in net : Same(r, q)
  BY <1>1, <1>2
<1>7. ASSUME NEW q \in net, Wanted(q), q.kind # "fetch" \/ q.live,
             q.kind \in QueryKinds => q.newest \/ (q.kind = "tick" /\ q.live)
      PROVE  q \in requests'
  <2>1. cut(q) = q
    BY <1>2, <1>7
  <2>2. ~idle(q)
    BY <1>7 DEF QueryKinds
  <2> QED
    BY <1>1, <2>1, <2>2
<1>8. ASSUME NEW q \in net, q.kind \in QueryKinds, q.newest
      PROVE  \E r \in requests' : Same(r, q)
  <2>1. Same(cut(q), q)
    BY <1>2
  <2>2. ~idle(cut(q))
    BY <1>8, <2>1 DEF QueryKinds, Same
  <2> QED
    BY <1>1, <2>1, <2>2
<1> QED
  BY <1>3, <1>4, <1>5, <1>6, <1>7, <1>8

(* An effect runs again only if what it depends on has changed.            *)
LEMMA Deps ==
  /\ JobDeps' = JobDeps <=> route' = route /\ (PollsJob' <=> PollsJob)
  /\ ListDeps' = ListDeps <=> route' = route /\ tab' = tab /\ (PollsList' <=> PollsList)
<1>1. PollsJob \in BOOLEAN /\ PollsJob' \in BOOLEAN /\ PollsList \in BOOLEAN /\ PollsList' \in BOOLEAN
  BY DEF PollsJob, PollsList
<1> QED
  BY <1>1 DEF JobDeps, ListDeps
-----------------------------------------------------------------------------
(* The polls.                                                              *)

LEMMA VisitsType ==
  ASSUME TypedPage
  PROVE  Visits \in Nat /\ Visits <= MaxHides /\ left.hides \in Nat /\ MaxHides \in Nat
BY ScreenConstants DEF TypedPage, Visits

LEMMA LiveFinite ==
  ASSUME NEW net, IsFiniteSet(net), NEW kind
  PROVE  /\ IsFiniteSet(LiveOnes(net, kind)) /\ Cardinality(LiveOnes(net, kind)) \in Nat
         /\ LiveOnes(net, kind) = {} => Cardinality(LiveOnes(net, kind)) = 0
<1>1. IsFiniteSet(LiveOnes(net, kind))
  BY FS_Subset DEF LiveOnes
<1> QED
  BY <1>1, FS_CardinalityType, FS_EmptySet

(* A poll that an event leaves as it should be is so after the effects of  *)
(* its render, whether they run it again or not.                           *)
LEMMA PollThroughEffects ==
  ASSUME NEW net, IsFiniteSet(net), NEW kind, NEW now, IsFiniteSet(now),
         NEW before \in BOOLEAN, NEW after \in BOOLEAN, NEW same \in BOOLEAN, same => (after <=> before),
         NEW poll \in Polls, NEW visits \in Nat, visits <= MaxHides, NEW paused \in BOOLEAN,
         PollGoesOn(before, poll, LiveOnes(net, kind), paused),
         Chains(poll, LiveOnes(net, kind), visits),
         \A r \in now : r.kind = kind /\ r.live => r \in net /\ same,
         \A q \in net : q.kind = kind /\ q.live /\ same => q \in now,
         NEW new, new = IF same THEN poll ELSE IF after THEN StartPolling ELSE NotPolling
  PROVE  /\ PollGoesOn(after, new, LiveOnes(now, kind), paused)
         /\ Chains(new, LiveOnes(now, kind), visits)
         /\ new \in Polls
<1>1. CASE same
  <2>1. LiveOnes(now, kind) = LiveOnes(net, kind)
    BY <1>1 DEF LiveOnes
  <2> QED
    BY <1>1, <2>1 DEF PollGoesOn, Chains
<1>2. CASE ~same
  <2>1. LiveOnes(now, kind) = {}
    BY <1>2 DEF LiveOnes
  <2>2. Cardinality(LiveOnes(now, kind)) = 0
    BY <2>1, LiveFinite
  <2>3. new \in Polls /\ (new.held => new.armed > 0) /\ new.armed <= 1
        /\ (~after => new = NotPolling) /\ (after => new.armed > 0)
    BY <1>2 DEF Polls, StartPolling, NotPolling
  <2>4. new.armed \in Nat /\ MaxHides \in Nat
    BY <2>3, ScreenConstants DEF Polls
  <2> QED
    BY <2>1, <2>2, <2>3, <2>4 DEF PollGoesOn, Chains
<1> QED
  BY <1>1, <1>2

(* A tick more, or a timer for a tick.                                     *)
LEMMA TickCounts ==
  ASSUME NEW net, IsFiniteSet(net), NEW kind, NEW m
  PROVE  /\ m \notin net /\ m.kind = kind /\ m.live =>
              Cardinality(LiveOnes(net \union {m}, kind)) = Cardinality(LiveOnes(net, kind)) + 1
         /\ m \in net /\ m.kind = kind /\ m.live =>
              Cardinality(LiveOnes(net \ {m}, kind)) = Cardinality(LiveOnes(net, kind)) - 1
         /\ m.kind # kind \/ ~m.live =>
              /\ LiveOnes(net \union {m}, kind) = LiveOnes(net, kind)
              /\ LiveOnes(net \ {m}, kind) = LiveOnes(net, kind)
<1>1. ASSUME m \notin net, m.kind = kind, m.live
      PROVE  Cardinality(LiveOnes(net \union {m}, kind)) = Cardinality(LiveOnes(net, kind)) + 1
  <2>1. LiveOnes(net \union {m}, kind) = LiveOnes(net, kind) \union {m} /\ m \notin LiveOnes(net, kind)
    BY <1>1 DEF LiveOnes
  <2> QED
    BY <2>1, LiveFinite, FS_AddElement
<1>2. ASSUME m \in net, m.kind = kind, m.live
      PROVE  Cardinality(LiveOnes(net \ {m}, kind)) = Cardinality(LiveOnes(net, kind)) - 1
  <2>1. LiveOnes(net \ {m}, kind) = LiveOnes(net, kind) \ {m} /\ m \in LiveOnes(net, kind)
    BY <1>2 DEF LiveOnes
  <2> QED
    BY <2>1, LiveFinite, FS_RemoveElement
<1>3. ASSUME m.kind # kind \/ ~m.live
      PROVE  /\ LiveOnes(net \union {m}, kind) = LiveOnes(net, kind)
             /\ LiveOnes(net \ {m}, kind) = LiveOnes(net, kind)
  BY <1>3 DEF LiveOnes
<1> QED
  BY <1>1, <1>2, <1>3

(* The four things an event does to a poll: nothing, a tick in place of a  *)
(* timer, a timer in place of a tick, one more tick when the page is shown.*)
LEMMA TimerTicks ==
  ASSUME NEW net, IsFiniteSet(net), NEW kind, NEW m, m \notin net, m.kind = kind, m.live,
         NEW poll \in Polls, NEW theHeld \in BOOLEAN, CanFire(poll, theHeld),
         NEW wanted \in BOOLEAN, NEW visits \in Nat, NEW paused \in BOOLEAN, ~paused,
         PollGoesOn(wanted, poll, LiveOnes(net, kind), paused),
         Chains(poll, LiveOnes(net, kind), visits)
  PROVE  /\ Fire(poll, theHeld) \in Polls
         /\ PollGoesOn(wanted, Fire(poll, theHeld), LiveOnes(net \union {m}, kind), paused)
         /\ Chains(Fire(poll, theHeld), LiveOnes(net \union {m}, kind), visits)
<1> DEFINE new == Fire(poll, theHeld)
<1>1. poll.armed \in Nat /\ poll.armed > 0 /\ poll.held \in BOOLEAN
  BY DEF Chains, CanFire, Polls
<1>2. wanted
  BY <1>1 DEF PollGoesOn, NotPolling
<1>3. new.armed = poll.armed - 1 /\ new \in Polls
  BY <1>1 DEF Fire, Polls
<1>4. new.held => new.armed > 0
  <2>1. CASE theHeld = TRUE
    <3>1. new.held = FALSE
      BY <1>1, <2>1 DEF Fire
    <3> QED
      BY <3>1
  <2>2. CASE theHeld = FALSE
    <3>1. poll.held => poll.armed > 1
      BY <1>1, <2>2 DEF CanFire
    <3>2. new.held => poll.held
      BY <1>1, <2>2 DEF Fire
    <3> QED
      BY <1>1, <1>3, <3>1, <3>2
  <2> QED
    BY <2>1, <2>2
<1>5. Cardinality(LiveOnes(net \union {m}, kind)) = Cardinality(LiveOnes(net, kind)) + 1
  BY TickCounts
<1>6. m \in LiveOnes(net \union {m}, kind)
  BY DEF LiveOnes
<1>7. Cardinality(LiveOnes(net, kind)) \in Nat /\ MaxHides \in Nat
  BY LiveFinite, ScreenConstants
<1> HIDE DEF new
<1>8. PollGoesOn(wanted, new, LiveOnes(net \union {m}, kind), paused)
  BY <1>2, <1>6 DEF PollGoesOn
<1>9. Chains(new, LiveOnes(net \union {m}, kind), visits)
  BY <1>1, <1>3, <1>4, <1>5, <1>7 DEF Chains
<1> QED
  BY <1>3, <1>8, <1>9 DEF new

LEMMA TimerEnds ==
  ASSUME NEW net, IsFiniteSet(net), NEW kind,
         NEW poll \in Polls, NEW theHeld \in BOOLEAN, CanFire(poll, theHeld),
         NEW wanted \in BOOLEAN, NEW visits \in Nat,
         PollGoesOn(wanted, poll, LiveOnes(net, kind), TRUE),
         Chains(poll, LiveOnes(net, kind), visits)
  PROVE  /\ Fire(poll, theHeld) \in Polls
         /\ PollGoesOn(wanted, Fire(poll, theHeld), LiveOnes(net, kind), TRUE)
         /\ Chains(Fire(poll, theHeld), LiveOnes(net, kind), visits)
<1> DEFINE new == Fire(poll, theHeld)
<1>1. poll.armed \in Nat /\ poll.armed > 0 /\ poll.held \in BOOLEAN
  BY DEF Chains, CanFire, Polls
<1>2. wanted
  BY <1>1 DEF PollGoesOn, NotPolling
<1>3. new.armed = poll.armed - 1 /\ new \in Polls
  BY <1>1 DEF Fire, Polls
<1>4. new.held => new.armed > 0
  <2>1. CASE theHeld = TRUE
    <3>1. new.held = FALSE
      BY <1>1, <2>1 DEF Fire
    <3> QED
      BY <3>1
  <2>2. CASE theHeld = FALSE
    <3>1. poll.held => poll.armed > 1
      BY <1>1, <2>2 DEF CanFire
    <3>2. new.held => poll.held
      BY <1>1, <2>2 DEF Fire
    <3> QED
      BY <1>1, <1>3, <3>1, <3>2
  <2> QED
    BY <2>1, <2>2
<1>5. Cardinality(LiveOnes(net, kind)) \in Nat /\ MaxHides \in Nat
  BY LiveFinite, ScreenConstants
<1> HIDE DEF new
<1>6. PollGoesOn(wanted, new, LiveOnes(net, kind), TRUE)
  BY <1>2 DEF PollGoesOn
<1>7. Chains(new, LiveOnes(net, kind), visits)
  BY <1>1, <1>3, <1>4, <1>5 DEF Chains
<1> QED
  BY <1>3, <1>6, <1>7 DEF new

LEMMA TickRearms ==
  ASSUME NEW net, IsFiniteSet(net), NEW kind, NEW m \in net, m.kind = kind, m.live,
         NEW poll \in Polls, NEW wanted \in BOOLEAN, NEW visits \in Nat, NEW paused \in BOOLEAN,
         PollGoesOn(wanted, poll, LiveOnes(net, kind), paused),
         Chains(poll, LiveOnes(net, kind), visits)
  PROVE  /\ Rearm(poll) \in Polls
         /\ PollGoesOn(wanted, Rearm(poll), LiveOnes(net \ {m}, kind), paused)
         /\ Chains(Rearm(poll), LiveOnes(net \ {m}, kind), visits)
<1>1. poll.armed \in Nat /\ Rearm(poll) \in Polls /\ Rearm(poll).armed = poll.armed + 1
  BY DEF Polls, Rearm
<1>2. m \in LiveOnes(net, kind)
  BY DEF LiveOnes
<1>3. Cardinality(LiveOnes(net \ {m}, kind)) = Cardinality(LiveOnes(net, kind)) - 1
  BY TickCounts
<1>4. Cardinality(LiveOnes(net, kind)) \in Nat /\ MaxHides \in Nat
  BY LiveFinite, ScreenConstants
<1>5. PollGoesOn(wanted, Rearm(poll), LiveOnes(net \ {m}, kind), paused)
  BY <1>1, <1>2 DEF PollGoesOn
<1>6. Chains(Rearm(poll), LiveOnes(net \ {m}, kind), visits)
  BY <1>1, <1>3, <1>4 DEF Chains
<1> QED
  BY <1>1, <1>5, <1>6

LEMMA ShownTicks ==
  ASSUME NEW net, IsFiniteSet(net), NEW kind, NEW m, m \notin net, m.kind = kind, m.live,
         NEW poll \in Polls, NEW wanted, wanted = TRUE, NEW visits \in Nat, visits > 0,
         Chains(poll, LiveOnes(net, kind), visits)
  PROVE  /\ StopHeld(poll) \in Polls
         /\ PollGoesOn(wanted, StopHeld(poll), LiveOnes(net \union {m}, kind), FALSE)
         /\ Chains(StopHeld(poll), LiveOnes(net \union {m}, kind), visits - 1)
<1>1. poll.armed \in Nat /\ poll.held \in BOOLEAN
  BY DEF Polls
<1>2. /\ StopHeld(poll) \in Polls /\ StopHeld(poll).armed \in Nat
      /\ StopHeld(poll).armed <= poll.armed /\ ~StopHeld(poll).held
  BY <1>1 DEF StopHeld, Chains, Polls
<1>3. Cardinality(LiveOnes(net \union {m}, kind)) = Cardinality(LiveOnes(net, kind)) + 1
  BY TickCounts
<1>4. m \in LiveOnes(net \union {m}, kind)
  BY DEF LiveOnes
<1>5. Cardinality(LiveOnes(net, kind)) \in Nat /\ MaxHides \in Nat
  BY LiveFinite, ScreenConstants
<1>6. PollGoesOn(wanted, StopHeld(poll), LiveOnes(net \union {m}, kind), FALSE)
  BY <1>4 DEF PollGoesOn
<1>7. Chains(StopHeld(poll), LiveOnes(net \union {m}, kind), visits - 1)
  BY <1>1, <1>2, <1>3, <1>5 DEF Chains
<1> QED
  BY <1>2, <1>6, <1>7

LEMMA StoppedStays ==
  /\ StopHeld(NotPolling) = NotPolling
  /\ \A theHeld \in BOOLEAN : ~CanFire(NotPolling, theHeld)
  /\ NotPolling \in Polls
BY DEF StopHeld, NotPolling, CanFire, Polls
-----------------------------------------------------------------------------
(* The job.                                                                *)

LEMMA JobThroughEffects ==
  ASSUME NEW net, Net(net), \A q \in net : q.kind \in JobKinds,
         NEW poll \in Polls, NEW list, list = NotPolling, Effects(net, poll, list),
         watched = "job", watched' = "job", query' = Settle(FreshQuery, FALSE), TypedPage',
         loading' /\ route'.job # NoJob => \E q \in net : EndsLoading(q) /\ q.at = route',
         route'.job = NoJob => full' = NoFull,
         full' # NoFull => Owner[full'.job] = route'.project,
         full'.job \notin {NoJob, route'.job} =>
           \E q \in net : q.kind = "fetch" /\ q.live /\ q.at = route',
         PollGoesOn(PollsJob, poll, LiveOnes(net, "poll"), hidden'),
         Chains(poll, LiveOnes(net, "poll"), Visits')
  PROVE  JobInv'
<1> DEFINE same == JobDeps' = JobDeps
<1>1. /\ Net(requests')
      /\ \A r \in requests' : r.live => r \in net /\ Wanted(r)
      /\ \A r \in requests' : r.kind = "fetch" => r.live
      /\ \A r \in requests' : \E q \in net : Same(r, q)
      /\ \A q \in net : Wanted(q) /\ (q.kind # "fetch" \/ q.live)
                          /\ (q.kind \in QueryKinds => q.newest \/ (q.kind = "tick" /\ q.live)) =>
           q \in requests'
  BY EffectsNet
<1>2. \A r \in requests' : r.kind \in JobKinds
  BY <1>1 DEF Same
<1>3. \A r \in requests' : r.kind = "fetch" => r.live /\ r.at = route'
  BY <1>1 DEF Wanted
<1>4. \A q \in net : EndsLoading(q) /\ q.at = route' => q \in requests'
  BY <1>1 DEF EndsLoading, Wanted, QueryKinds
<1>5. ~PollsList /\ ~PollsList'
  BY DEF PollsList
<1>6. polls' = [job  |-> IF same THEN poll ELSE IF PollsJob' THEN StartPolling ELSE NotPolling,
                list |-> NotPolling]
  <2>1. polls' = [job  |-> IF same THEN poll ELSE IF PollsJob' THEN StartPolling ELSE NotPolling,
                  list |-> IF ListDeps' = ListDeps THEN list
                           ELSE IF PollsList' THEN StartPolling ELSE NotPolling]
    BY DEF Effects
  <2> HIDE DEF same
  <2> QED
    BY <2>1, <1>5
<1>7. /\ PollGoesOn(PollsJob', polls'.job, LiveOnes(requests', "poll"), hidden')
      /\ Chains(polls'.job, LiveOnes(requests', "poll"), Visits')
      /\ polls'.job \in Polls
  <2>1. PollsJob \in BOOLEAN /\ PollsJob' \in BOOLEAN /\ same \in BOOLEAN /\ hidden' \in BOOLEAN
    BY DEF PollsJob, TypedPage
  <2>2. same => (PollsJob' <=> PollsJob)
    BY Deps
  <2>3. Visits' \in Nat /\ Visits' <= MaxHides
    BY ScreenConstants DEF TypedPage, Visits
  <2>4. \A r \in requests' : r.kind = "poll" /\ r.live => r \in net /\ same
    BY <1>1 DEF Wanted
  <2>5. \A q \in net : q.kind = "poll" /\ q.live /\ same => q \in requests'
    BY <1>1 DEF Wanted, QueryKinds
  <2>6. IsFiniteSet(net) /\ IsFiniteSet(requests')
    BY <1>1 DEF Net
  <2>7. polls'.job = IF same THEN poll ELSE IF PollsJob' THEN StartPolling ELSE NotPolling
    BY <1>6
  <2> HIDE DEF same
  <2> QED
    BY <2>1, <2>2, <2>3, <2>4, <2>5, <2>6, <2>7, PollThroughEffects
<1>8. Typed'
  <2>1. polls' \in [job : Polls, list : Polls]
    BY <1>6, <1>7, StoppedStays
  <2> QED
    BY <1>1, <2>1 DEF Typed, Net, Slots, Sound, Requests, JobAnswers, ListAnswers, Lists, Answers
<1>9. loading' /\ route'.job # NoJob => \E r \in requests' : EndsLoading(r) /\ r.at = route'
  BY <1>4
<1>10. JobIsOfRoute'
  BY <1>4 DEF JobIsOfRoute, EndsLoading
<1> QED
  BY <1>2, <1>3, <1>6, <1>7, <1>8, <1>9, <1>10 DEF JobInv, FetchesAreWanted, EndsLoading, LiveOnes
Fulls == {NoFull} \union [job : Jobs, version : 0..MaxVersion]
Faulty == {"fetch", "refresh"}

LEMMA AnswerShown ==
  ASSUME Typed, NEW r \in requests, r.kind \in JobKinds, r.answer # Pending, r.answer # Lost,
         NEW cleared, ShowAnswer(r, cleared)
  PROVE  /\ full' \in Fulls /\ errors' \subseteq Faulty
         /\ r.at.job \in Jobs
         /\ full' # NoFull => full'.job = r.at.job /\ Owner[full'.job] = r.at.project
<1>1. r.at.job \in Jobs /\ r.answer \in JobAnswers /\ Sound(r)
  BY DEF Typed, Net, Sound
<1>2. r.answer.version \in 0..MaxVersion
  BY <1>1 DEF JobAnswers
<1>3. errors \subseteq Faulty
  BY DEF Typed, TypedPage, Faulty
<1>4. CASE InProject(r)
  <2>1. full' = [job |-> r.at.job, version |-> r.answer.version] /\ errors' = errors \ cleared
    BY <1>4 DEF ShowAnswer
  <2>2. full' \in Fulls /\ full'.job = r.at.job
    BY <1>1, <1>2, <2>1 DEF Fulls
  <2>3. errors' \subseteq Faulty
    BY <1>3, <2>1
  <2> QED
    BY <1>1, <1>4, <2>2, <2>3 DEF InProject
<1>5. CASE ~InProject(r)
  BY <1>1, <1>3, <1>5 DEF ShowAnswer, Fulls, Faulty
<1> QED
  BY <1>4, <1>5

LEMMA NoJobIsShown ==
  /\ NoFull \in Fulls /\ NoFull.job = NoJob
  /\ \A f \in Fulls : f # NoFull => f.job \in Jobs /\ f.job # NoJob
BY ScreenConstants DEF Fulls, NoFull

(* What is left when the answer to a request of the job is handled.        *)
LEMMA AnsweredLeaves ==
  ASSUME JobInv, NEW r \in requests
  PROVE  /\ Net(requests \ {r}) /\ \A q \in requests \ {r} : q.kind \in JobKinds
         /\ polls.job \in Polls /\ polls.list = NotPolling
         /\ r.kind # "poll" \/ ~r.live =>
              LiveOnes(requests \ {r}, "poll") = LiveOnes(requests, "poll")
BY SubNet, TickCounts DEF JobInv, Typed, Net

LEMMA FetchKeepsJob ==
  ASSUME JobInv, NEW r \in requests, FetchArrives(r)
  PROVE  JobInv'
<1>1. /\ Net(requests \ {r}) /\ \A q \in requests \ {r} : q.kind \in JobKinds
      /\ polls.job \in Polls /\ polls.list = NotPolling
      /\ LiveOnes(requests \ {r}, "poll") = LiveOnes(requests, "poll")
  BY AnsweredLeaves DEF FetchArrives
<1>2. r.kind = "fetch" /\ r.at = route
  BY DEF FetchArrives, JobInv, FetchesAreWanted
<1>3. /\ full' \in Fulls /\ errors' \subseteq Faulty
      /\ full' # NoFull => full'.job = route.job /\ Owner[full'.job] = route.project
      /\ route.job # NoJob
  <2>1. route.job \in Jobs
    BY <1>2 DEF JobInv, Typed, Net, Sound, JobKinds
  <2>2. CASE r.answer = Lost
    BY <2>1, <2>2, NoJobIsShown, ScreenConstants DEF FetchArrives, JobInv, Typed, TypedPage, Faulty
  <2>3. CASE r.answer # Lost
    BY <1>2, <2>1, <2>3, AnswerShown, ScreenConstants DEF FetchArrives, JobInv, JobKinds
  <2> QED
    BY <2>2, <2>3
<1>4. TypedPage'
  BY <1>3 DEF FetchArrives, JobInv, Typed, TypedPage, Visits, Fulls, Faulty
<1>5. Effects(requests \ {r}, polls.job, polls.list) /\ ~loading' /\ route' = route
      /\ watched' = watched /\ query' = query /\ hidden' = hidden /\ left' = left
  BY DEF FetchArrives
<1>6. Visits' = Visits
  BY <1>5 DEF Visits
<1> QED
  BY <1>1, <1>3, <1>4, <1>5, <1>6, JobThroughEffects, NoJobIsShown DEF JobInv

LEMMA PollKeepsJob ==
  ASSUME JobInv, NEW r \in requests, PollArrives(r)
  PROVE  JobInv'
<1> DEFINE poll == IF r.live THEN Rearm(polls.job) ELSE polls.job
<1>1. /\ Net(requests \ {r}) /\ \A q \in requests \ {r} : q.kind \in JobKinds
      /\ polls.job \in Polls /\ polls.list = NotPolling
      /\ ~r.live => LiveOnes(requests \ {r}, "poll") = LiveOnes(requests, "poll")
      /\ r.kind = "poll"
  BY AnsweredLeaves DEF PollArrives
<1>2. \/ full' = full
      \/ /\ full' \in Fulls
         /\ full' # NoFull => full'.job = route.job /\ Owner[full'.job] = route.project
         /\ route.job # NoJob
  <2>1. CASE r.at # route
    BY <2>1 DEF PollArrives
  <2>2. CASE r.answer = Lost
    BY <2>2 DEF PollArrives
  <2>3. CASE r.at = route /\ r.answer # Lost
    BY <1>1, <2>3, AnswerShown, ScreenConstants DEF PollArrives, JobInv, JobKinds
  <2> QED
    BY <2>1, <2>2, <2>3
<1>3. errors' \subseteq Faulty
  <2>1. errors \subseteq Faulty
    BY DEF JobInv, Typed, TypedPage, Faulty
  <2>2. CASE r.at # route
    BY <2>1, <2>2 DEF PollArrives
  <2>3. CASE r.answer = Lost
    BY <2>1, <2>3 DEF PollArrives, Faulty
  <2>4. CASE r.at = route /\ r.answer # Lost
    BY <1>1, <2>4, AnswerShown DEF PollArrives, JobInv, JobKinds
  <2> QED
    BY <2>2, <2>3, <2>4
<1>4. TypedPage'
  BY <1>2, <1>3 DEF PollArrives, JobInv, Typed, TypedPage, Visits, Fulls, Faulty
<1>5. Effects(requests \ {r}, poll, polls.list) /\ loading' = loading /\ route' = route
      /\ watched' = watched /\ query' = query /\ hidden' = hidden /\ left' = left
  BY DEF PollArrives
<1>6. Visits' = Visits /\ Visits \in Nat
  BY <1>5, VisitsType DEF Visits, JobInv, Typed
<1>7. /\ poll \in Polls
      /\ PollGoesOn(PollsJob, poll, LiveOnes(requests \ {r}, "poll"), hidden)
      /\ Chains(poll, LiveOnes(requests \ {r}, "poll"), Visits)
  <2>1. /\ IsFiniteSet(requests) /\ hidden \in BOOLEAN
        /\ PollGoesOn(PollsJob, polls.job, LiveOnes(requests, "poll"), hidden)
        /\ Chains(polls.job, LiveOnes(requests, "poll"), Visits)
    BY DEF JobInv, Typed, TypedPage, Net
  <2>2. PollsJob \in BOOLEAN
    BY DEF PollsJob
  <2>3. CASE r.live
    <3>1. poll = Rearm(polls.job)
      BY <2>3
    <3> HIDE DEF poll
    <3>2. /\ Rearm(polls.job) \in Polls
          /\ PollGoesOn(PollsJob, Rearm(polls.job), LiveOnes(requests \ {r}, "poll"), hidden)
          /\ Chains(Rearm(polls.job), LiveOnes(requests \ {r}, "poll"), Visits)
      <4>1. IsFiniteSet(requests)
        BY <2>1
      <4>2. r \in requests /\ r.kind = "poll" /\ r.live
        BY <1>1, <2>3
      <4>3. polls.job \in Polls
        BY <1>1
      <4>4. Visits \in Nat /\ hidden \in BOOLEAN
        BY <1>6, <2>1
      <4>5. PollGoesOn(PollsJob, polls.job, LiveOnes(requests, "poll"), hidden)
        BY <2>1
      <4>6. Chains(polls.job, LiveOnes(requests, "poll"), Visits)
        BY <2>1
      <4> QED
        BY <4>1, <4>2, <4>3, <4>4, <4>5, <4>6, <2>2, TickRearms
    <3> QED
      BY <3>1, <3>2
  <2>4. CASE ~r.live
    BY <1>1, <2>1, <2>4
  <2> QED
    BY <2>3, <2>4
<1>8. /\ loading /\ route.job # NoJob => \E q \in requests \ {r} : EndsLoading(q) /\ q.at = route
      /\ full.job \notin {NoJob, route.job} =>
           \E q \in requests \ {r} : q.kind = "fetch" /\ q.live /\ q.at = route
  BY <1>1 DEF JobInv, EndsLoading, JobIsOfRoute
<1>9. /\ route.job = NoJob => full' = NoFull
      /\ full' # NoFull => Owner[full'.job] = route.project
      /\ full'.job \notin {NoJob, route.job} =>
           \E q \in requests \ {r} : q.kind = "fetch" /\ q.live /\ q.at = route
  BY <1>2, <1>8, NoJobIsShown DEF JobInv, JobIsOfRoute
<1> HIDE DEF poll
<1> QED
  BY <1>1, <1>4, <1>5, <1>6, <1>7, <1>8, <1>9, JobThroughEffects DEF JobInv

LEMMA RefreshKeepsJob ==
  ASSUME JobInv, NEW r \in requests, RefreshArrives(r)
  PROVE  JobInv'
<1>1. /\ Net(requests \ {r}) /\ \A q \in requests \ {r} : q.kind \in JobKinds
      /\ polls.job \in Polls /\ polls.list = NotPolling
      /\ LiveOnes(requests \ {r}, "poll") = LiveOnes(requests, "poll")
      /\ r.kind = "refresh"
  BY AnsweredLeaves DEF RefreshArrives
<1>2. \/ full' = full
      \/ /\ full' \in Fulls
         /\ full' # NoFull => full'.job = route.job /\ Owner[full'.job] = route.project
         /\ route.job # NoJob
  <2>1. CASE r.at # route
    BY <2>1 DEF RefreshArrives, page
  <2>2. CASE r.answer = Lost
    BY <2>2 DEF RefreshArrives, page
  <2>3. CASE r.at = route /\ r.answer # Lost
    BY <1>1, <2>3, AnswerShown, ScreenConstants DEF RefreshArrives, JobInv, JobKinds
  <2> QED
    BY <2>1, <2>2, <2>3
<1>3. errors' \subseteq Faulty
  <2>1. errors \subseteq Faulty
    BY DEF JobInv, Typed, TypedPage, Faulty
  <2>2. CASE r.at # route
    BY <2>1, <2>2 DEF RefreshArrives, page
  <2>3. CASE r.answer = Lost
    BY <2>1, <2>3 DEF RefreshArrives, Faulty, page
  <2>4. CASE r.at = route /\ r.answer # Lost
    BY <1>1, <2>4, AnswerShown DEF RefreshArrives, JobInv, JobKinds
  <2> QED
    BY <2>2, <2>3, <2>4
<1>4. loading' = FALSE \/ (loading' = loading /\ r.at # route)
  BY DEF RefreshArrives, page
<1>5. Effects(requests \ {r}, polls.job, polls.list) /\ route' = route
      /\ watched' = watched /\ query' = query /\ hidden' = hidden /\ left' = left
  BY DEF RefreshArrives
<1>6. TypedPage'
  BY <1>2, <1>3, <1>4 DEF RefreshArrives, JobInv, Typed, TypedPage, Visits, Fulls, Faulty
<1>7. Visits' = Visits
  BY <1>5 DEF Visits
<1>8. /\ loading' /\ route.job # NoJob => \E q \in requests \ {r} : EndsLoading(q) /\ q.at = route
      /\ full.job \notin {NoJob, route.job} =>
           \E q \in requests \ {r} : q.kind = "fetch" /\ q.live /\ q.at = route
  BY <1>1, <1>4 DEF JobInv, EndsLoading, JobIsOfRoute
<1>9. /\ route.job = NoJob => full' = NoFull
      /\ full' # NoFull => Owner[full'.job] = route.project
      /\ full'.job \notin {NoJob, route.job} =>
           \E q \in requests \ {r} : q.kind = "fetch" /\ q.live /\ q.at = route
  BY <1>2, <1>8, NoJobIsShown DEF JobInv, JobIsOfRoute
<1> QED
  BY <1>1, <1>5, <1>6, <1>7, <1>8, <1>9, JobThroughEffects DEF JobInv
(* An answer that comes in changes no live request into another.           *)
LEMMA ReplacedLives ==
  ASSUME NEW net, IsFiniteSet(net), NEW r \in net, NEW m, m \notin net \ {r},
         m.kind = r.kind, m.live = r.live, NEW kind
  PROVE  /\ Cardinality(LiveOnes((net \ {r}) \union {m}, kind)) = Cardinality(LiveOnes(net, kind))
         /\ LiveOnes((net \ {r}) \union {m}, kind) = {} <=> LiveOnes(net, kind) = {}
<1> DEFINE rest == net \ {r}
<1>1. IsFiniteSet(rest)
  BY FS_RemoveElement
<1>2. CASE r.kind = kind /\ r.live
  <2>1. Cardinality(LiveOnes(rest, kind)) = Cardinality(LiveOnes(net, kind)) - 1
    BY <1>2, TickCounts
  <2>2. Cardinality(LiveOnes(rest \union {m}, kind)) = Cardinality(LiveOnes(rest, kind)) + 1
    <3> HIDE DEF rest
    <3>1. m \notin rest
      BY DEF rest
    <3>2. m.kind = kind /\ m.live
      BY <1>2
    <3> QED
      BY <1>1, <3>1, <3>2, TickCounts
  <2>3. Cardinality(LiveOnes(net, kind)) \in Nat
    BY LiveFinite
  <2>4. m \in LiveOnes(rest \union {m}, kind) /\ r \in LiveOnes(net, kind)
    BY <1>2 DEF LiveOnes
  <2> HIDE DEF rest
  <2>5. Cardinality(LiveOnes(rest \union {m}, kind)) = Cardinality(LiveOnes(net, kind))
    BY <2>1, <2>2, <2>3
  <2> QED
    BY <2>4, <2>5 DEF rest
<1>3. CASE ~(r.kind = kind /\ r.live)
  <2>1. LiveOnes(rest \union {m}, kind) = LiveOnes(net, kind)
    BY <1>3 DEF LiveOnes
  <2> QED
    BY <2>1
<1> QED
  BY <1>2, <1>3

(* A request is answered, or fails.                                        *)
Answered(r) ==
  \E a \in Answers :
    /\ r.kind \in JobKinds => a \in JobAnswers
    /\ r.kind \in QueryKinds => a \in ListAnswers(r.at.project)
    /\ a.kind = "list" => a.versions = [j \in JobsOf(r.at.project) |-> version[j]]
    /\ r.answer = Pending
    /\ requests' = (requests \ {r}) \union {[r EXCEPT !.answer = a]}

LEMMA ServeAnswers ==
  ASSUME TypedPage, NEW r \in requests, Sound(r), Serve(r) \/ Lose(r)
  PROVE  /\ Answered(r) /\ TypedPage'
         /\ UNCHANGED <<version, route, tab, page, polls, watched, query, hidden, left.hides>>
<1>1. CASE Lose(r)
  <2>1. Lost \in Answers /\ Lost \in JobAnswers /\ Lost \in ListAnswers(r.at.project)
        /\ Lost.kind # "list"
    BY DEF Answers, JobAnswers, ListAnswers, Lost
  <2>2. Answered(r)
    BY <1>1, <2>1 DEF Lose, Answered
  <2>3. left' \in [faults : Nat, moves : Nat, hides : Nat] /\ left'.hides = left.hides
    BY <1>1 DEF Lose, Spend, TypedPage
  <2>4. UNCHANGED <<version, route, tab, page, polls, watched, query, hidden>>
    BY <1>1 DEF Lose
  <2>5. TypedPage'
    BY <2>3, <2>4 DEF TypedPage, Visits, page
  <2> QED
    BY <2>2, <2>3, <2>4, <2>5
<1>2. CASE Serve(r)
  <2>1. UNCHANGED <<version, route, tab, page, polls, watched, query, hidden, left>>
    BY <1>2 DEF Serve
  <2>2. TypedPage' /\ left'.hides = left.hides
    BY <2>1 DEF TypedPage, Visits, page
  <2>3. CASE r.kind \in QueryKinds
    <3> DEFINE served == [kind |-> "list", versions |-> [j \in JobsOf(r.at.project) |-> version[j]]]
    <3>1. r.at.project \in Projects
      BY DEF Sound, Requests, Routes
    <3>2. served.versions \in Lists(r.at.project)
      BY DEF Lists, JobsOf, TypedPage
    <3>3. served \in Answers /\ served \in ListAnswers(r.at.project)
      BY <3>1, <3>2 DEF Answers, ListAnswers, Lists
    <3>4. r.kind \notin JobKinds
      BY <2>3 DEF QueryKinds, JobKinds
    <3>5. requests' = (requests \ {r}) \union {[r EXCEPT !.answer = served]} /\ r.answer = Pending
      BY <1>2, <2>3 DEF Serve, QueryKinds
    <3>6. Answered(r)
      BY <3>3, <3>4, <3>5 DEF Answered
    <3> QED
      BY <2>1, <2>2, <3>6
  <2>4. CASE r.kind \notin QueryKinds
    <3> DEFINE served == [kind |-> "job", version |-> version[r.at.job]]
    <3>1. r.kind \in JobKinds
      BY <2>4 DEF Sound, Requests, Kinds, JobKinds, QueryKinds
    <3>2. version[r.at.job] \in 0..MaxVersion
      BY <3>1 DEF Sound, TypedPage
    <3>3. served \in JobAnswers /\ served \in Answers
      BY <3>2 DEF Answers, JobAnswers
    <3>4. requests' = (requests \ {r}) \union {[r EXCEPT !.answer = served]} /\ r.answer = Pending
      BY <1>2, <2>4 DEF Serve, QueryKinds
    <3>5. Answered(r)
      BY <2>4, <3>3, <3>4 DEF Answered
    <3> QED
      BY <2>1, <2>2, <3>5
  <2> QED
    BY <2>3, <2>4
<1> QED
  BY <1>1, <1>2

LEMMA AnswerInNet ==
  ASSUME Net(requests), NEW r \in requests, Answered(r)
  PROVE  \E m : /\ requests' = (requests \ {r}) \union {m} /\ Net(requests')
                /\ m.kind = r.kind /\ m.at = r.at /\ m.live = r.live /\ m.newest = r.newest
                /\ m.answer.kind = "list" =>
                     m.answer.versions = [j \in JobsOf(r.at.project) |-> version[j]]
                /\ \A kind :
                     /\ Cardinality(LiveOnes(requests', kind)) = Cardinality(LiveOnes(requests, kind))
                     /\ LiveOnes(requests', kind) = {} <=> LiveOnes(requests, kind) = {}
<1>1. PICK a \in Answers :
        /\ r.kind \in JobKinds => a \in JobAnswers
        /\ r.kind \in QueryKinds => a \in ListAnswers(r.at.project)
        /\ a.kind = "list" => a.versions = [j \in JobsOf(r.at.project) |-> version[j]]
        /\ r.answer = Pending
        /\ requests' = (requests \ {r}) \union {[r EXCEPT !.answer = a]}
  BY DEF Answered
<1> DEFINE m == [r EXCEPT !.answer = a]
<1>2. /\ Net((requests \ {r}) \union {m}) /\ m.answer = a
      /\ m.slot = r.slot /\ m.kind = r.kind /\ m.at = r.at
      /\ m.live = r.live /\ m.newest = r.newest
  <2>1. a \in Answers /\ (r.kind \in JobKinds => a \in JobAnswers)
    BY <1>1
  <2>2. r.kind \in QueryKinds => a \in ListAnswers(r.at.project)
    BY <1>1
  <2>3. m = [r EXCEPT !.answer = a]
    OBVIOUS
  <2> HIDE DEF m
  <2> QED
    BY <2>1, <2>2, <2>3, AnsweredNet
<1>3. m \notin requests \ {r}
  BY <1>2 DEF Net, Slots
<1>4. requests' = (requests \ {r}) \union {m}
  BY <1>1
<1> HIDE DEF m
<1>5. IsFiniteSet(requests)
  BY DEF Net
<1>6. \A kind :
        /\ Cardinality(LiveOnes(requests', kind)) = Cardinality(LiveOnes(requests, kind))
        /\ LiveOnes(requests', kind) = {} <=> LiveOnes(requests, kind) = {}
  BY <1>2, <1>3, <1>4, <1>5, ReplacedLives
<1> QED
  BY <1>1, <1>2, <1>4, <1>6
LEMMA AnswerKeepsJob ==
  ASSUME JobInv, NEW r \in requests, Serve(r) \/ Lose(r)
  PROVE  JobInv'
<1>1. Answered(r) /\ TypedPage'
      /\ UNCHANGED <<version, route, tab, page, polls, watched, query, hidden, left.hides>>
  BY ServeAnswers DEF JobInv, Typed, Net
<1>2. PICK m : /\ requests' = (requests \ {r}) \union {m} /\ Net(requests')
               /\ m.kind = r.kind /\ m.at = r.at /\ m.live = r.live
               /\ \A kind :
                    /\ Cardinality(LiveOnes(requests', kind)) = Cardinality(LiveOnes(requests, kind))
                    /\ LiveOnes(requests', kind) = {} <=> LiveOnes(requests, kind) = {}
  BY <1>1, AnswerInNet DEF JobInv, Typed
<1>3. Typed'
  BY <1>1, <1>2 DEF JobInv, Typed, Net, Slots, Sound, Requests, JobAnswers, ListAnswers, Lists, Answers
<1>4. \A q \in requests' : q.kind \in JobKinds /\ (q.kind = "fetch" => q.live /\ q.at = route)
  BY <1>2 DEF JobInv, FetchesAreWanted
<1>5. /\ \A q \in requests : EndsLoading(q) /\ q.at = route =>
           \E s \in requests' : EndsLoading(s) /\ s.at = route
      /\ \A q \in requests : q.kind = "fetch" /\ q.live /\ q.at = route =>
           \E s \in requests' : s.kind = "fetch" /\ s.live /\ s.at = route
  BY <1>2 DEF EndsLoading
<1>6. /\ loading' = loading /\ route' = route /\ full' = full /\ (PollsJob' <=> PollsJob)
      /\ Visits' = Visits
  BY <1>1 DEF PollsJob, Visits, page
<1>7. JobIsOfRoute'
  BY <1>5, <1>6 DEF JobInv, JobIsOfRoute
<1>8. /\ PollGoesOn(PollsJob', polls.job, LiveOnes(requests', "poll"), hidden)
      /\ Chains(polls.job, LiveOnes(requests', "poll"), Visits)
  BY <1>2, <1>6 DEF JobInv, PollGoesOn, Chains
<1> QED
  BY <1>1, <1>3, <1>4, <1>5, <1>6, <1>7, <1>8
     DEF JobInv, FetchesAreWanted, EndsLoading, LiveOnes

LEMMA ChangeKeepsJob ==
  ASSUME JobInv, NEW j \in Jobs, ChangeJob(j)
  PROVE  JobInv'
<1>1. UNCHANGED <<route, tab, page, polls, watched, query, requests, hidden, left>>
  BY DEF ChangeJob
<1>2. version' \in [Jobs -> 0..MaxVersion]
  BY ScreenConstants DEF ChangeJob, JobInv, Typed, TypedPage
<1>3. Typed'
  BY <1>1, <1>2 DEF JobInv, Typed, TypedPage, Visits, page
<1> QED
  BY <1>1, <1>3 DEF JobInv, FetchesAreWanted, EndsLoading, JobIsOfRoute, PollsJob, Visits, page

LEMMA RefreshJobKeepsJob ==
  ASSUME JobInv, RefreshJob
  PROVE  JobInv'
<1>1. /\ requests' = Send(requests, "refresh", route) /\ loading' = TRUE
      /\ UNCHANGED <<version, route, tab, full, errors, polls, watched, query, hidden, left>>
  BY DEF RefreshJob
<1>2. route \in Routes /\ route.job \in Jobs /\ Net(requests) /\ Cardinality(requests) + 1 <= MaxNet
  BY DEF RefreshJob, RoomFor, JobInv, Typed, TypedPage, Routes
<1>3. "refresh" \in Kinds
  BY DEF Kinds
<1>4. PICK m : /\ Send(requests, "refresh", route) = requests \union {m}
               /\ Fresh(m, "refresh", route) /\ Net(requests \union {m})
  BY <1>2, <1>3, SendNet
<1>5. m.kind = "refresh" /\ m.at = route
  BY <1>4 DEF Fresh
<1>6. LiveOnes(requests', "poll") = LiveOnes(requests, "poll")
  BY <1>1, <1>4, <1>5 DEF LiveOnes
<1>7. Typed'
  <2>1. TypedPage'
    BY <1>1 DEF JobInv, Typed, TypedPage, Visits
  <2>2. Net(requests')
    BY <1>1, <1>4
  <2> QED
    BY <1>1, <2>1, <2>2
       DEF JobInv, Typed, Net, Slots, Sound, Requests, JobAnswers, ListAnswers, Lists, Answers
<1>8. \A q \in requests' : q.kind \in JobKinds /\ (q.kind = "fetch" => q.live /\ q.at = route)
  BY <1>1, <1>4, <1>5 DEF JobInv, FetchesAreWanted, JobKinds
<1>9. \E q \in requests' : EndsLoading(q) /\ q.at = route'
  BY <1>1, <1>4, <1>5 DEF EndsLoading
<1>10. JobIsOfRoute'
  BY <1>1, <1>4 DEF JobInv, JobIsOfRoute
<1>11. (PollsJob' <=> PollsJob) /\ Visits' = Visits
  BY <1>1 DEF PollsJob, Visits
<1>12. /\ PollGoesOn(PollsJob', polls.job, LiveOnes(requests', "poll"), hidden)
       /\ Chains(polls.job, LiveOnes(requests', "poll"), Visits)
  BY <1>6, <1>11 DEF JobInv, PollGoesOn, Chains
<1> QED
  BY <1>1, <1>7, <1>8, <1>9, <1>10, <1>11, <1>12
     DEF JobInv, FetchesAreWanted, EndsLoading, LiveOnes

LEMMA HiddenPage ==
  ASSUME TypedPage, Hide
  PROVE  TypedPage' /\ Visits' = Visits /\ hidden' = TRUE
         /\ UNCHANGED <<version, route, tab, page, polls, watched, query, requests>>
<1>1. left.hides \in Nat /\ left.hides > 0 /\ hidden = FALSE
  BY DEF Hide, Spend, TypedPage
<1>2. left' \in [faults : Nat, moves : Nat, hides : Nat] /\ left'.hides = left.hides - 1
  BY <1>1 DEF Hide, Spend, TypedPage
<1>3. hidden' = TRUE /\ UNCHANGED <<version, route, tab, page, polls, watched, query, requests>>
  BY DEF Hide
<1>4. Visits' = Visits
  BY <1>1, <1>2, <1>3 DEF Visits
<1>5. TypedPage'
  BY <1>2, <1>3, <1>4 DEF TypedPage, page
<1> QED
  BY <1>3, <1>4, <1>5

LEMMA HideKeepsJob ==
  ASSUME JobInv, Hide
  PROVE  JobInv'
<1>1. TypedPage' /\ Visits' = Visits /\ hidden' = TRUE
      /\ UNCHANGED <<version, route, tab, page, polls, watched, query, requests>>
  BY HiddenPage DEF JobInv, Typed
<1>2. PollsJob' <=> PollsJob
  BY <1>1 DEF PollsJob, page
<1>3. Typed'
  BY <1>1 DEF JobInv, Typed, Net, Slots, Sound, Requests, JobAnswers, ListAnswers, Lists, Answers
<1>4. PollGoesOn(PollsJob', polls.job, LiveOnes(requests, "poll"), TRUE)
  BY <1>2 DEF JobInv, PollGoesOn
<1> QED
  BY <1>1, <1>3, <1>4
     DEF JobInv, FetchesAreWanted, EndsLoading, JobIsOfRoute, page, LiveOnes
LEMMA NavigateKeepsJob ==
  ASSUME JobInv, NEW new \in Routes, Navigate(new)
  PROVE  JobInv'
<1> DEFINE net == IF new.job = NoJob THEN requests ELSE Send(requests, "fetch", new)
<1>1. /\ route' = new /\ UNCHANGED <<version, watched, hidden, query>> /\ Selected(new)
      /\ Effects(net, polls.job, polls.list)
      /\ Cardinality(requests) + 1 <= MaxNet
  BY DEF Navigate, RoomFor, JobInv
<1>2. /\ Net(net) /\ \A q \in net : q.kind \in JobKinds
      /\ LiveOnes(net, "poll") = LiveOnes(requests, "poll")
      /\ new.job # NoJob => \E q \in net : q.kind = "fetch" /\ q.live /\ q.at = new
  <2>1. CASE new.job = NoJob
    BY <2>1 DEF JobInv, Typed
  <2>2. CASE new.job # NoJob
    <3>1. new.job \in Jobs /\ "fetch" \in Kinds /\ Net(requests)
      BY <2>2 DEF Routes, Kinds, JobInv, Typed
    <3>2. PICK m : /\ Send(requests, "fetch", new) = requests \union {m}
                   /\ Fresh(m, "fetch", new) /\ Net(requests \union {m})
      BY <1>1, <3>1, SendNet
    <3>3. net = requests \union {m}
      BY <2>2, <3>2
    <3> HIDE DEF net
    <3> QED
      BY <3>2, <3>3 DEF Fresh, LiveOnes, JobInv, JobKinds
  <2> QED
    BY <2>1, <2>2
<1> HIDE DEF net
<1>3. /\ full' \in {NoFull, full} /\ errors' = {} /\ loading' \in BOOLEAN /\ tab' \in {"jobs", tab}
      /\ new.job = NoJob => full' = NoFull
      /\ full' # NoFull => full' = full /\ new.project = route.project
  BY <1>1 DEF Selected
<1>4. left' \in [faults : Nat, moves : Nat, hides : Nat] /\ left'.hides = left.hides
  BY DEF Navigate, Spend, JobInv, Typed, TypedPage
<1>5. Visits' = Visits
  BY <1>1, <1>4 DEF Visits
<1>6. TypedPage'
  BY <1>1, <1>3, <1>4, <1>5 DEF JobInv, Typed, TypedPage
<1>7. /\ full' # NoFull => Owner[full'.job] = new.project
      /\ full'.job \notin {NoJob, new.job} => new.job # NoJob
  BY <1>3, NoJobIsShown DEF JobInv, JobIsOfRoute
<1>8. new.job # NoJob => \E q \in net : EndsLoading(q) /\ q.at = new
  BY <1>2 DEF EndsLoading
<1>9. /\ PollGoesOn(PollsJob, polls.job, LiveOnes(net, "poll"), hidden')
      /\ Chains(polls.job, LiveOnes(net, "poll"), Visits')
      /\ polls.job \in Polls /\ polls.list = NotPolling
      /\ watched = "job" /\ watched' = "job" /\ query' = Settle(FreshQuery, FALSE)
  BY <1>1, <1>2, <1>5 DEF JobInv, Typed
<1> QED
  BY <1>1, <1>2, <1>3, <1>6, <1>7, <1>8, <1>9, JobThroughEffects

(* Sending a poll, which only a polling effect does.                       *)
LEMMA TickOfJob ==
  ASSUME JobInv, PollsJob, RoomFor(1)
  PROVE  \E m : /\ TickJob(requests) = requests \union {m}
                /\ m \notin requests /\ m.kind = "poll" /\ m.live
                /\ Net(requests \union {m})
<1>1. /\ route \in Routes /\ route.job \in Jobs /\ Net(requests)
      /\ Cardinality(requests) + 1 <= MaxNet /\ "poll" \in Kinds
  BY DEF PollsJob, JobInv, Typed, TypedPage, Routes, RoomFor, Kinds
<1>2. PICK m : /\ Send(requests, "poll", route) = requests \union {m}
               /\ Fresh(m, "poll", route) /\ m \notin requests /\ Net(requests \union {m})
  BY <1>1, SendNet
<1> QED
  BY <1>2 DEF TickJob, Fresh

LEMMA JobTimerKeepsJob ==
  ASSUME JobInv, NEW theHeld \in BOOLEAN, JobTimer(theHeld)
  PROVE  JobInv'
<1> DEFINE net == IF hidden THEN requests ELSE TickJob(requests)
           poll == Fire(polls.job, theHeld)
<1>1. /\ UNCHANGED <<version, route, tab, page, watched, query, hidden, left>>
      /\ Effects(net, poll, polls.list) /\ CanFire(polls.job, theHeld) /\ (hidden \/ RoomFor(1))
  BY DEF JobTimer
<1>2. TypedPage' /\ Visits' = Visits
  BY <1>1 DEF JobInv, Typed, TypedPage, Visits, page
<1>3. Visits \in Nat /\ PollsJob \in BOOLEAN
  BY VisitsType DEF JobInv, Typed, PollsJob
<1>4. /\ polls.job \in Polls /\ Net(requests) /\ IsFiniteSet(requests) /\ hidden \in BOOLEAN
      /\ PollGoesOn(PollsJob, polls.job, LiveOnes(requests, "poll"), hidden)
      /\ Chains(polls.job, LiveOnes(requests, "poll"), Visits)
      /\ polls.list = NotPolling
      /\ watched = "job" /\ watched' = "job" /\ query' = Settle(FreshQuery, FALSE)
  BY <1>1 DEF JobInv, Typed, TypedPage, Net
<1>5. /\ Net(net) /\ \A q \in net : q.kind \in JobKinds
      /\ requests \subseteq net
      /\ poll \in Polls
      /\ PollGoesOn(PollsJob, poll, LiveOnes(net, "poll"), hidden)
      /\ Chains(poll, LiveOnes(net, "poll"), Visits)
  <2>1. CASE hidden
    <3>1. net = requests
      BY <2>1
    <3> HIDE DEF net, poll
    <3>2. hidden = TRUE
      BY <2>1, <1>4
    <3>3. /\ poll \in Polls /\ PollGoesOn(PollsJob, poll, LiveOnes(requests, "poll"), TRUE)
          /\ Chains(poll, LiveOnes(requests, "poll"), Visits)
      <4>1. IsFiniteSet(requests) /\ polls.job \in Polls
        BY <1>4
      <4>2. CanFire(polls.job, theHeld)
        BY <1>1
      <4>3. Chains(polls.job, LiveOnes(requests, "poll"), Visits)
        BY <1>4
      <4>4. PollGoesOn(PollsJob, polls.job, LiveOnes(requests, "poll"), TRUE)
        BY <1>4, <3>2
      <4> QED
        BY <1>3, <4>1, <4>2, <4>3, <4>4, TimerEnds DEF poll
    <3> QED
      BY <1>4, <3>1, <3>2, <3>3 DEF JobInv
  <2>2. CASE ~hidden
    <3>1. hidden = FALSE
      BY <2>2, <1>4
    <3>2. PollsJob
      <4>1. polls.job # NotPolling
        BY <1>1, StoppedStays
      <4> QED
        BY <1>4, <4>1 DEF PollGoesOn
    <3>3. PICK m : /\ TickJob(requests) = requests \union {m}
                   /\ m \notin requests /\ m.kind = "poll" /\ m.live
                   /\ Net(requests \union {m})
      BY <1>1, <2>2, <3>2, TickOfJob
    <3>4. net = requests \union {m}
      BY <2>2, <3>3
    <3> HIDE DEF net, poll
    <3>5. PollGoesOn(PollsJob, polls.job, LiveOnes(requests, "poll"), hidden)
          /\ hidden \in BOOLEAN
      BY <1>4
    <3>6. /\ poll \in Polls /\ PollGoesOn(PollsJob, poll, LiveOnes(requests \union {m}, "poll"), hidden)
          /\ Chains(poll, LiveOnes(requests \union {m}, "poll"), Visits)
      <4>1. IsFiniteSet(requests) /\ polls.job \in Polls
        BY <1>4
      <4>2. CanFire(polls.job, theHeld)
        BY <1>1
      <4>3. Chains(polls.job, LiveOnes(requests, "poll"), Visits)
        BY <1>4
      <4>4. m \notin requests /\ m.kind = "poll" /\ m.live
        BY <3>3
      <4> QED
        BY <1>3, <2>2, <3>5, <4>1, <4>2, <4>3, <4>4, TimerTicks DEF poll
    <3>7. \A q \in net : q.kind \in JobKinds
      BY <3>3, <3>4 DEF JobInv, JobKinds
    <3> QED
      BY <3>1, <3>3, <3>4, <3>6, <3>7
  <2> QED
    BY <2>1, <2>2
<1> HIDE DEF net, poll
<1>6. /\ loading' /\ route'.job # NoJob => \E q \in net : EndsLoading(q) /\ q.at = route'
      /\ route'.job = NoJob => full' = NoFull
      /\ full' # NoFull => Owner[full'.job] = route'.project
      /\ full'.job \notin {NoJob, route'.job} =>
           \E q \in net : q.kind = "fetch" /\ q.live /\ q.at = route'
  BY <1>1, <1>5 DEF JobInv, JobIsOfRoute, page
<1> QED
  BY <1>1, <1>2, <1>4, <1>5, <1>6, JobThroughEffects

LEMMA ShownVisit ==
  ASSUME TypedPage, hidden, hidden' = FALSE, left' = left
  PROVE  /\ Visits \in Nat /\ Visits' = Visits - 1 /\ Visits > 0
         /\ Visits' \in Nat /\ Visits <= MaxHides /\ MaxHides \in Nat
<1>1. left.hides \in Nat /\ Visits = left.hides + 1 /\ Visits' = left.hides
  BY DEF TypedPage, Visits
<1> QED
  BY <1>1, VisitsType

LEMMA ShowKeepsJob ==
  ASSUME JobInv, Show
  PROVE  JobInv'
<1> DEFINE net == IF PollsJob THEN TickJob(requests) ELSE requests
           poll == StopHeld(polls.job)
<1>1. ~PollsList
  BY DEF JobInv, PollsList
<1>2. /\ UNCHANGED <<version, route, tab, page, watched, left, query>> /\ hidden' = FALSE
      /\ hidden /\ RoomFor(1) /\ Effects(net, poll, StopHeld(polls.list))
  BY <1>1 DEF Show
<1>3. /\ Visits \in Nat /\ Visits' = Visits - 1 /\ Visits > 0
      /\ Visits' \in Nat /\ Visits <= MaxHides /\ MaxHides \in Nat
  <2>1. TypedPage
    BY DEF JobInv, Typed
  <2>2. hidden /\ hidden' = FALSE /\ left' = left
    BY <1>2
  <2> QED
    BY <2>1, <2>2, ShownVisit
<1>4. TypedPage'
  <2>1. Visits' <= MaxHides
    BY <1>3
  <2> QED
    BY <1>2, <2>1 DEF JobInv, Typed, TypedPage, page
<1>5. /\ polls.job \in Polls /\ Net(requests) /\ IsFiniteSet(requests)
      /\ PollGoesOn(PollsJob, polls.job, LiveOnes(requests, "poll"), hidden)
      /\ Chains(polls.job, LiveOnes(requests, "poll"), Visits)
      /\ StopHeld(polls.list) = NotPolling
      /\ watched = "job" /\ watched' = "job" /\ query' = Settle(FreshQuery, FALSE)
  BY <1>2, StoppedStays DEF JobInv, Typed, TypedPage, Net
<1>6. /\ Net(net) /\ \A q \in net : q.kind \in JobKinds
      /\ requests \subseteq net
      /\ poll \in Polls
      /\ PollGoesOn(PollsJob, poll, LiveOnes(net, "poll"), FALSE)
      /\ Chains(poll, LiveOnes(net, "poll"), Visits')
  <2>1. CASE PollsJob
    <3>1. PICK m : /\ TickJob(requests) = requests \union {m}
                   /\ m \notin requests /\ m.kind = "poll" /\ m.live
                   /\ Net(requests \union {m})
      BY <1>2, <2>1, TickOfJob
    <3>2. net = requests \union {m}
      BY <2>1, <3>1
    <3>3. PollsJob = TRUE
      BY <2>1 DEF PollsJob
    <3> HIDE DEF net, poll
    <3>4. /\ poll \in Polls /\ PollGoesOn(PollsJob, poll, LiveOnes(requests \union {m}, "poll"), FALSE)
          /\ Chains(poll, LiveOnes(requests \union {m}, "poll"), Visits - 1)
      BY <1>3, <1>5, <3>1, <3>3, ShownTicks DEF poll
    <3>5. \A q \in net : q.kind \in JobKinds
      BY <3>1, <3>2 DEF JobInv, JobKinds
    <3> QED
      BY <1>3, <3>1, <3>2, <3>4, <3>5
  <2>2. CASE ~PollsJob
    <3>1. net = requests
      BY <2>2
    <3>2. poll = NotPolling /\ LiveOnes(requests, "poll") = {}
      BY <1>5, <2>2, StoppedStays DEF PollGoesOn
    <3> HIDE DEF net, poll
    <3>3. Chains(poll, LiveOnes(requests, "poll"), Visits')
      <4>1. Cardinality(LiveOnes(requests, "poll")) = 0
        BY <1>5, <3>2, LiveFinite
      <4> QED
        BY <1>3, <3>2, <4>1 DEF Chains, NotPolling
    <3>4. PollGoesOn(PollsJob, poll, LiveOnes(requests, "poll"), FALSE)
      BY <2>2, <3>2 DEF PollGoesOn
    <3> QED
      BY <1>5, <3>1, <3>2, <3>3, <3>4, StoppedStays DEF JobInv
  <2> QED
    BY <2>1, <2>2
<1> HIDE DEF net, poll
<1>7. /\ loading' /\ route'.job # NoJob => \E q \in net : EndsLoading(q) /\ q.at = route'
      /\ route'.job = NoJob => full' = NoFull
      /\ full' # NoFull => Owner[full'.job] = route'.project
      /\ full'.job \notin {NoJob, route'.job} =>
           \E q \in net : q.kind = "fetch" /\ q.live /\ q.at = route'
  BY <1>2, <1>6 DEF JobInv, JobIsOfRoute, page
<1>8. PollGoesOn(PollsJob, poll, LiveOnes(net, "poll"), hidden')
  BY <1>2, <1>6
<1> QED
  BY <1>2, <1>4, <1>5, <1>6, <1>7, <1>8, JobThroughEffects

LEMMA StepKeepsJob ==
  ASSUME JobInv, Next
  PROVE  JobInv'
<1>1. ASSUME NEW r \in requests, QueryArrives(r) PROVE FALSE
  BY <1>1 DEF QueryArrives, JobInv, JobKinds
<1>2. ~QueryTimer /\ ~SwitchTab /\ ~RefreshQuery
  BY DEF QueryTimer, SwitchTab, RefreshQuery, JobInv, Settle, FreshQuery
<1>3. \A theHeld \in BOOLEAN : ~ListTimer(theHeld)
  BY StoppedStays DEF ListTimer, JobInv
<1> QED
  BY <1>1, <1>2, <1>3, ChangeKeepsJob, AnswerKeepsJob, FetchKeepsJob, PollKeepsJob,
     RefreshKeepsJob, NavigateKeepsJob, RefreshJobKeepsJob, HideKeepsJob, ShowKeepsJob,
     JobTimerKeepsJob DEF Next, Arrives, Timer
-----------------------------------------------------------------------------
(* The queries.                                                            *)

LEMMA QueryingSame ==
  ASSUME NEW net, NEW now, NEW q, NEW p, NEW versions, Querying(net, q, p, versions),
         Slots(now),
         \A r \in now : \E s \in net : Same(r, s),
         \A s \in net : s.newest => \E r \in now : Same(r, s)
  PROVE  Querying(now, q, p, versions)
<1>1. OneNewest(now)
  <2> SUFFICES ASSUME NEW r \in now, NEW s \in now, r.newest, s.newest PROVE r = s
    BY DEF OneNewest
  <2>1. PICK x \in net : Same(r, x)
    OBVIOUS
  <2>2. PICK y \in net : Same(s, y)
    OBVIOUS
  <2>3. x = y
    BY <2>1, <2>2 DEF Querying, OneNewest, Same
  <2> QED
    BY <2>1, <2>2, <2>3 DEF Same, Slots
<1>3. /\ \A r \in now : r.kind \in QueryKinds /\ (r.kind = "tick" => watched = "jobs")
      /\ \A r \in now : r.newest => r.at.project = p
  BY DEF Querying, Same
<1>4. Aging(now, q.data, versions)
  <2>1. \A pr \in Projects : NotNewer(q.data, pr, versions)
    BY DEF Querying, Aging
  <2>2. ASSUME NEW r \in now, r.answer.kind = "list"
        PROVE  /\ \A j \in JobsOf(r.at.project) : r.answer.versions[j] <= versions[j]
               /\ r.newest => NotNewer(q.data, r.at.project, r.answer.versions)
    <3>1. PICK s \in net : Same(r, s)
      OBVIOUS
    <3>2. s.answer = r.answer /\ s.at = r.at /\ s.newest = r.newest
      BY <3>1 DEF Same
    <3> QED
      BY <2>2, <3>2 DEF Querying, Aging
  <2> QED
    BY <2>1, <2>2 DEF Aging
<1>5. (\E r \in now : r.newest) <=> (\E r \in net : r.newest)
  BY DEF Same
<1> QED
  BY <1>1, <1>3, <1>4, <1>5 DEF Querying

LEMMA QueryThroughEffects ==
  ASSUME NEW net, Net(net), NEW poll \in Polls, NEW job, job = NotPolling, Effects(net, job, poll),
         watched # "job", watched' = watched, full = NoFull, full' = NoFull, ~loading', TypedPage',
         Querying(net, query', route'.project, version'),
         PollGoesOn(PollsList, poll, LiveOnes(net, "tick"), hidden'),
         Chains(poll, LiveOnes(net, "tick"), Visits')
  PROVE  QueryInv'
<1> DEFINE same == ListDeps' = ListDeps
<1>1. /\ Net(requests')
      /\ \A r \in requests' : r.live => r \in net /\ Wanted(r)
      /\ \A r \in requests' : \E q \in net : Same(r, q)
      /\ \A q \in net : Wanted(q) /\ (q.kind # "fetch" \/ q.live)
                          /\ (q.kind \in QueryKinds => q.newest \/ (q.kind = "tick" /\ q.live)) =>
           q \in requests'
      /\ \A q \in net : q.kind \in QueryKinds /\ q.newest => \E r \in requests' : Same(r, q)
  BY EffectsNet
<1>2. Querying(requests', query', route'.project, version')
  <2>1. Slots(requests')
    BY <1>1 DEF Net
  <2>2. \A q \in net : q.newest => \E r \in requests' : Same(r, q)
    BY <1>1 DEF Querying
  <2>3. \A r \in requests' : \E q \in net : Same(r, q)
    BY <1>1
  <2> QED
    BY <2>1, <2>2, <2>3, QueryingSame
<1>3. ~PollsJob /\ ~PollsJob'
  BY DEF PollsJob
<1>4. polls' = [job  |-> NotPolling,
                list |-> IF same THEN poll ELSE IF PollsList' THEN StartPolling ELSE NotPolling]
  <2>1. polls' = [job  |-> IF JobDeps' = JobDeps THEN job
                           ELSE IF PollsJob' THEN StartPolling ELSE NotPolling,
                  list |-> IF same THEN poll ELSE IF PollsList' THEN StartPolling ELSE NotPolling]
    BY DEF Effects
  <2> HIDE DEF same
  <2> QED
    BY <2>1, <1>3
<1>5. /\ PollGoesOn(PollsList', polls'.list, LiveOnes(requests', "tick"), hidden')
      /\ Chains(polls'.list, LiveOnes(requests', "tick"), Visits')
      /\ polls'.list \in Polls
  <2>1. PollsList \in BOOLEAN /\ PollsList' \in BOOLEAN /\ same \in BOOLEAN /\ hidden' \in BOOLEAN
    BY DEF PollsList, TypedPage
  <2>2. same => (PollsList' <=> PollsList)
    BY Deps
  <2>3. Visits' \in Nat /\ Visits' <= MaxHides
    BY ScreenConstants DEF TypedPage, Visits
  <2>4. \A r \in requests' : r.kind = "tick" /\ r.live => r \in net /\ same
    BY <1>1 DEF Wanted
  <2>5. \A q \in net : q.kind = "tick" /\ q.live /\ same => q \in requests'
    BY <1>1 DEF Wanted, QueryKinds
  <2>6. IsFiniteSet(net) /\ IsFiniteSet(requests')
    BY <1>1 DEF Net
  <2>7. polls'.list = IF same THEN poll ELSE IF PollsList' THEN StartPolling ELSE NotPolling
    BY <1>4
  <2> HIDE DEF same
  <2> QED
    BY <2>1, <2>2, <2>3, <2>4, <2>5, <2>6, <2>7, PollThroughEffects
<1>6. Typed'
  <2>1. polls' \in [job : Polls, list : Polls]
    BY <1>4, <1>5, StoppedStays
  <2> QED
    BY <1>1, <2>1 DEF Typed, Net, Slots, Sound, Requests, JobAnswers, ListAnswers, Lists, Answers
<1>7. (watched # "job" /\ full = NoFull /\ ~loading /\ polls.job = NotPolling)'
  BY <1>4
<1>8. Querying(requests, query, route.project, version)'
  BY <1>2 DEF Querying, OneNewest, Aging, NotNewer
<1> QED
  BY <1>5, <1>6, <1>7, <1>8 DEF QueryInv, LiveOnes

(* A query is asked again.                                                 *)
LEMMA QueryIsAsked ==
  ASSUME NEW net, Net(net), Cardinality(net) + 1 <= MaxNet, NEW kind \in QueryKinds, NEW at \in Routes,
         kind = "tick" => watched = "jobs",
         NEW q \in Queries, NEW p, NEW versions, Querying(net, q, p, versions), NEW manual \in BOOLEAN
  PROVE  /\ Net(SendQuery(net, kind, at))
         /\ Execute(q, manual) \in Queries
         /\ Querying(SendQuery(net, kind, at), Execute(q, manual), at.project, versions)
<1> DEFINE aged == { Aged(r) : r \in net }
           asked == Execute(q, manual)
<1>1. PICK m : /\ SendQuery(net, kind, at) = aged \union {m}
               /\ Fresh(m, kind, at) /\ Net(aged \union {m})
  BY SendQueryNet
<1>2. \A r \in aged : \E s \in net : /\ ~r.newest /\ r.kind = s.kind /\ r.at = s.at /\ r.answer = s.answer
                                     /\ s.kind \in QueryKinds
  BY AgedFacts DEF Net, Querying
<1> HIDE DEF aged
<1>3. asked \in Queries /\ asked.data = q.data /\ (asked.loading \/ asked.refreshing)
  BY DEF Execute, Queries
<1> HIDE DEF asked
<1>4. \A r \in aged \union {m} : r.newest <=> r = m
  BY <1>1, <1>2 DEF Fresh
<1>5. OneNewest(aged \union {m}) /\ m.at = at /\ m.newest
  BY <1>1, <1>4 DEF OneNewest, Fresh
<1>6. \A r \in aged \union {m} : r.kind \in QueryKinds /\ (r.kind = "tick" => watched = "jobs")
  BY <1>1, <1>2 DEF Fresh, Querying
<1>7. Aging(aged \union {m}, asked.data, versions)
  <2>1. \A pr \in Projects : NotNewer(asked.data, pr, versions)
    BY <1>3 DEF Querying, Aging
  <2>2. m.answer.kind # "list"
    BY <1>1 DEF Fresh, Pending
  <2>3. ASSUME NEW r \in aged, r.answer.kind = "list"
        PROVE  ~r.newest /\ \A j \in JobsOf(r.at.project) : r.answer.versions[j] <= versions[j]
    <3>1. PICK s \in net : ~r.newest /\ r.at = s.at /\ r.answer = s.answer
      BY <1>2
    <3> QED
      BY <2>3, <3>1 DEF Querying, Aging
  <2> QED
    BY <2>1, <2>2, <2>3 DEF Aging
<1>8. Querying(aged \union {m}, asked, at.project, versions)
  BY <1>3, <1>4, <1>5, <1>6, <1>7 DEF Querying
<1> QED
  BY <1>1, <1>3, <1>8 DEF asked
LEMMA QueryFacts ==
  ASSUME QueryInv
  PROVE  /\ TypedPage /\ Net(requests) /\ IsFiniteSet(requests) /\ polls.list \in Polls
         /\ route \in Routes /\ hidden \in BOOLEAN /\ query \in Queries /\ PollsList \in BOOLEAN
         /\ polls.job = NotPolling /\ watched # "job" /\ full = NoFull /\ ~loading
         /\ Querying(requests, query, route.project, version)
         /\ PollGoesOn(PollsList, polls.list, LiveOnes(requests, "tick"), hidden)
         /\ Chains(polls.list, LiveOnes(requests, "tick"), Visits)
         /\ Visits \in Nat
BY VisitsType DEF QueryInv, Typed, TypedPage, Net, PollsList

(* The ticks under way go on, although nobody waits for their answers.     *)
LEMMA AgedTicks ==
  ASSUME NEW net, Net(net), NEW poll \in Polls, NEW wanted \in BOOLEAN, NEW visits \in Nat,
         NEW paused \in BOOLEAN,
         PollGoesOn(wanted, poll, LiveOnes(net, "tick"), paused),
         Chains(poll, LiveOnes(net, "tick"), visits)
  PROVE  /\ PollGoesOn(wanted, poll, LiveOnes({ Aged(r) : r \in net }, "tick"), paused)
         /\ Chains(poll, LiveOnes({ Aged(r) : r \in net }, "tick"), visits)
<1> DEFINE aged == { Aged(r) : r \in net }
           old == LiveOnes(net, "tick")
           now == LiveOnes(aged, "tick")
           f == [r \in old |-> Aged(r)]
<1>1. \A r \in net : Aged(r).kind = r.kind /\ Aged(r).live = r.live
  BY AgedFacts DEF Net
<1>2. \A t \in now : \E s \in old : t = Aged(s)
  BY <1>1 DEF LiveOnes
<1>3. now = {} <=> old = {}
  BY <1>1 DEF LiveOnes
<1>4. IsFiniteSet(old)
  BY LiveFinite DEF Net
<1>5. IsFiniteSet(now) /\ Cardinality(now) <= Cardinality(old)
  <2>1. \A t \in now : \E s \in old : t = f[s]
    BY <1>2
  <2>2. DOMAIN f = old /\ f = [s \in old |-> f[s]]
    OBVIOUS
  <2> HIDE DEF f, now, old
  <2> QED
    BY <1>4, <2>1, <2>2, Covered
<1> HIDE DEF now, old
<1>6. Cardinality(now) \in Nat /\ Cardinality(old) \in Nat /\ MaxHides \in Nat /\ poll.armed \in Nat
  BY <1>4, <1>5, FS_CardinalityType, ScreenConstants DEF Polls
<1>7. Chains(poll, old, visits) /\ PollGoesOn(wanted, poll, old, paused)
  BY DEF old
<1>8. Chains(poll, now, visits) /\ PollGoesOn(wanted, poll, now, paused)
  BY <1>3, <1>5, <1>6, <1>7 DEF Chains, PollGoesOn
<1> QED
  BY <1>8 DEF now

LEMMA AskedTicks ==
  ASSUME NEW net, Net(net), Cardinality(net) + 1 <= MaxNet, NEW at \in Routes,
         NEW poll \in Polls, NEW wanted \in BOOLEAN, NEW visits \in Nat, NEW paused \in BOOLEAN,
         PollGoesOn(wanted, poll, LiveOnes(net, "tick"), paused),
         Chains(poll, LiveOnes(net, "tick"), visits)
  PROVE  /\ PollGoesOn(wanted, poll, LiveOnes(SendQuery(net, "query", at), "tick"), paused)
         /\ Chains(poll, LiveOnes(SendQuery(net, "query", at), "tick"), visits)
<1> DEFINE aged == { Aged(r) : r \in net }
<1>1. PICK m : SendQuery(net, "query", at) = aged \union {m} /\ m.kind = "query"
  <2>1. "query" \in QueryKinds
    BY DEF QueryKinds
  <2>2. \E m : SendQuery(net, "query", at) = aged \union {m} /\ Fresh(m, "query", at)
    BY <2>1, SendQueryNet
  <2> QED
    BY <2>2 DEF Fresh
<1>2. LiveOnes(aged \union {m}, "tick") = LiveOnes(aged, "tick")
  <2> HIDE DEF aged
  <2> QED
    BY <1>1 DEF LiveOnes
<1> QED
  BY <1>1, <1>2, AgedTicks

(* The states of the jobs only grow.                                       *)
LEMMA AgingGrows ==
  ASSUME NEW net, \A r \in net : Sound(r), \A r \in net : r.kind \in QueryKinds,
         NEW data \in Datas,
         NEW old \in [Jobs -> 0..MaxVersion], NEW new \in [Jobs -> 0..MaxVersion],
         \A j \in Jobs : old[j] <= new[j], Aging(net, data, old)
  PROVE  Aging(net, data, new)
<1>0. MaxVersion \in Nat
  BY ScreenConstants
<1>1. ASSUME NEW p \in Projects PROVE NotNewer(data, p, new)
  <2> SUFFICES ASSUME data # NoData, data.of = p, NEW j \in JobsOf(p) PROVE data.versions[j] <= new[j]
    BY DEF NotNewer
  <2>1. data.versions[j] <= old[j]
    BY <1>1 DEF Aging, NotNewer
  <2>2. j \in Jobs /\ data.versions \in Lists(p)
    BY DEF Datas, JobsOf
  <2>3. data.versions[j] \in 0..MaxVersion
    BY <2>2 DEF Lists
  <2>4. old[j] \in 0..MaxVersion /\ new[j] \in 0..MaxVersion /\ old[j] <= new[j]
    BY <2>2
  <2> QED
    BY <1>0, <2>1, <2>3, <2>4
<1>2. ASSUME NEW r \in net, r.answer.kind = "list"
      PROVE  \A j \in JobsOf(r.at.project) : r.answer.versions[j] <= new[j]
  <2> SUFFICES ASSUME NEW j \in JobsOf(r.at.project) PROVE r.answer.versions[j] <= new[j]
    OBVIOUS
  <2>1. r.answer.versions[j] <= old[j]
    BY <1>2 DEF Aging
  <2>2. r.answer \in ListAnswers(r.at.project) /\ j \in Jobs
    BY DEF Sound, JobsOf
  <2>3. r.answer.versions \in Lists(r.at.project)
    BY <1>2, <2>2 DEF ListAnswers, Pending, Lost
  <2>4. r.answer.versions[j] \in 0..MaxVersion
    BY <2>3 DEF Lists
  <2>5. old[j] \in 0..MaxVersion /\ new[j] \in 0..MaxVersion /\ old[j] <= new[j]
    BY <2>2
  <2> QED
    BY <1>0, <2>1, <2>4, <2>5
<1> QED
  BY <1>1, <1>2 DEF Aging

LEMMA ChangeKeepsQuery ==
  ASSUME QueryInv, NEW c \in Jobs, ChangeJob(c)
  PROVE  QueryInv'
<1>1. UNCHANGED <<route, tab, page, polls, watched, query, requests, hidden, left>>
      /\ version' = [version EXCEPT ![c] = @ + 1] /\ version[c] < MaxVersion
  BY DEF ChangeJob
<1>2. version \in [Jobs -> 0..MaxVersion] /\ MaxVersion \in Nat
  BY ScreenConstants DEF QueryInv, Typed, TypedPage
<1>3. version' \in [Jobs -> 0..MaxVersion] /\ \A j \in Jobs : version[j] <= version'[j]
  BY <1>1, <1>2
<1>4. Aging(requests, query.data, version)
  BY DEF QueryInv, Querying
<1>5. Aging(requests, query.data, version')
  <2>1. query.data \in Datas
    BY DEF QueryInv, Typed, TypedPage, Queries
  <2>2. \A r \in requests : Sound(r)
    BY DEF QueryInv, Typed, Net
  <2>3. \A r \in requests : r.kind \in QueryKinds
    BY DEF QueryInv, Querying
  <2> QED
    BY <1>2, <1>3, <1>4, <2>1, <2>2, <2>3, AgingGrows
<1>6. Querying(requests, query, route.project, version')
  BY <1>5 DEF QueryInv, Querying
<1>7. Querying(requests, query, route.project, version)'
  BY <1>1, <1>6 DEF Querying, OneNewest, Aging, NotNewer
<1>8. Typed'
  BY <1>1, <1>3 DEF QueryInv, Typed, TypedPage, Visits, page
<1>9. (PollsList' <=> PollsList) /\ Visits' = Visits
  BY <1>1 DEF PollsList, AllEnded, Visits
<1> QED
  BY <1>1, <1>7, <1>8, <1>9 DEF QueryInv, PollGoesOn, Chains, LiveOnes, page

LEMMA AnswerKeepsQuery ==
  ASSUME QueryInv, NEW r \in requests, Serve(r) \/ Lose(r)
  PROVE  QueryInv'
<1>1. Answered(r) /\ TypedPage'
      /\ UNCHANGED <<version, route, tab, page, polls, watched, query, hidden, left.hides>>
  BY ServeAnswers DEF QueryInv, Typed, Net
<1>2. PICK m : /\ requests' = (requests \ {r}) \union {m} /\ Net(requests')
               /\ m.kind = r.kind /\ m.at = r.at /\ m.live = r.live /\ m.newest = r.newest
               /\ m.answer.kind = "list" =>
                    m.answer.versions = [j \in JobsOf(r.at.project) |-> version[j]]
               /\ \A kind :
                    /\ Cardinality(LiveOnes(requests', kind)) = Cardinality(LiveOnes(requests, kind))
                    /\ LiveOnes(requests', kind) = {} <=> LiveOnes(requests, kind) = {}
  BY <1>1, AnswerInNet DEF QueryInv, Typed
<1>3. Typed'
  BY <1>1, <1>2 DEF QueryInv, Typed, Net, Slots, Sound, Requests, JobAnswers, ListAnswers, Lists, Answers
<1>4. Querying(requests, query, route.project, version)
  BY DEF QueryInv
<1>5. /\ \A s \in requests' : s.kind \in QueryKinds /\ (s.kind = "tick" => watched = "jobs")
      /\ \A s \in requests' : s.newest => s.at.project = route.project
  BY <1>2, <1>4 DEF Querying
<1>6. OneNewest(requests')
  BY <1>2, <1>4 DEF Querying, OneNewest
<1>7. (\E s \in requests' : s.newest) <=> (\E s \in requests : s.newest)
  BY <1>2
<1>8. Aging(requests', query.data, version)
  <2>1. \A p \in Projects : NotNewer(query.data, p, version)
    BY <1>4 DEF Querying, Aging
  <2>2. ASSUME NEW s \in requests', s.answer.kind = "list"
        PROVE  /\ \A j \in JobsOf(s.at.project) : s.answer.versions[j] <= version[j]
               /\ s.newest => NotNewer(query.data, s.at.project, s.answer.versions)
    <3>1. CASE s \in requests
      BY <1>4, <2>2, <3>1 DEF Querying, Aging
    <3>2. CASE s = m
      <4>1. s.answer.versions = [j \in JobsOf(s.at.project) |-> version[j]]
        BY <1>2, <2>2, <3>2
      <4>2. s.at.project \in Projects
        BY <1>2 DEF Net, Sound, Requests, Routes
      <4>3. \A j \in JobsOf(s.at.project) : version[j] <= version[j]
        BY ScreenConstants DEF JobsOf, QueryInv, Typed, TypedPage
      <4>4. NotNewer(query.data, s.at.project, version)
        BY <2>1, <4>2
      <4> QED
        BY <4>1, <4>3, <4>4 DEF NotNewer
    <3> QED
      BY <1>2, <3>1, <3>2
  <2> QED
    BY <2>1, <2>2 DEF Aging
<1>9. Querying(requests', query, route.project, version)
  BY <1>4, <1>5, <1>6, <1>7, <1>8 DEF Querying
<1>10. Querying(requests, query, route.project, version)'
  BY <1>1, <1>9 DEF Querying, OneNewest, Aging, NotNewer
<1>11. (PollsList' <=> PollsList) /\ Visits' = Visits
  BY <1>1 DEF PollsList, AllEnded, Visits
<1>12. /\ PollGoesOn(PollsList', polls.list, LiveOnes(requests', "tick"), hidden)
       /\ Chains(polls.list, LiveOnes(requests', "tick"), Visits)
  BY <1>2, <1>11 DEF QueryInv, PollGoesOn, Chains
<1> QED
  BY <1>1, <1>3, <1>10, <1>11, <1>12 DEF QueryInv, LiveOnes, page

(* The newest answer is shown, and the query rests.                        *)
LEMMA QueryIsSettled ==
  ASSUME QueryInv, NEW r \in requests, QueryArrives(r)
  PROVE  /\ query' \in Queries
         /\ Querying(requests \ {r}, query', route.project, version)
<1> DEFINE interval == watched = "project"
           data == [of |-> r.at.project, versions |-> r.answer.versions]
           rest == requests \ {r}
<1>1. /\ query \in Queries /\ Querying(requests, query, route.project, version)
      /\ Sound(r) /\ r.kind \in QueryKinds /\ r.answer # Pending
      /\ interval \in BOOLEAN
  BY DEF QueryInv, Typed, TypedPage, Net, QueryArrives, QueryKinds
<1>2. \A s \in rest : s \in requests
  OBVIOUS
<1>3. /\ \A s \in rest : s.kind \in QueryKinds /\ (s.kind = "tick" => watched = "jobs")
      /\ OneNewest(rest)
      /\ \A s \in rest : s.newest => s.at.project = route.project
  BY <1>1, <1>2 DEF Querying, OneNewest
<1>4. Aging(rest, query.data, version)
  BY <1>1, <1>2 DEF Querying, Aging
<1>5. CASE ~r.newest
  <2>1. query' = query
    BY <1>5 DEF QueryArrives
  <2>2. (\E s \in rest : s.newest) <=> (\E s \in requests : s.newest)
    BY <1>5
  <2> HIDE DEF rest
  <2>3. Querying(rest, query, route.project, version)
    BY <1>1, <1>3, <1>4, <2>2 DEF Querying
  <2> QED
    BY <1>1, <2>1, <2>3 DEF rest
<1>6. CASE r.newest
  <2>1. /\ \A s \in rest : ~s.newest
        /\ r.at.project = route.project
    BY <1>1, <1>6 DEF Querying, OneNewest
  <2> HIDE DEF rest, interval
  <2>2. CASE r.answer = Lost
    <3>1. query' = GotError(query, interval)
      BY <1>6, <2>2 DEF QueryArrives, interval
    <3>2. /\ query' \in Queries /\ query'.data = query.data /\ query'.error = TRUE
          /\ query'.loading = FALSE /\ query'.refreshing = FALSE /\ query'.timer = interval
      BY <1>1, <3>1 DEF GotError, Settle, Queries
    <3>3. Querying(rest, query', route.project, version)
      BY <1>3, <1>4, <2>1, <3>2 DEF Querying, interval
    <3> QED
      BY <3>2, <3>3 DEF rest
  <2>3. CASE r.answer # Lost
    <3>1. query' = GotData(query, data, interval)
      BY <1>6, <2>3 DEF QueryArrives, interval
    <3>2. r.answer \in ListAnswers(r.at.project) /\ r.answer.kind = "list"
          /\ r.answer.versions \in Lists(r.at.project)
      BY <1>1, <2>3 DEF Sound, ListAnswers
    <3>3. r.at.project \in Projects
      BY <1>1 DEF Sound, Requests, Routes
    <3>4. data \in Datas /\ data.of = route.project /\ data.versions = r.answer.versions
      BY <2>1, <3>2, <3>3 DEF Datas
    <3>5. \A p \in Projects : NotNewer(data, p, version)
      BY <1>1, <3>2 DEF Querying, Aging, NotNewer
    <3> HIDE DEF data
    <3>6. /\ query' \in Queries /\ query'.data = data
          /\ query'.loading = FALSE /\ query'.refreshing = FALSE /\ query'.timer = interval
      BY <1>1, <3>1, <3>4 DEF GotData, Settle, Queries
    <3>7. Aging(rest, data, version)
      BY <1>4, <2>1, <3>5 DEF Aging
    <3>8. Querying(rest, query', route.project, version)
      BY <1>3, <2>1, <3>4, <3>6, <3>7 DEF Querying, interval
    <3> QED
      BY <3>6, <3>8 DEF rest
  <2> QED
    BY <2>2, <2>3
<1> QED
  BY <1>5, <1>6

LEMMA ArrivalKeepsQuery ==
  ASSUME QueryInv, NEW r \in requests, QueryArrives(r)
  PROVE  QueryInv'
<1> DEFINE net == requests \ {r}
           poll == IF r.kind = "tick" /\ r.live THEN Rearm(polls.list) ELSE polls.list
<1>1. /\ UNCHANGED <<version, route, tab, page, watched, hidden, left>>
      /\ Effects(net, polls.job, poll)
  BY DEF QueryArrives
<1>2. query' \in Queries /\ Querying(net, query', route.project, version)
  BY QueryIsSettled
<1>3. TypedPage' /\ Visits' = Visits
  BY <1>1, <1>2 DEF QueryInv, Typed, TypedPage, Visits, page
<1>4. Net(net)
  BY QueryFacts, SubNet
<1>5. /\ poll \in Polls
      /\ PollGoesOn(PollsList, poll, LiveOnes(net, "tick"), hidden)
      /\ Chains(poll, LiveOnes(net, "tick"), Visits)
  <2>1. CASE r.kind = "tick" /\ r.live
    <3>1. poll = Rearm(polls.list)
      BY <2>1
    <3> HIDE DEF poll, net
    <3>2. /\ Rearm(polls.list) \in Polls
          /\ PollGoesOn(PollsList, Rearm(polls.list), LiveOnes(requests \ {r}, "tick"), hidden)
          /\ Chains(Rearm(polls.list), LiveOnes(requests \ {r}, "tick"), Visits)
      <4>1. /\ IsFiniteSet(requests) /\ polls.list \in Polls
            /\ PollsList \in BOOLEAN /\ Visits \in Nat /\ hidden \in BOOLEAN
        BY QueryFacts
      <4>2. PollGoesOn(PollsList, polls.list, LiveOnes(requests, "tick"), hidden)
        BY QueryFacts
      <4>3. Chains(polls.list, LiveOnes(requests, "tick"), Visits)
        BY QueryFacts
      <4>4. r.kind = "tick" /\ r.live
        BY <2>1
      <4> QED
        BY <4>1, <4>2, <4>3, <4>4, TickRearms
    <3> QED
      BY <3>1, <3>2 DEF net
  <2>2. CASE ~(r.kind = "tick" /\ r.live)
    <3>1. poll = polls.list
      BY <2>2
    <3>2. LiveOnes(net, "tick") = LiveOnes(requests, "tick")
      BY <2>2 DEF LiveOnes
    <3> QED
      BY <3>1, <3>2, QueryFacts
  <2> QED
    BY <2>1, <2>2
<1> HIDE DEF net, poll
<1>6. /\ watched # "job" /\ watched' = watched /\ full = NoFull /\ full' = NoFull /\ ~loading'
      /\ polls.job = NotPolling
  BY <1>1, QueryFacts DEF page
<1>7. Querying(net, query', route'.project, version')
  BY <1>1, <1>2
<1>8. /\ PollGoesOn(PollsList, poll, LiveOnes(net, "tick"), hidden')
      /\ Chains(poll, LiveOnes(net, "tick"), Visits')
  BY <1>1, <1>3, <1>5
<1> QED
  BY <1>1, <1>3, <1>4, <1>5, <1>6, <1>7, <1>8, QueryThroughEffects

(* A query is asked again, by the user, by a navigation or by its timer.   *)
LEMMA AskingKeepsQuery ==
  ASSUME QueryInv, Cardinality(requests) + 1 <= MaxNet, NEW at \in Routes, NEW manual \in BOOLEAN,
         route' = at, query' = Execute(query, manual),
         UNCHANGED <<version, page, watched, hidden>>, TypedPage', Visits' = Visits,
         Effects(SendQuery(requests, "query", at), polls.job, polls.list)
  PROVE  QueryInv'
<1> DEFINE net == SendQuery(requests, "query", at)
<1>1. "query" \in QueryKinds
  BY DEF QueryKinds
<1>2. Net(net) /\ Querying(net, query', at.project, version)
  <2>1. Querying(requests, query, route.project, version) /\ query \in Queries /\ Net(requests)
    BY QueryFacts
  <2> QED
    BY <1>1, <2>1, QueryIsAsked
<1>3. /\ PollGoesOn(PollsList, polls.list, LiveOnes(net, "tick"), hidden)
      /\ Chains(polls.list, LiveOnes(net, "tick"), Visits)
  <2>1. /\ Net(requests) /\ polls.list \in Polls
        /\ PollsList \in BOOLEAN /\ Visits \in Nat /\ hidden \in BOOLEAN
    BY QueryFacts
  <2>2. PollGoesOn(PollsList, polls.list, LiveOnes(requests, "tick"), hidden)
    BY QueryFacts
  <2>3. Chains(polls.list, LiveOnes(requests, "tick"), Visits)
    BY QueryFacts
  <2> QED
    BY <2>1, <2>2, <2>3, AskedTicks
<1> HIDE DEF net
<1>4. /\ watched # "job" /\ watched' = watched /\ full = NoFull /\ full' = NoFull /\ ~loading'
      /\ polls.job = NotPolling /\ polls.list \in Polls
  BY QueryFacts DEF page
<1>5. Querying(net, query', route'.project, version')
  BY <1>2
<1>6. /\ PollGoesOn(PollsList, polls.list, LiveOnes(net, "tick"), hidden')
      /\ Chains(polls.list, LiveOnes(net, "tick"), Visits')
  BY <1>3
<1>7. Effects(net, polls.job, polls.list)
  BY DEF net
<1> QED
  BY <1>2, <1>4, <1>5, <1>6, <1>7, QueryThroughEffects

(* A render in which nothing is asked.                                     *)
LEMMA QuietKeepsQuery ==
  ASSUME QueryInv, route'.project = route.project,
         UNCHANGED <<version, page, watched, query, hidden>>, TypedPage', Visits' = Visits,
         Effects(requests, polls.job, polls.list)
  PROVE  QueryInv'
<1>1. /\ watched # "job" /\ watched' = watched /\ full = NoFull /\ full' = NoFull /\ ~loading'
      /\ polls.job = NotPolling /\ polls.list \in Polls /\ Net(requests)
  BY QueryFacts DEF page
<1>2. Querying(requests, query', route'.project, version')
  BY QueryFacts
<1>3. /\ PollGoesOn(PollsList, polls.list, LiveOnes(requests, "tick"), hidden')
      /\ Chains(polls.list, LiveOnes(requests, "tick"), Visits')
  BY QueryFacts
<1> QED
  BY <1>1, <1>2, <1>3, QueryThroughEffects

LEMMA NavigateKeepsQuery ==
  ASSUME QueryInv, NEW new \in Routes, Navigate(new)
  PROVE  QueryInv'
<1>1. /\ route' = new /\ UNCHANGED <<version, watched, hidden, page>>
      /\ tab' \in {"jobs", "other"}
      /\ Cardinality(requests) + 1 <= MaxNet
      /\ left.moves > 0 /\ left' = [left EXCEPT !.moves = @ - 1]
      /\ IF new.project = route.project
           THEN UNCHANGED query /\ Effects(requests, polls.job, polls.list)
           ELSE /\ query' = Execute(query, FALSE)
                /\ Effects(SendQuery(requests, "query", new), polls.job, polls.list)
  BY QueryFacts DEF Navigate, RoomFor, Spend, TypedPage
<1>2. query' \in Queries
  BY <1>1, QueryFacts DEF Execute, Queries
<1>3. left' \in [faults : Nat, moves : Nat, hides : Nat] /\ left'.hides = left.hides
  BY <1>1, QueryFacts DEF TypedPage
<1>4. TypedPage' /\ Visits' = Visits
  BY <1>1, <1>2, <1>3, QueryFacts DEF TypedPage, Visits, page
<1>5. CASE new.project = route.project
  BY <1>1, <1>4, <1>5, QuietKeepsQuery
<1>6. CASE new.project # route.project
  <2>1. query' = Execute(query, FALSE)
        /\ Effects(SendQuery(requests, "query", new), polls.job, polls.list)
    BY <1>1, <1>6
  <2> QED
    BY <1>1, <1>4, <2>1, AskingKeepsQuery
<1> QED
  BY <1>5, <1>6

LEMMA RefreshKeepsQuery ==
  ASSUME QueryInv, RefreshQuery \/ QueryTimer
  PROVE  QueryInv'
<1>1. /\ UNCHANGED <<version, route, tab, page, watched, hidden, left>>
      /\ query' = Execute(query, TRUE) /\ Cardinality(requests) + 1 <= MaxNet
      /\ Effects(SendQuery(requests, "query", route), polls.job, polls.list)
  BY DEF RefreshQuery, QueryTimer, RoomFor
<1>2. query' \in Queries
  BY <1>1, QueryFacts DEF Execute, Queries
<1>3. TypedPage' /\ Visits' = Visits
  BY <1>1, <1>2, QueryFacts DEF TypedPage, Visits, page
<1>4. route \in Routes
  BY QueryFacts
<1> QED
  BY <1>1, <1>3, <1>4, AskingKeepsQuery

LEMMA SwitchKeepsQuery ==
  ASSUME QueryInv, SwitchTab
  PROVE  QueryInv'
<1>1. /\ UNCHANGED <<version, route, page, watched, query, hidden, left>>
      /\ tab' \in {"jobs", "other"}
      /\ Effects(requests, polls.job, polls.list)
  BY DEF SwitchTab
<1>2. TypedPage' /\ Visits' = Visits
  BY <1>1, QueryFacts DEF TypedPage, Visits, page
<1> QED
  BY <1>1, <1>2, QuietKeepsQuery

LEMMA HideKeepsQuery ==
  ASSUME QueryInv, Hide
  PROVE  QueryInv'
<1>1. TypedPage' /\ Visits' = Visits /\ hidden' = TRUE
      /\ UNCHANGED <<version, route, tab, page, polls, watched, query, requests>>
  BY HiddenPage, QueryFacts
<1>2. PollsList' <=> PollsList
  BY <1>1 DEF PollsList, AllEnded
<1>3. Typed'
  BY <1>1 DEF QueryInv, Typed, Net, Slots, Sound, Requests, JobAnswers, ListAnswers, Lists, Answers
<1>4. PollGoesOn(PollsList', polls.list, LiveOnes(requests, "tick"), TRUE)
  BY <1>2 DEF QueryInv, PollGoesOn
<1>5. Querying(requests, query, route.project, version)'
  BY <1>1 DEF QueryInv, Querying, OneNewest, Aging, NotNewer
<1> QED
  BY <1>1, <1>3, <1>4, <1>5 DEF QueryInv, page, LiveOnes

(* The list is polled only in a project that is shown with its jobs.       *)
LEMMA TickOfList ==
  ASSUME QueryInv, PollsList, RoomFor(1)
  PROVE  /\ Net(TickList(requests))
         /\ Querying(TickList(requests), Execute(query, TRUE), route.project, version)
         /\ \E m : /\ TickList(requests) = { Aged(r) : r \in requests } \union {m}
                   /\ m \notin { Aged(r) : r \in requests } /\ m.kind = "tick" /\ m.live
                   /\ IsFiniteSet({ Aged(r) : r \in requests })
<1>1. /\ Net(requests) /\ Cardinality(requests) + 1 <= MaxNet /\ route \in Routes
      /\ query \in Queries
  BY QueryFacts DEF RoomFor
<1>2. "tick" \in QueryKinds /\ watched = "jobs"
  BY DEF QueryKinds, PollsList
<1>3. Querying(requests, query, route.project, version)
  BY QueryFacts
<1>4. Net(SendQuery(requests, "tick", route))
      /\ Querying(SendQuery(requests, "tick", route), Execute(query, TRUE), route.project, version)
  BY <1>1, <1>2, <1>3, QueryIsAsked
<1>5. PICK m : /\ SendQuery(requests, "tick", route) = { Aged(r) : r \in requests } \union {m}
               /\ Fresh(m, "tick", route) /\ m \notin { Aged(r) : r \in requests }
               /\ Net({ Aged(r) : r \in requests })
  BY <1>1, <1>2, SendQueryNet
<1> QED
  BY <1>4, <1>5 DEF TickList, Fresh, Net

LEMMA ListTimerKeepsQuery ==
  ASSUME QueryInv, NEW theHeld \in BOOLEAN, ListTimer(theHeld)
  PROVE  QueryInv'
<1> DEFINE net == IF hidden THEN requests ELSE TickList(requests)
           poll == Fire(polls.list, theHeld)
           aged == { Aged(r) : r \in requests }
<1>1. /\ UNCHANGED <<version, route, tab, page, watched, hidden, left>>
      /\ Effects(net, polls.job, poll) /\ CanFire(polls.list, theHeld) /\ (hidden \/ RoomFor(1))
      /\ query' = IF hidden THEN query ELSE Execute(query, TRUE)
  BY DEF ListTimer
<1>2. /\ polls.list \in Polls /\ Net(requests) /\ IsFiniteSet(requests) /\ hidden \in BOOLEAN
      /\ PollsList \in BOOLEAN /\ Visits \in Nat
  BY QueryFacts
<1>3. query' \in Queries
  BY <1>1, QueryFacts DEF Execute, Queries
<1>4. TypedPage' /\ Visits' = Visits
  BY <1>1, <1>3, QueryFacts DEF TypedPage, Visits, page
<1>5. /\ PollGoesOn(PollsList, polls.list, LiveOnes(requests, "tick"), hidden)
      /\ Chains(polls.list, LiveOnes(requests, "tick"), Visits)
  BY QueryFacts
<1>6. /\ Net(net) /\ Querying(net, query', route.project, version)
      /\ poll \in Polls
      /\ PollGoesOn(PollsList, poll, LiveOnes(net, "tick"), hidden)
      /\ Chains(poll, LiveOnes(net, "tick"), Visits)
  <2>1. CASE hidden
    <3>1. net = requests /\ query' = query
      BY <1>1, <2>1
    <3> HIDE DEF net, poll
    <3>2. hidden = TRUE
      BY <1>2, <2>1
    <3>3. CanFire(polls.list, theHeld)
      BY <1>1
    <3>4. PollGoesOn(PollsList, polls.list, LiveOnes(requests, "tick"), TRUE)
      BY <1>5, <3>2
    <3>5. /\ poll \in Polls /\ PollGoesOn(PollsList, poll, LiveOnes(requests, "tick"), TRUE)
          /\ Chains(poll, LiveOnes(requests, "tick"), Visits)
      <4>1. /\ IsFiniteSet(requests) /\ polls.list \in Polls /\ PollsList \in BOOLEAN /\ Visits \in Nat
            /\ Chains(polls.list, LiveOnes(requests, "tick"), Visits)
        BY <1>2, <1>5
      <4> QED
        BY <3>3, <3>4, <4>1, TimerEnds DEF poll
    <3> QED
      BY <1>2, <3>1, <3>2, <3>5, QueryFacts
  <2>2. CASE ~hidden
    <3>1. PollsList
      <4>1. polls.list # NotPolling
        BY <1>1, StoppedStays
      <4> QED
        BY <1>5, <4>1 DEF PollGoesOn
    <3>2. /\ Net(TickList(requests))
          /\ Querying(TickList(requests), Execute(query, TRUE), route.project, version)
      BY <1>1, <2>2, <3>1, TickOfList
    <3>3. PICK m : /\ TickList(requests) = aged \union {m}
                   /\ m \notin aged /\ m.kind = "tick" /\ m.live /\ IsFiniteSet(aged)
      BY <1>1, <2>2, <3>1, TickOfList
    <3>4. net = aged \union {m} /\ net = TickList(requests) /\ query' = Execute(query, TRUE)
      BY <1>1, <2>2, <3>3
    <3>5. /\ PollGoesOn(PollsList, polls.list, LiveOnes(aged, "tick"), hidden)
          /\ Chains(polls.list, LiveOnes(aged, "tick"), Visits)
      BY <1>2, <1>5, AgedTicks
    <3>6. CanFire(polls.list, theHeld)
      BY <1>1
    <3> HIDE DEF net, poll, aged
    <3>7. /\ poll \in Polls /\ PollGoesOn(PollsList, poll, LiveOnes(aged \union {m}, "tick"), hidden)
          /\ Chains(poll, LiveOnes(aged \union {m}, "tick"), Visits)
      <4>1. IsFiniteSet(aged) /\ m \notin aged /\ m.kind = "tick" /\ m.live
        BY <3>3
      <4>2. polls.list \in Polls /\ PollsList \in BOOLEAN /\ Visits \in Nat /\ hidden \in BOOLEAN
        BY <1>2
      <4> QED
        BY <2>2, <3>5, <3>6, <4>1, <4>2, TimerTicks DEF poll
    <3> QED
      BY <3>2, <3>4, <3>7
  <2> QED
    BY <2>1, <2>2
<1> HIDE DEF net, poll
<1>7. /\ watched # "job" /\ watched' = watched /\ full = NoFull /\ full' = NoFull /\ ~loading'
      /\ polls.job = NotPolling
  BY <1>1, QueryFacts DEF page
<1>8. Querying(net, query', route'.project, version')
  BY <1>1, <1>6
<1>9. /\ PollGoesOn(PollsList, poll, LiveOnes(net, "tick"), hidden')
      /\ Chains(poll, LiveOnes(net, "tick"), Visits')
  BY <1>1, <1>4, <1>6
<1> QED
  BY <1>1, <1>4, <1>6, <1>7, <1>8, <1>9, QueryThroughEffects

LEMMA ShowKeepsQuery ==
  ASSUME QueryInv, Show
  PROVE  QueryInv'
<1> DEFINE net == IF PollsList THEN TickList(requests) ELSE requests
           poll == StopHeld(polls.list)
           aged == { Aged(r) : r \in requests }
<1>1. ~PollsJob /\ polls.job = NotPolling
  BY QueryFacts DEF PollsJob
<1>2. /\ UNCHANGED <<version, route, tab, page, watched, left>> /\ hidden' = FALSE
      /\ hidden /\ RoomFor(1) /\ Effects(net, NotPolling, poll)
      /\ query' = IF PollsList THEN Execute(query, TRUE) ELSE query
  BY <1>1, StoppedStays DEF Show
<1>3. /\ Visits \in Nat /\ Visits' = Visits - 1 /\ Visits > 0
      /\ Visits' \in Nat /\ Visits <= MaxHides /\ MaxHides \in Nat
  <2>1. hidden /\ hidden' = FALSE /\ left' = left
    BY <1>2
  <2> QED
    BY <2>1, ShownVisit, QueryFacts
<1>4. query' \in Queries
  BY <1>2, QueryFacts DEF Execute, Queries
<1>5. TypedPage'
  <2>1. Visits' <= MaxHides
    BY <1>3
  <2> QED
    BY <1>2, <1>4, <2>1, QueryFacts DEF TypedPage, page
<1>6. /\ polls.list \in Polls /\ Net(requests) /\ IsFiniteSet(requests)
      /\ PollsList \in BOOLEAN
  BY QueryFacts
<1>7. /\ PollGoesOn(PollsList, polls.list, LiveOnes(requests, "tick"), hidden)
      /\ Chains(polls.list, LiveOnes(requests, "tick"), Visits)
  BY QueryFacts
<1>8. /\ Net(net) /\ Querying(net, query', route.project, version)
      /\ poll \in Polls
      /\ PollGoesOn(PollsList, poll, LiveOnes(net, "tick"), FALSE)
      /\ Chains(poll, LiveOnes(net, "tick"), Visits')
  <2>1. CASE PollsList
    <3>1. /\ Net(TickList(requests))
          /\ Querying(TickList(requests), Execute(query, TRUE), route.project, version)
      BY <1>2, <2>1, TickOfList
    <3>2. PICK m : /\ TickList(requests) = aged \union {m}
                   /\ m \notin aged /\ m.kind = "tick" /\ m.live /\ IsFiniteSet(aged)
      BY <1>2, <2>1, TickOfList
    <3>3. net = aged \union {m} /\ net = TickList(requests) /\ query' = Execute(query, TRUE)
      BY <1>2, <2>1, <3>2
    <3>4. Chains(polls.list, LiveOnes(aged, "tick"), Visits)
      BY <1>3, <1>6, <1>7, AgedTicks, QueryFacts
    <3>5. PollsList = TRUE
      BY <1>6, <2>1
    <3> HIDE DEF net, poll, aged
    <3>6. /\ poll \in Polls /\ PollGoesOn(PollsList, poll, LiveOnes(aged \union {m}, "tick"), FALSE)
          /\ Chains(poll, LiveOnes(aged \union {m}, "tick"), Visits - 1)
      BY <1>3, <1>6, <3>2, <3>4, <3>5, ShownTicks DEF poll
    <3> QED
      BY <1>3, <3>1, <3>3, <3>6
  <2>2. CASE ~PollsList
    <3>1. net = requests /\ query' = query
      BY <1>2, <2>2
    <3>2. poll = NotPolling /\ LiveOnes(requests, "tick") = {}
      BY <1>7, <2>2, StoppedStays DEF PollGoesOn
    <3> HIDE DEF net, poll
    <3>3. Chains(poll, LiveOnes(requests, "tick"), Visits')
      <4>1. Cardinality(LiveOnes(requests, "tick")) = 0
        BY <1>6, <3>2, LiveFinite
      <4> QED
        BY <1>3, <3>2, <4>1 DEF Chains, NotPolling
    <3>4. PollGoesOn(PollsList, poll, LiveOnes(requests, "tick"), FALSE)
      BY <2>2, <3>2 DEF PollGoesOn
    <3> QED
      BY <1>6, <3>1, <3>2, <3>3, <3>4, StoppedStays, QueryFacts
  <2> QED
    BY <2>1, <2>2
<1> HIDE DEF net, poll
<1>9. /\ watched # "job" /\ watched' = watched /\ full = NoFull /\ full' = NoFull /\ ~loading'
  BY <1>2, QueryFacts DEF page
<1>10. Querying(net, query', route'.project, version')
  BY <1>2, <1>8
<1>11. PollGoesOn(PollsList, poll, LiveOnes(net, "tick"), hidden')
  BY <1>2, <1>8
<1> QED
  BY <1>2, <1>5, <1>8, <1>9, <1>10, <1>11, QueryThroughEffects

LEMMA StepKeepsQuery ==
  ASSUME QueryInv, Next
  PROVE  QueryInv'
<1>1. ASSUME NEW r \in requests PROVE ~FetchArrives(r) /\ ~PollArrives(r) /\ ~RefreshArrives(r)
  BY QueryFacts DEF FetchArrives, PollArrives, RefreshArrives, Querying, QueryKinds
<1>2. ~RefreshJob
  BY QueryFacts DEF RefreshJob
<1>3. \A theHeld \in BOOLEAN : ~JobTimer(theHeld)
  BY StoppedStays, QueryFacts DEF JobTimer
<1> QED
  BY <1>1, <1>2, <1>3, ChangeKeepsQuery, AnswerKeepsQuery, ArrivalKeepsQuery, NavigateKeepsQuery,
     SwitchKeepsQuery, RefreshKeepsQuery, HideKeepsQuery, ShowKeepsQuery, ListTimerKeepsQuery
     DEF Next, Arrives, Timer
-----------------------------------------------------------------------------
(* The screen as it is opened.                                             *)

LEMMA EmptyNet ==
  Net({}) /\ Cardinality({}) + 1 <= MaxNet /\ IsFiniteSet({})
<1>1. IsFiniteSet({}) /\ Cardinality({}) = 0
  BY FS_EmptySet
<1> QED
  BY <1>1, ScreenConstants DEF Net, Slots

LEMMA Start ==
  ASSUME Init
  PROVE  /\ version \in [Jobs -> 0..MaxVersion] /\ route \in Routes /\ tab \in {"jobs", "other"}
         /\ full = NoFull /\ errors = {} /\ loading \in BOOLEAN /\ hidden = FALSE
         /\ watched \in Watched
         /\ left \in [faults : Nat, moves : Nat, hides : Nat] /\ Visits \in Nat
         /\ Visits <= MaxHides
         /\ NoData \in Datas /\ FreshQuery \in Queries /\ Settle(FreshQuery, FALSE) \in Queries
<1>1. version \in [Jobs -> 0..MaxVersion]
  BY ScreenConstants DEF Init
<1>2. left \in [faults : Nat, moves : Nat, hides : Nat] /\ left.hides = MaxHides /\ hidden = FALSE
  BY ScreenConstants DEF Init
<1>3. Visits \in Nat /\ Visits <= MaxHides
  <2>1. Visits = MaxHides
    BY <1>2, ScreenConstants DEF Visits
  <2> QED
    BY <2>1, ScreenConstants
<1>4. NoData \in Datas
  BY DEF Datas
<1>5. FreshQuery \in Queries
  BY <1>4 DEF FreshQuery, Queries
<1>6. Settle(FreshQuery, FALSE) \in Queries
  BY <1>5 DEF Settle, Queries
<1>7. /\ route \in Routes /\ tab \in {"jobs", "other"}
      /\ full = NoFull /\ errors = {} /\ watched \in Watched
  BY DEF Init
<1>8. loading \in BOOLEAN
  BY DEF Init
<1> QED
  BY <1>1, <1>2, <1>3, <1>4, <1>5, <1>6, <1>7, <1>8

(* A poll starts with one timer, and without a tick.                       *)
LEMMA FirstTimer ==
  ASSUME NEW wanted \in BOOLEAN, NEW poll, poll = IF wanted THEN StartPolling ELSE NotPolling,
         NEW net, NEW kind, \A r \in net : r.kind # kind, IsFiniteSet(net),
         NEW visits \in Nat, visits <= MaxHides, NEW paused \in BOOLEAN
  PROVE  /\ poll \in Polls /\ PollGoesOn(wanted, poll, LiveOnes(net, kind), paused)
         /\ Chains(poll, LiveOnes(net, kind), visits)
<1>1. LiveOnes(net, kind) = {}
  BY DEF LiveOnes
<1>2. Cardinality(LiveOnes(net, kind)) = 0
  BY <1>1, LiveFinite
<1>3. poll \in Polls /\ poll.armed \in Nat /\ poll.armed <= 1 /\ (poll.held => poll.armed > 0)
      /\ (wanted => poll.armed > 0) /\ (~wanted => poll = NotPolling)
  BY DEF Polls, StartPolling, NotPolling
<1>4. MaxHides \in Nat
  BY ScreenConstants
<1> QED
  BY <1>1, <1>2, <1>3, <1>4 DEF PollGoesOn, Chains

LEMMA StartsWithJob ==
  ASSUME Init, watched = "job"
  PROVE  JobInv
<1>1. /\ version \in [Jobs -> 0..MaxVersion] /\ route \in Routes /\ tab \in {"jobs", "other"}
      /\ full = NoFull /\ errors = {} /\ loading \in BOOLEAN /\ hidden = FALSE
      /\ watched \in Watched
      /\ left \in [faults : Nat, moves : Nat, hides : Nat] /\ Visits \in Nat /\ Visits <= MaxHides
      /\ NoData \in Datas /\ FreshQuery \in Queries /\ Settle(FreshQuery, FALSE) \in Queries
  BY Start
<1>2. ~PollsJob /\ ~PollsList
  BY <1>1 DEF PollsJob, PollsList
<1>3. /\ loading = (route.job # NoJob) /\ query = Settle(FreshQuery, FALSE)
      /\ requests = IF route.job = NoJob THEN {} ELSE Send({}, "fetch", route)
      /\ polls = [job |-> NotPolling, list |-> NotPolling]
  BY <1>2 DEF Init
<1>4. /\ Net(requests) /\ \A r \in requests : r.kind = "fetch" /\ r.live /\ r.at = route
      /\ route.job # NoJob => \E r \in requests : r.kind = "fetch" /\ r.live /\ r.at = route
  <2>1. CASE route.job = NoJob
    BY <1>3, <2>1, EmptyNet
  <2>2. CASE route.job # NoJob
    <3>1. route.job \in Jobs /\ "fetch" \in Kinds
      BY <1>1, <2>2 DEF Routes, Kinds
    <3>2. PICK m : /\ Send({}, "fetch", route) = {} \union {m}
                   /\ Fresh(m, "fetch", route) /\ Net({} \union {m})
      BY <1>1, <3>1, EmptyNet, SendNet
    <3>3. requests = {m} /\ Net(requests)
      BY <1>3, <2>2, <3>2
    <3> QED
      BY <3>2, <3>3 DEF Fresh
  <2> QED
    BY <2>1, <2>2
<1>5. /\ polls.job \in Polls /\ PollGoesOn(PollsJob, polls.job, LiveOnes(requests, "poll"), hidden)
      /\ Chains(polls.job, LiveOnes(requests, "poll"), Visits)
  <2>1. polls.job = IF PollsJob THEN StartPolling ELSE NotPolling
    BY <1>2, <1>3
  <2>2. PollsJob \in BOOLEAN /\ hidden \in BOOLEAN
    BY <1>1 DEF PollsJob
  <2>3. \A r \in requests : r.kind # "poll"
    BY <1>4
  <2>4. IsFiniteSet(requests)
    BY <1>4 DEF Net
  <2> QED
    BY <1>1, <2>1, <2>2, <2>3, <2>4, FirstTimer
<1>6. Typed
  BY <1>1, <1>3, <1>4, StoppedStays DEF Typed, TypedPage
<1>7. JobIsOfRoute
  BY <1>1, NoJobIsShown DEF JobIsOfRoute
<1>8. loading /\ route.job # NoJob => \E r \in requests : EndsLoading(r) /\ r.at = route
  BY <1>4 DEF EndsLoading
<1> QED
  BY <1>3, <1>4, <1>5, <1>6, <1>7, <1>8 DEF JobInv, FetchesAreWanted, JobKinds

LEMMA StartsWithQuery ==
  ASSUME Init, watched # "job"
  PROVE  QueryInv
<1>1. /\ version \in [Jobs -> 0..MaxVersion] /\ route \in Routes /\ tab \in {"jobs", "other"}
      /\ full = NoFull /\ errors = {} /\ loading \in BOOLEAN /\ hidden = FALSE
      /\ watched \in Watched
      /\ left \in [faults : Nat, moves : Nat, hides : Nat] /\ Visits \in Nat /\ Visits <= MaxHides
      /\ NoData \in Datas /\ FreshQuery \in Queries /\ Settle(FreshQuery, FALSE) \in Queries
  BY Start
<1>2. /\ loading = FALSE /\ query = FreshQuery /\ requests = Send({}, "query", route)
      /\ polls = [job |-> NotPolling, list |-> IF PollsList THEN StartPolling ELSE NotPolling]
  BY DEF Init
<1>3. "query" \in Kinds /\ "query" \notin JobKinds
  BY DEF Kinds, JobKinds
<1>4. PICK m : /\ Send({}, "query", route) = {} \union {m}
               /\ Fresh(m, "query", route) /\ Net({} \union {m})
  BY <1>1, <1>3, EmptyNet, SendNet
<1>5. requests = {m} /\ Net(requests) /\ IsFiniteSet(requests)
      /\ m.kind = "query" /\ m.at = route /\ m.newest /\ m.answer.kind # "list"
  BY <1>2, <1>4 DEF Fresh, Pending, Net
<1>6. /\ polls.list \in Polls
      /\ PollGoesOn(PollsList, polls.list, LiveOnes(requests, "tick"), hidden)
      /\ Chains(polls.list, LiveOnes(requests, "tick"), Visits)
  <2>1. polls.list = IF PollsList THEN StartPolling ELSE NotPolling
    BY <1>2
  <2>2. PollsList \in BOOLEAN /\ hidden \in BOOLEAN
    BY <1>1 DEF PollsList
  <2>3. \A r \in requests : r.kind # "tick"
    BY <1>5
  <2> QED
    BY <1>1, <1>5, <2>1, <2>2, <2>3, FirstTimer
<1>7. Typed
  BY <1>1, <1>2, <1>5, <1>6, StoppedStays DEF Typed, TypedPage
<1>8. query.data = NoData /\ query.loading
  BY <1>2 DEF FreshQuery
<1>9. Querying(requests, query, route.project, version)
  BY <1>5, <1>8 DEF Querying, OneNewest, Aging, NotNewer, NoData, QueryKinds
<1> QED
  BY <1>1, <1>2, <1>6, <1>7, <1>9 DEF QueryInv

-----------------------------------------------------------------------------
(* The invariant says of every request who waits for it (JobInv while the  *)
(* job is watched, QueryInv while a query is): every event of the screen   *)
(* and every render after it keeps it.                                     *)
THEOREM ScreenInvariant == Spec => []SInv
<1>1. Init => SInv
  BY StartsWithJob, StartsWithQuery DEF SInv
<1>2. SInv /\ [Next]_vars => SInv'
  <2>1. ASSUME SInv, Next PROVE SInv'
    BY <2>1, StepKeepsJob, StepKeepsQuery DEF SInv
  <2>2. ASSUME SInv, UNCHANGED vars PROVE SInv'
    <3>1. /\ version' = version /\ route' = route /\ tab' = tab /\ full' = full
          /\ loading' = loading /\ errors' = errors /\ polls' = polls /\ watched' = watched
          /\ query' = query /\ requests' = requests /\ hidden' = hidden /\ left' = left
      BY <2>2 DEF vars
    <3>2. CASE JobInv
      BY <3>1, <3>2 DEF SInv, JobInv, Typed, TypedPage, Visits, Net, Slots, Sound, FetchesAreWanted,
         EndsLoading, JobIsOfRoute, PollsJob, LiveOnes
    <3>3. CASE QueryInv
      BY <3>1, <3>3 DEF SInv, QueryInv, Typed, TypedPage, Visits, Net, Slots, Sound, Querying,
         OneNewest, Aging, NotNewer, PollsList, AllEnded, LiveOnes
    <3> QED
      BY <2>2, <3>2, <3>3 DEF SInv
  <2> QED
    BY <2>1, <2>2
<1> QED
  BY <1>1, <1>2, PTL DEF Spec

(* The state is of its type, a job loads only while a fetch or a refresh   *)
(* of the route on screen is under way, and a query exactly while its      *)
(* newest request is (ProjectDetail.jsx:145, useDashboardQuery.js:52).     *)
THEOREM SpinnersWaitForRequests == Spec => []ScreenInv
<1>1. ASSUME JobInv PROVE ScreenInv
  <2>1. /\ Visits \in Nat /\ MaxHides \in Nat /\ MaxNet \in Nat
        /\ IsFiniteSet(requests) /\ polls.job \in Polls
        /\ Cardinality(LiveOnes(requests, "poll")) \in Nat
    BY <1>1, VisitsType, LiveFinite, ScreenConstants DEF JobInv, Typed, Net
  <2>2. polls.job.armed \in Nat /\ polls.job.armed <= 1 + MaxHides
    <3>1. polls.job.armed + Cardinality(LiveOnes(requests, "poll")) + Visits <= 1 + MaxHides
      BY <1>1 DEF JobInv, Chains
    <3> QED
      BY <2>1, <3>1 DEF Polls
  <2>3. \A c \in {"job", "list"} : polls[c] \in [armed : 0..(MaxNet + MaxHides + 1), held : BOOLEAN]
    <3>1. polls.list = NotPolling
      BY <1>1 DEF JobInv
    <3>2. polls.job \in [armed : 0..(MaxNet + MaxHides + 1), held : BOOLEAN]
      BY <2>1, <2>2 DEF Polls
    <3>3. NotPolling \in [armed : 0..(MaxNet + MaxHides + 1), held : BOOLEAN]
      BY <2>1 DEF NotPolling
    <3> QED
      BY <3>1, <3>2, <3>3
  <2>4. TypeOK
    BY <1>1, <2>3 DEF JobInv, Typed, TypedPage, Net, Sound, Slots, TypeOK
  <2>5. (loading /\ route.job # NoJob) => \E r \in InFlight({"fetch", "refresh"}) : r.at = route
    BY <1>1 DEF JobInv, EndsLoading, InFlight
  <2>6. ~query.loading /\ ~query.refreshing
    BY <1>1 DEF JobInv, Settle, FreshQuery
  <2>7. ~\E r \in InFlight({"query", "tick"}) : r.newest
    BY <1>1 DEF JobInv, JobKinds, InFlight
  <2> QED
    BY <2>4, <2>5, <2>6, <2>7 DEF ScreenInv, LoadingIsTrue
<1>2. ASSUME QueryInv PROVE ScreenInv
  <2>1. /\ Visits \in Nat /\ MaxHides \in Nat /\ MaxNet \in Nat
        /\ IsFiniteSet(requests) /\ polls.list \in Polls
        /\ Cardinality(LiveOnes(requests, "tick")) \in Nat
    BY <1>2, QueryFacts, LiveFinite, ScreenConstants
  <2>2. polls.list.armed \in Nat /\ polls.list.armed <= 1 + MaxHides
    <3>1. polls.list.armed + Cardinality(LiveOnes(requests, "tick")) + Visits <= 1 + MaxHides
      BY <1>2 DEF QueryInv, Chains
    <3> QED
      BY <2>1, <3>1 DEF Polls
  <2>3. \A c \in {"job", "list"} : polls[c] \in [armed : 0..(MaxNet + MaxHides + 1), held : BOOLEAN]
    <3>1. polls.job = NotPolling
      BY <1>2 DEF QueryInv
    <3>2. polls.list \in [armed : 0..(MaxNet + MaxHides + 1), held : BOOLEAN]
      BY <2>1, <2>2 DEF Polls
    <3>3. NotPolling \in [armed : 0..(MaxNet + MaxHides + 1), held : BOOLEAN]
      BY <2>1 DEF NotPolling
    <3> QED
      BY <3>1, <3>2, <3>3
  <2>4. TypeOK
    BY <1>2, <2>3 DEF QueryInv, Typed, TypedPage, Net, Sound, Slots, TypeOK
  <2>5. InFlight({"query", "tick"}) = requests
    BY <1>2 DEF QueryInv, Querying, QueryKinds, InFlight
  <2> QED
    BY <1>2, <2>4, <2>5 DEF QueryInv, Querying, ScreenInv, LoadingIsTrue
<1>3. SInv => ScreenInv
  BY <1>1, <1>2 DEF SInv
<1> QED
  BY <1>3, ScreenInvariant, PTL

(* The job on screen is of the project in the URL, and another one than    *)
(* the job in the URL only while that one is being fetched; the data of    *)
(* another project are shown only while the query is asked again or after  *)
(* it has failed (activeRouteRef, ProjectDetail.jsx:122-150).              *)
THEOREM RouteIsShown == Spec => []ShowsTheRoute
<1>1. ASSUME JobInv PROVE ShowsTheRoute
  <2>1. query.data.of = "nothing"
    BY <1>1 DEF JobInv, Settle, FreshQuery, NoData
  <2> QED
    BY <1>1, <2>1 DEF JobInv, JobIsOfRoute, ShowsTheRoute, InFlight
<1>2. ASSUME QueryInv PROVE ShowsTheRoute
  BY <1>2, NoJobIsShown DEF QueryInv, Querying, QueryKinds, ShowsTheRoute, InFlight
<1>3. SInv => ShowsTheRoute
  BY <1>1, <1>2 DEF SInv
<1> QED
  BY <1>3, ScreenInvariant, PTL

(* On a visible page whatever is to be polled has a timer armed or a tick  *)
(* under way that will arm one, however often the page was hidden, a poll  *)
(* failed or the job changed (usePolling.js:14-31).                        *)
THEOREM PollsNeverDie == Spec => []KeepsPolling
<1>1. ASSUME JobInv PROVE KeepsPolling
  BY <1>1 DEF JobInv, PollGoesOn, LiveOnes, PollsList, KeepsPolling, InFlight
<1>2. ASSUME QueryInv PROVE KeepsPolling
  <2>1. ~PollsJob
    BY <1>2 DEF QueryInv, PollsJob
  <2>2. watched = "project" => query.timer \/ \E r \in InFlight({"query"}) : r.newest
    BY <1>2 DEF QueryInv, Querying, QueryKinds, InFlight
  <2>3. (PollsList /\ ~hidden) => polls.list.armed > 0 \/ \E r \in InFlight({"tick"}) : r.live
    BY <1>2 DEF QueryInv, PollGoesOn, LiveOnes, InFlight
  <2> QED
    BY <2>1, <2>2, <2>3 DEF KeepsPolling
<1>3. SInv => KeepsPolling
  BY <1>1, <1>2 DEF SInv
<1> QED
  BY <1>3, ScreenInvariant, PTL

(* The data change only by the newest answer, which is not older than what *)
(* is shown of the same project.                                           *)
LEMMA DataAreReplaced ==
  ASSUME QueryInv, Next
  PROVE  \/ query'.data = query.data
         \/ \E r \in requests : /\ r.newest /\ r.answer.kind = "list"
                                /\ query'.data = [of |-> r.at.project, versions |-> r.answer.versions]
<1>1. \A manual \in BOOLEAN : Execute(query, manual).data = query.data
  BY QueryFacts DEF Execute, Queries
<1>2. ASSUME NEW r \in requests, QueryArrives(r)
      PROVE  \/ query'.data = query.data
             \/ /\ r.newest /\ r.answer.kind = "list"
                /\ query'.data = [of |-> r.at.project, versions |-> r.answer.versions]
  <2>1. r.answer \in {Pending, Lost} \/ r.answer.kind = "list"
    BY <1>2, QueryFacts DEF Net, Sound, QueryArrives, QueryKinds, ListAnswers
  <2>2. query \in Queries
    BY QueryFacts
  <2> QED
    BY <1>2, <2>1, <2>2 DEF QueryArrives, GotData, GotError, Settle, Queries
<1>3. ASSUME NEW r \in requests PROVE ~FetchArrives(r) /\ ~PollArrives(r) /\ ~RefreshArrives(r)
  BY QueryFacts DEF FetchArrives, PollArrives, RefreshArrives, Querying, QueryKinds
<1>4. \A new \in Routes : Navigate(new) => query'.data = query.data
  BY <1>1, QueryFacts DEF Navigate
<1>5. /\ RefreshQuery \/ QueryTimer \/ Show => query'.data = query.data
      /\ \A theHeld \in BOOLEAN : ListTimer(theHeld) => query'.data = query.data
  BY <1>1 DEF RefreshQuery, QueryTimer, Show, ListTimer
<1>6. /\ SwitchTab \/ RefreshJob \/ Hide => query' = query
      /\ \A theHeld \in BOOLEAN : JobTimer(theHeld) => query' = query
      /\ \A j \in Jobs : ChangeJob(j) => query' = query
      /\ \A r \in requests : Serve(r) \/ Lose(r) => query' = query
  BY DEF SwitchTab, RefreshJob, Hide, JobTimer, ChangeJob, Serve, Lose
<1> QED
  BY <1>2, <1>3, <1>4, <1>5, <1>6 DEF Next, Arrives, Timer

(* While its project stays, a query shows the states of the jobs in the    *)
(* order in which the server had them: requestIdRef drops every answer     *)
(* but the newest, useDashboardQuery.js:52-70.                             *)
THEOREM QueriesShowLaterStates == Spec => QueryNeverGoesBack
<1> DEFINE Later == query'.data.of = query.data.of /\ query.data # NoData =>
                      \A j \in DOMAIN query.data.versions :
                        query.data.versions[j] <= query'.data.versions[j]
<1>1. ASSUME query \in Queries, query'.data = query.data PROVE Later
  <2> SUFFICES ASSUME query.data # NoData, NEW j \in DOMAIN query.data.versions
               PROVE  query.data.versions[j] <= query.data.versions[j]
    BY <1>1
  <2>1. query.data.versions[j] \in 0..MaxVersion
    BY <1>1 DEF Queries, Datas, Lists
  <2> QED
    BY <2>1, ScreenConstants
<1>2. ASSUME SInv, [Next]_vars PROVE [Later]_vars
  <2>1. CASE JobInv
    BY <2>1 DEF JobInv, Settle, FreshQuery
  <2>2. CASE QueryInv /\ Next
    <3>1. query \in Queries
      BY <2>2, QueryFacts
    <3>2. ASSUME NEW r \in requests, r.newest, r.answer.kind = "list",
                 query'.data = [of |-> r.at.project, versions |-> r.answer.versions]
          PROVE  Later
      <4> SUFFICES ASSUME query'.data.of = query.data.of, query.data # NoData,
                          NEW j \in DOMAIN query.data.versions
                   PROVE  query.data.versions[j] <= query'.data.versions[j]
        OBVIOUS
      <4>1. query.data.of = r.at.project /\ query'.data.versions = r.answer.versions
        BY <3>2
      <4>2. j \in JobsOf(r.at.project)
        BY <3>1, <4>1 DEF Queries, Datas, Lists
      <4>3. NotNewer(query.data, r.at.project, r.answer.versions)
        BY <2>2, <3>2 DEF QueryInv, Querying, Aging
      <4> QED
        BY <4>1, <4>2, <4>3 DEF NotNewer
    <3> QED
      BY <1>1, <2>2, <3>1, <3>2, DataAreReplaced
  <2>3. CASE UNCHANGED vars
    BY <2>3
  <2> QED
    BY <1>2, <2>1, <2>2, <2>3 DEF SInv
<1> QED
  BY <1>2, ScreenInvariant, PTL DEF Spec, QueryNeverGoesBack

=============================================================================
