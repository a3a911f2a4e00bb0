------------------------------ MODULE JobScreen ------------------------------
(***************************************************************************)
(* The project workspace of the dashboard: the job it shows in full        *)
(* (src/web/src/screens/ProjectDetail.jsx, the effects of lines 76-202)    *)
(* and the lists it reads through useDashboardQuery, while the user        *)
(* navigates, hides the page and refreshes, the server's jobs go on, and   *)
(* answers come late, out of order or not at all.                          *)
(*                                                                         *)
(* The job shown and the queries of the screen share nothing but the       *)
(* route, so one of them is watched in each behaviour: the job, the list   *)
(* of jobs, polled by usePolling, or the project, polled by the query's    *)
(* own interval.                                                           *)
(***************************************************************************)
EXTENDS DashboardHooks, FiniteSets, FiniteSetsExt

CONSTANTS Projects,   \* the projects a route may name
          Jobs,       \* the jobs a route may name
          NoJob,      \* no job in the route
          Owner,      \* the project of each job
          MaxVersion, \* bound: state changes of a job
          MaxNet,     \* bound: requests in flight
          MaxFaults,  \* bound: requests that fail
          MaxMoves,   \* bound: navigations
          MaxHides    \* bound: how often the page is hidden

ASSUME ScreenConstants ==
  /\ NoJob \notin Jobs /\ Owner \in [Jobs -> Projects]
  /\ {MaxVersion, MaxFaults, MaxMoves, MaxHides} \subseteq Nat
  /\ MaxNet \in Nat \ {0}

VARIABLES
  version,   \* server: how often the state of each job has changed
  route,     \* the project and the job of the URL (selectedJobId)
  tab,       \* activeTab: the jobs, or another tab
  full,      \* fullJob: a job and the version shown of it
  loading,   \* isJobLoading
  errors,    \* which of jobFetchError, jobRefreshError is set
  polls,     \* usePolling of the selected job and of the list
  watched,   \* what is watched: the "job", the "jobs" or the "project"
  query,     \* the state of that query
  requests,  \* the requests in flight, or answered and not yet handled
  hidden,    \* document.hidden
  left       \* what is left of the faults, moves and hides

vars == <<version, route, tab, full, loading, errors, polls, watched, query, requests, hidden, left>>
page == <<full, loading, errors>>

Watched == {"job", "jobs", "project"}
Routes == [project : Projects, job : Jobs \union {NoJob}]
NoFull == [job |-> NoJob]
JobsOf(p) == { j \in Jobs : Owner[j] = p }

\* A job runs, ends, and runs again when it is retried (TERMINAL_STATES).
Ended(v) == v % 2 = 1

-----------------------------------------------------------------------------
(* Requests: the initial fetch, a poll and a manual refresh of the job; a  *)
(* query, or the tick of usePolling that makes one.                        *)

Pending == [kind |-> "pending"]
Lost    == [kind |-> "lost"]
Answers ==
  {Pending, Lost} \union [kind : {"job"}, version : 0..MaxVersion]
    \union UNION { [kind : {"list"}, versions : [JobsOf(p) -> 0..MaxVersion]] : p \in Projects }

Kinds == {"fetch", "poll", "refresh", "query", "tick"}

Requests == [slot : 1..MaxNet, kind : Kinds, at : Routes, live : BOOLEAN, newest : BOOLEAN,
             answer : Answers]

\* A request made at route `at`.  Two that are alike differ in the slot.
Send(net, kind, at) ==
  net \union { [slot |-> Min((1..MaxNet) \ { r.slot : r \in net }), kind |-> kind, at |-> at,
                live |-> TRUE, newest |-> TRUE, answer |-> Pending] }

\* A new request of the query: the answers to the others are ignored.
SendQuery(net, kind, at) ==
  Send({ [r EXCEPT !.newest = r.kind \notin {"query", "tick"}] : r \in net }, kind, at)

RoomFor(n) == Cardinality(requests) + n <= MaxNet

Spend(what) == left[what] > 0 /\ left' = [left EXCEPT ![what] = @ - 1]

-----------------------------------------------------------------------------
(* The effects of usePolling.                                              *)

\* The selected job is polled while the job that is shown has not ended; right
\* after a navigation that is still the previous job.
PollsJob == route.job # NoJob /\ full # NoFull /\ ~Ended(full.version)

\* The list is polled while it is on screen, until no listed job is active.
AllEnded == query.data # NoData /\ \A j \in DOMAIN query.data.versions : Ended(query.data.versions[j])
PollsList == watched = "jobs" /\ tab = "jobs" /\ route.job = NoJob /\ ~AllEnded

JobDeps  == <<route, PollsJob>>
ListDeps == <<route, tab, PollsList>>

\* After a render in which its dependencies changed an effect is run again: its
\* timers are gone and the ticks that are under way will not arm another.  A
\* fetch is cancelled by a change of route.  Requests that can no longer have an
\* effect are forgotten.
Effects(net, job, list) ==
  LET keeps(r) == CASE r.kind = "fetch" -> r.at = route'
                    [] r.kind = "poll"  -> JobDeps' = JobDeps
                    [] r.kind = "tick"  -> ListDeps' = ListDeps
                    [] OTHER -> TRUE
      cut(r)   == [r EXCEPT !.live = r.live /\ keeps(r)]
      idle(r)  == \/ r.kind = "fetch" /\ ~r.live
                  \/ r.kind \in {"query", "tick"} /\ ~r.newest /\ (r.kind = "tick" => ~r.live)
  IN  /\ requests' = { r \in { cut(q) : q \in net } : ~idle(r) }
      /\ polls' = [job  |-> IF JobDeps' = JobDeps THEN job
                            ELSE IF PollsJob' THEN StartPolling ELSE NotPolling,
                   list |-> IF ListDeps' = ListDeps THEN list
                            ELSE IF PollsList' THEN StartPolling ELSE NotPolling]

-----------------------------------------------------------------------------
Init ==
  /\ version = [j \in Jobs |-> 0]
  /\ route \in Routes
  /\ tab = IF route.job = NoJob THEN "other" ELSE "jobs"
  /\ full = NoFull /\ errors = {}
  /\ watched \in Watched
  /\ IF watched = "job"
       THEN /\ loading = (route.job # NoJob) /\ query = Settle(FreshQuery, FALSE)
            /\ requests = IF route.job = NoJob THEN {} ELSE Send({}, "fetch", route)
       ELSE /\ loading = FALSE /\ query = FreshQuery
            /\ requests = Send({}, "query", route)
  /\ polls = [job |-> NotPolling, list |-> IF PollsList THEN StartPolling ELSE NotPolling]
  /\ hidden = FALSE
  /\ left = [faults |-> MaxFaults, moves |-> MaxMoves, hides |-> MaxHides]

(* The server.                                                             *)

\* A job ends, or is retried.  While only the job on screen is watched, what
\* happens to another one commutes with every step up to the one that opens it.
ChangeJob(j) ==
  /\ version[j] < MaxVersion
  /\ watched = "job" => j = route.job
  /\ version' = [version EXCEPT ![j] = @ + 1]
  /\ UNCHANGED <<route, tab, page, polls, watched, query, requests, hidden, left>>

\* getJob and getProjectJobs read the records as they are.
Serve(r) ==
  /\ r.answer = Pending
  /\ LET answer == IF r.kind \in {"query", "tick"}
                     THEN [kind |-> "list", versions |-> [j \in JobsOf(r.at.project) |-> version[j]]]
                     ELSE [kind |-> "job", version |-> version[r.at.job]]
     IN  requests' = (requests \ {r}) \union {[r EXCEPT !.answer = answer]}
  /\ UNCHANGED <<version, route, tab, page, polls, watched, query, hidden, left>>

\* The request fails.
Lose(r) ==
  /\ r.answer = Pending /\ Spend("faults")
  /\ requests' = (requests \ {r}) \union {[r EXCEPT !.answer = Lost]}
  /\ UNCHANGED <<version, route, tab, page, polls, watched, query, hidden>>

-----------------------------------------------------------------------------
(* The user.                                                               *)

\* Broken variant: the job of the previous project stays on screen.
SelectedKeeping(new) ==
  /\ full' = IF new.job = NoJob THEN NoFull ELSE full
  /\ errors' = {}
  /\ loading' = (loading \/ new.job # NoJob \/ (new.project # route.project /\ route.job # NoJob))
  /\ tab' = IF new.job # NoJob THEN "jobs" ELSE tab

\* The screen after a navigation: another project or no job clears what is
\* shown, another job of the project does not.  (A change of project first asks
\* for the job that was selected, and cancels that when the selection follows:
\* all that stays of it is the loading flag.)
Selected(new) ==
  /\ full' = IF new.project # route.project \/ new.job = NoJob THEN NoFull ELSE full
  /\ errors' = {}
  /\ loading' = (loading \/ new.job # NoJob \/ (new.project # route.project /\ route.job # NoJob))
  /\ tab' = IF new.job # NoJob THEN "jobs" ELSE tab

\* A link, the back button or a row of the list: the effects fetch the job and
\* ask the queries of another project.
Navigate(new) ==
  /\ new # route /\ Spend("moves") /\ RoomFor(1)
  /\ route' = new
  /\ UNCHANGED <<version, watched, hidden>>
  /\ IF watched = "job"
       THEN /\ Selected(new)
            /\ UNCHANGED query
            /\ Effects(IF new.job = NoJob THEN requests ELSE Send(requests, "fetch", new),
                       polls.job, polls.list)
       ELSE /\ tab' = IF new.job # NoJob THEN "jobs" ELSE tab
            /\ UNCHANGED page
            /\ IF new.project = route.project
                 THEN UNCHANGED query /\ Effects(requests, polls.job, polls.list)
                 ELSE /\ query' = Execute(query, FALSE)
                      /\ Effects(SendQuery(requests, "query", new), polls.job, polls.list)

SwitchTab ==
  /\ watched = "jobs"
  /\ tab' = IF tab = "jobs" THEN "other" ELSE "jobs"
  /\ UNCHANGED <<version, route, page, watched, query, hidden, left>>
  /\ Effects(requests, polls.job, polls.list)

\* The Refresh button of the job, disabled while it loads.
RefreshJob ==
  /\ route.job # NoJob /\ full # NoFull /\ ~loading /\ RoomFor(1)
  /\ loading' = TRUE
  /\ requests' = Send(requests, "refresh", route)
  /\ UNCHANGED <<version, route, tab, full, errors, polls, watched, query, hidden, left>>

\* The Refresh button of the screen, and the refreshes after a save.
RefreshQuery ==
  /\ watched # "job" /\ RoomFor(1)
  /\ query' = Execute(query, TRUE)
  /\ UNCHANGED <<version, route, tab, page, watched, hidden, left>>
  /\ Effects(SendQuery(requests, "query", route), polls.job, polls.list)

Hide ==
  /\ ~hidden /\ Spend("hides")
  /\ hidden' = TRUE
  /\ UNCHANGED <<version, route, tab, page, polls, watched, query, requests>>

\* tick of the two polls on a visible page.
TickJob(net)  == Send(net, "poll", route)
TickList(net) == SendQuery(net, "tick", route)

\* Broken variant: a page that is shown again does not tick.
ShowQuietly ==
  /\ hidden /\ RoomFor(1)
  /\ hidden' = FALSE
  /\ UNCHANGED <<version, route, tab, page, watched, query, left>>
  /\ Effects(requests, StopHeld(polls.job), StopHeld(polls.list))

\* visibilitychange: an effect that polls ticks at once, whether or not a tick
\* of it is still waiting for its answer.
Show ==
  /\ hidden /\ RoomFor(1)
  /\ hidden' = FALSE
  /\ query' = IF PollsList THEN Execute(query, TRUE) ELSE query
  /\ UNCHANGED <<version, route, tab, page, watched, left>>
  /\ Effects(IF PollsJob THEN TickJob(requests) ELSE IF PollsList THEN TickList(requests) ELSE requests,
             StopHeld(polls.job), StopHeld(polls.list))

-----------------------------------------------------------------------------
(* Timers.  A timer that fires while the page is hidden ends its chain.    *)

JobTimer(theHeld) ==
  /\ CanFire(polls.job, theHeld) /\ (hidden \/ RoomFor(1))
  /\ UNCHANGED <<version, route, tab, page, watched, query, hidden, left>>
  /\ Effects(IF hidden THEN requests ELSE TickJob(requests), Fire(polls.job, theHeld), polls.list)

ListTimer(theHeld) ==
  /\ CanFire(polls.list, theHeld) /\ (hidden \/ RoomFor(1))
  /\ query' = IF hidden THEN query ELSE Execute(query, TRUE)
  /\ UNCHANGED <<version, route, tab, page, watched, hidden, left>>
  /\ Effects(IF hidden THEN requests ELSE TickList(requests), polls.job, Fire(polls.list, theHeld))

\* The interval of useDashboardQuery, which does not look at document.hidden.
QueryTimer ==
  /\ query.timer /\ RoomFor(1)
  /\ query' = Execute(query, TRUE)
  /\ UNCHANGED <<version, route, tab, page, watched, hidden, left>>
  /\ Effects(SendQuery(requests, "query", route), polls.job, polls.list)

-----------------------------------------------------------------------------
(* Answers.                                                                *)

InProject(r) == Owner[r.at.job] = r.at.project

\* The answer is of the route on screen and of a job of its project.
ShowAnswer(r, cleared) ==
  IF InProject(r)
    THEN full' = [job |-> r.at.job, version |-> r.answer.version] /\ errors' = errors \ cleared
    ELSE full' = NoFull /\ errors' = errors \union {"fetch"}

\* Broken variant: a fetch that fails leaves the spinner.
FetchSpins(r) ==
  /\ r.kind = "fetch" /\ r.answer # Pending
  /\ IF r.answer = Lost THEN full' = NoFull /\ errors' = errors \union {"fetch"} /\ UNCHANGED loading
     ELSE ShowAnswer(r, {"fetch"}) /\ loading' = FALSE
  /\ UNCHANGED <<version, route, tab, watched, query, hidden, left>>
  /\ Effects(requests \ {r}, polls.job, polls.list)

\* The initial fetch: a failure clears the job.
FetchArrives(r) ==
  /\ r.kind = "fetch" /\ r.answer # Pending
  /\ IF r.answer = Lost THEN full' = NoFull /\ errors' = errors \union {"fetch"}
     ELSE ShowAnswer(r, {"fetch"})
  /\ loading' = FALSE
  /\ UNCHANGED <<version, route, tab, watched, query, hidden, left>>
  /\ Effects(requests \ {r}, polls.job, polls.list)

\* Broken variant: a poll that fails is the last one.
PollStops(r) ==
  /\ r.kind = "poll" /\ r.answer # Pending
  /\ IF r.at # route THEN UNCHANGED <<full, errors>>
     ELSE IF r.answer = Lost THEN full' = full /\ errors' = errors \union {"refresh"}
     ELSE ShowAnswer(r, {"refresh"})
  /\ UNCHANGED <<version, route, tab, loading, watched, query, hidden, left>>
  /\ Effects(requests \ {r}, IF r.live /\ r.answer # Lost THEN Rearm(polls.job) ELSE polls.job, polls.list)

\* A poll tests the route only, so the answer to a tick of an effect that has
\* been replaced is shown as well; only a tick still wanted arms the next.
PollArrives(r) ==
  /\ r.kind = "poll" /\ r.answer # Pending
  /\ IF r.at # route THEN UNCHANGED <<full, errors>>
     ELSE IF r.answer = Lost THEN full' = full /\ errors' = errors \union {"refresh"}
     ELSE ShowAnswer(r, {"refresh"})
  /\ UNCHANGED <<version, route, tab, loading, watched, query, hidden, left>>
  /\ Effects(requests \ {r}, IF r.live THEN Rearm(polls.job) ELSE polls.job, polls.list)

RefreshArrives(r) ==
  /\ r.kind = "refresh" /\ r.answer # Pending
  /\ IF r.at # route THEN UNCHANGED page
     ELSE /\ IF r.answer = Lost THEN full' = full /\ errors' = errors \union {"refresh"}
             ELSE ShowAnswer(r, {"fetch", "refresh"})
          /\ loading' = FALSE
  /\ UNCHANGED <<version, route, tab, watched, query, hidden, left>>
  /\ Effects(requests \ {r}, polls.job, polls.list)

\* Broken variant: every answer is shown.
QueryShowsAny(r) ==
  /\ r.kind \in {"query", "tick"} /\ r.answer # Pending
  /\ LET interval == watched = "project"
     IN  query' = IF r.answer = Lost THEN GotError(query, interval)
                  ELSE GotData(query, [of |-> r.at.project, versions |-> r.answer.versions], interval)
  /\ UNCHANGED <<version, route, tab, page, watched, hidden, left>>
  /\ Effects(requests \ {r}, polls.job,
             IF r.kind = "tick" /\ r.live THEN Rearm(polls.list) ELSE polls.list)

\* The answer to a query, which only the newest request may set.
QueryArrives(r) ==
  /\ r.kind \in {"query", "tick"} /\ r.answer # Pending
  /\ LET interval == watched = "project"
     IN  query' = IF ~r.newest THEN query
                  ELSE IF r.answer = Lost THEN GotError(query, interval)
                  ELSE GotData(query, [of |-> r.at.project, versions |-> r.answer.versions], interval)
  /\ UNCHANGED <<version, route, tab, page, watched, hidden, left>>
  /\ Effects(requests \ {r}, polls.job,
             IF r.kind = "tick" /\ r.live THEN Rearm(polls.list) ELSE polls.list)

-----------------------------------------------------------------------------
Arrives(r) == FetchArrives(r) \/ PollArrives(r) \/ RefreshArrives(r) \/ QueryArrives(r)
Timer == QueryTimer \/ \E theHeld \in BOOLEAN : JobTimer(theHeld) \/ ListTimer(theHeld)

Next ==
  \/ \E j \in Jobs : ChangeJob(j)
  \/ \E r \in requests : Serve(r) \/ Lose(r) \/ Arrives(r)
  \/ \E new \in Routes : Navigate(new)
  \/ SwitchTab \/ RefreshJob \/ RefreshQuery \/ Hide \/ Show
  \/ Timer

Spec == Init /\ [][Next]_vars

(* Requests go on being answered and answers being handled, and the timers   *)
(* fire; the user, the jobs and the faults are free.  A timer that fires     *)
(* with its slots taken by the bound waits for one, hence strong fairness.   *)
Fairness ==
  /\ WF_vars(\E r \in requests : Serve(r) \/ Arrives(r))
  /\ SF_vars(\E theHeld \in BOOLEAN : JobTimer(theHeld))

FairSpec == Spec /\ Fairness

-----------------------------------------------------------------------------
(* Properties.                                                             *)

\* The type invariant.
TypeOK ==
  /\ version \in [Jobs -> 0..MaxVersion]
  /\ route \in Routes /\ tab \in {"jobs", "other"}
  /\ full \in {NoFull} \union [job : Jobs, version : 0..MaxVersion]
  /\ loading \in BOOLEAN /\ hidden \in BOOLEAN /\ errors \subseteq {"fetch", "refresh"}
  /\ \A c \in {"job", "list"} : polls[c] \in [armed : 0..(MaxNet + MaxHides + 1), held : BOOLEAN]
  /\ watched \in Watched
  /\ requests \subseteq Requests
  /\ \A q, r \in requests : q.slot = r.slot => q = r

InFlight(kinds) == { r \in requests : r.kind \in kinds }

\* A spinner never turns for a request that has been forgotten: the job loads
\* only while a fetch or a refresh of the route on screen is under way, the query
\* exactly while its newest request is (ProjectDetail.jsx:145, useDashboardQuery.js:52).
LoadingIsTrue ==
  /\ (loading /\ route.job # NoJob) =>
       \E r \in InFlight({"fetch", "refresh"}) : r.at = route
  /\ (query.loading \/ query.refreshing) <=> \E r \in InFlight({"query", "tick"}) : r.newest

ScreenInv == TypeOK /\ LoadingIsTrue

\* What is on screen is of the route: a job of the project in the URL, and
\* another one than the job in the URL only while that is being fetched; the
\* data of another project only while the query is asked again or has failed
\* (the tests of activeRouteRef, ProjectDetail.jsx:122-150, and requestIdRef).
ShowsTheRoute ==
  /\ route.job = NoJob => full = NoFull
  /\ full # NoFull => Owner[full.job] = route.project
  /\ full.job \notin {NoJob, route.job} => \E r \in InFlight({"fetch"}) : r.live
  /\ query.data.of \notin {"nothing", route.project} =>
       query.error \/ \E r \in InFlight({"query", "tick"}) : r.newest

\* No poll dies: on a visible page whatever is to be polled has a timer armed or
\* a tick under way that will arm one, after any hiding, failure, navigation or
\* change of the job (usePolling.js:14-31).
KeepsPolling ==
  /\ (PollsJob /\ ~hidden) => polls.job.armed > 0 \/ \E r \in InFlight({"poll"}) : r.live
  /\ (PollsList /\ ~hidden) => polls.list.armed > 0 \/ \E r \in InFlight({"tick"}) : r.live
  /\ watched = "project" => query.timer \/ \E r \in InFlight({"query"}) : r.newest

\* While its project stays, the answers of a query are shown in the order in
\* which the server gave them: an older state never replaces a newer one.
QueryNeverGoesBack ==
  [][query'.data.of = query.data.of /\ query.data # NoData =>
       \A j \in DOMAIN query.data.versions : query.data.versions[j] <= query'.data.versions[j]]_vars

\* The end of a job that is shown as running is shown, although polls fail,
\* overlap or stop while the page is hidden.
ShownRunning(j) == full = [job |-> j, version |-> 0] /\ route.job = j /\ ~hidden
EndIsShown ==
  \A j \in Jobs : (ShownRunning(j) /\ version[j] = 1) ~> (~ShownRunning(j) \/ version[j] # 1)
=============================================================================
