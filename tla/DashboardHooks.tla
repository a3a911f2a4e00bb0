--------------------------- MODULE DashboardHooks ---------------------------
(***************************************************************************)
(* The two hooks by which the screens of the dashboard stay up to date,    *)
(* as operators on what one use of a hook remembers:                       *)
(*                                                                         *)
(*   usePolling (src/web/src/hooks/usePolling.js) calls back every five    *)
(*   seconds while it is enabled and the page is visible;                  *)
(*   useDashboardQuery (src/web/src/hooks/useDashboardQuery.js) keeps the  *)
(*   last answer to a query and lets only its newest request set it.       *)
(***************************************************************************)
EXTENDS Naturals

-----------------------------------------------------------------------------
(* usePolling: how many timers of the effect are armed, and whether        *)
(* `timerId` names one of them (it may name a timer that has fired).       *)

NotPolling   == [armed |-> 0, held |-> FALSE]
StartPolling == [armed |-> 1, held |-> TRUE]

\* The end of a tick arms the next one and forgets the timer held before.
Rearm(p) == [armed |-> p.armed + 1, held |-> TRUE]

\* One armed timer fires: the one held, or one that has been forgotten.
CanFire(p, theHeld) ==
  IF theHeld THEN p.held ELSE p.armed > (IF p.held THEN 1 ELSE 0)
Fire(p, theHeld) == [armed |-> p.armed - 1, held |-> p.held /\ ~theHeld]

\* handleVisibilityChange stops the timer held before it ticks at once.
StopHeld(p) == [armed |-> IF p.held THEN p.armed - 1 ELSE p.armed, held |-> FALSE]

-----------------------------------------------------------------------------
(* useDashboardQuery.                                                      *)

NoData == [of |-> "nothing"]

FreshQuery ==
  [data |-> NoData, error |-> FALSE, loading |-> TRUE, refreshing |-> FALSE, timer |-> FALSE]

\* execute: every call that gets past the no-overlap guard has stopped the
\* timer.  Only the first load of the component counts as loading.
Execute(q, manual) ==
  IF manual \/ q.data # NoData
    THEN [q EXCEPT !.timer = FALSE, !.refreshing = TRUE]
    ELSE [q EXCEPT !.timer = FALSE, !.loading = TRUE]

\* The newest request ends: loaded data survive an error, and a query with an
\* interval arms its timer again either way.
Settle(q, interval) ==
  [q EXCEPT !.loading = FALSE, !.refreshing = FALSE, !.timer = interval]
GotData(q, data, interval) == [Settle(q, interval) EXCEPT !.data = data, !.error = FALSE]
GotError(q, interval)      == [Settle(q, interval) EXCEPT !.error = TRUE]
=============================================================================
