------------------------------ MODULE ViewPages ------------------------------
(***************************************************************************)
(* The pages that only show what the server has.  Some load it once, some  *)
(* again when a filter is chosen, some on a timer, and two page by page.   *)
(* What is filtered, unfolded or revealed of what is there stays in the    *)
(* page and is left out.                                                   *)
(***************************************************************************)
EXTENDS WorkloadsPage

-----------------------------------------------------------------------------
(* Loaded once: HelmPage, JobsPage, ObjectsPage, QuotasPage and VaultPage. *)
(* Where several lists are loaded, one that fails is a failure.            *)

HelmLoad    == Bare(Plain)
JobsLoad    == Bare(Plain)
ObjectsLoad == Bare([Plain EXCEPT !.spins = TRUE, !.wipes = TRUE])
QuotasLoad  == Bare([Plain EXCEPT !.spins = TRUE])
VaultLoad   == Bare([Plain EXCEPT !.clears = TRUE])

-----------------------------------------------------------------------------
(* Loaded again when a filter is chosen: ServicesPage (the namespace) and  *)
(* RBACPage (without the roles of the system).                             *)

ServicesRefresh == Bare([Plain EXCEPT !.spins = TRUE, !.clears = TRUE])

ServicesNamespace == page = "services" /\ \E f \in Filters : Choose(f, ServicesRefresh)

RBACLoad == Bare([Plain EXCEPT !.spins = TRUE, !.wipes = TRUE])

RBACHideSystem == page = "rbac" /\ \E f \in Filters : Choose(f, RBACLoad)

-----------------------------------------------------------------------------
(* On a timer: EventsPage, which can be paused, CapacityPage and the       *)
(* AlertsPanel of the dashboard.                                           *)

EventsLoad     == [Plain EXCEPT !.clears = TRUE]
EventsReload   == [EventsLoad EXCEPT !.spins = TRUE]

EventsFilters == page = "events" /\ \E f \in Filters : Choose(f, Bare(EventsReload))

\* The timer is set again, with the filter there is, when that is changed.
EventsPoll == page = "events" /\ open["paused"] = {} /\ Load(EventsLoad)

EventsButtons ==
    /\ page = "events"
    /\ \/ open["paused"] = {} /\ Show("paused", Form)
       \/ Hide("paused")
       \/ Load(EventsReload)

CapacityLoad == [Plain EXCEPT !.spins = TRUE, !.clears = TRUE]
CapacityPoll == page = "capacity" /\ Load(CapacityLoad)

AlertsRefresh == [Plain EXCEPT !.clears = TRUE]
AlertsPoll    == page = "alerts" /\ Load(AlertsRefresh)

-----------------------------------------------------------------------------
(* Page by page: AuditPage and AlertHistoryPage.  The button that loads    *)
(* the next page is there when the list is shown and has more.             *)

AuditLoad == Bare([Plain EXCEPT !.spins = TRUE, !.wipes = TRUE])
AuditMore == [Bare([Plain EXCEPT !.stops = FALSE, !.wipes = TRUE])
                 EXCEPT !.flag = {"fetch"}, !.appends = TRUE]

AuditFilters  == page = "audit" /\ \E f \in Filters : Choose(f, AuditLoad)
AuditLoadMore == page = "audit" /\ ~loading /\ Idle("fetch") /\ LoadMore(AuditMore)

\* Whatever load ends lowers both flags.
HistoryLoad == [Bare([Plain EXCEPT !.spins = TRUE, !.clears = TRUE]) EXCEPT !.flag = {"fetch"}]
HistoryMore == [Bare([Plain EXCEPT !.clears = TRUE]) EXCEPT !.flag = {"fetch"}, !.appends = TRUE]

HistoryFilters  == page = "alert-history" /\ \E f \in Filters : Choose(f, HistoryLoad)
HistoryLoadMore ==
    page = "alert-history" /\ ~loading /\ Idle("fetch") /\ LoadMore(HistoryMore)

-----------------------------------------------------------------------------
ViewPage ==
    \/ ServicesNamespace \/ RBACHideSystem
    \/ EventsFilters \/ EventsButtons
    \/ AuditFilters \/ AuditLoadMore \/ HistoryFilters \/ HistoryLoadMore
=============================================================================
