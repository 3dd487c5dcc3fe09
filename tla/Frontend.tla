------------------------------ MODULE Frontend ------------------------------
(***************************************************************************)
(* The web interface: one page, or one view of a stream, is mounted, and   *)
(* there are the server and the users of other browsers.                   *)
(***************************************************************************)
EXTENDS Dashboard, LogStream

ListPages == {"configmaps", "secrets", "namespaces", "storage", "cronjobs", "users",
              "notifications", "alert-rules", "workloads", "helm", "jobs", "objects",
              "quotas", "key-vault", "services", "rbac", "events", "capacity", "alerts",
              "audit", "alert-history", "dashboard", "node"}

\* What they do when they are mounted.
FirstLoad(p) ==
    CASE p = "configmaps"    -> Bare(ConfigMapsRefresh)
      [] p = "secrets"       -> Bare(SecretsRefresh)
      [] p = "namespaces"    -> Bare(NamespacesLoad)
      [] p = "storage"       -> Bare(StorageRefresh)
      [] p = "cronjobs"      -> Bare(CronJobsRefresh)
      [] p = "users"         -> Bare(UsersRefresh)
      [] p = "notifications" -> Bare(NotificationsRefresh)
      [] p = "alert-rules"   -> Bare(AlertRulesRefresh)
      [] p = "workloads"     -> Bare(WorkloadsRefresh)
      [] p = "helm"          -> HelmLoad
      [] p = "jobs"          -> JobsLoad
      [] p = "objects"       -> ObjectsLoad
      [] p = "quotas"        -> QuotasLoad
      [] p = "key-vault"     -> VaultLoad
      [] p = "services"      -> ServicesRefresh
      [] p = "rbac"          -> RBACLoad
      [] p = "events"        -> Bare(EventsReload)
      [] p = "capacity"      -> Bare(CapacityLoad)
      [] p = "alerts"        -> Bare(AlertsRefresh)
      [] p = "audit"         -> AuditLoad
      [] p = "alert-history" -> HistoryLoad
      [] p = "dashboard"     -> Bare(DashboardRefresh)
      [] p = "node"          -> NodeHistory

ASSUME PagesAssumption == Pages \subseteq ListPages \union Views

Init ==
    /\ page \in Pages
    /\ uses \in IF page = "workloads" THEN Offered ELSE {{}}
    /\ changes = 0 /\ told = 0
    /\ filter = CHOOSE f \in Filters : TRUE
    /\ list = [seen |-> 0, of |-> filter, sure |-> FALSE]
    /\ loading = (page \notin Views)
    /\ error = [p \in Places |-> "none"]
    /\ busy = [f \in Flags |-> {}]
    /\ open = [d \in Dialogs |-> {}]
    /\ draft = {}
    /\ calls = [s \in Slots |->
                  IF page \notin Views /\ s = CHOOSE t \in Slots : TRUE
                    THEN [NewCall(FirstLoad(page), Form, filter) EXCEPT !.does = "load"]
                    ELSE NoCall]
    /\ StreamInit

\* The timers that load a list again.
Poll == WorkloadsPoll \/ EventsPoll \/ CapacityPoll \/ AlertsPoll \/ DashboardPoll

Paused == open["paused"] # {} \/ ~NoModal

Next ==
    \/ /\ page \notin Views
       /\ System \/ ResourcePage \/ AdminPage \/ Workloads \/ ViewPage \/ DashboardPage \/ Poll
       /\ UNCHANGED stream
    \/ StreamNext /\ UNCHANGED vars

\* The server and the network answer every call, and not every load with a
\* failure; the browser runs the timers.  That slots must be free is a bound of
\* the model, so a timer is not held off by the other calls there are.
Fairness ==
    /\ \A s \in Slots : /\ WF_vars(Serve(s) \/ Fail(s)) /\ WF_vars(Arrive(s))
                        /\ SF_vars(IsLoad(s) /\ Serve(s))
    /\ SF_vars(Poll)
    /\ StreamFairness

Spec == Init /\ [][Next]_<<vars, stream>> /\ Fairness

-----------------------------------------------------------------------------
(* What holds.                                                             *)

\* What a dialog has fetched is there only while the dialog is open: an answer
\* that comes when its modal has been closed, and perhaps another opened, is
\* not shown.  (The runs of a CronJob, which no component of their own keeps,
\* are.)
DraftBelongs ==
    page # "cronjobs" => draft \subseteq open["detail"] \union UNION {open[d] : d \in Modals}

\* The view of a node drops what was under way when another period is chosen:
\* the charts it shows are those of the period, in whatever order the answers
\* come.
ChartsOfPeriod ==
    page = "node" /\ ~loading => list.of = filter \/ error["page"] # "none"

\* Why that is so: all loads under way are for the period that is chosen.
PeriodLoads ==
    page = "node" =>
        \A s \in Slots :
           \/ calls[s].does = "nothing"
           \/ calls[s].does = "work" /\ calls[s].h = NodeDetailPower
           \/ calls[s].does = "load" /\ calls[s].h = NodeHistory /\ calls[s].of = filter

PagesInv == ScreenInv /\ PeriodLoads

\* No button stays disabled for ever.
Settles == \A f \in Flags : busy[f] # {} ~> busy[f] = {}

\* The pages with a timer show in the end what the server has, in spite of
\* loads that fail or overtake each other, unless they are paused again and again.
Converges ==
    page \in {"workloads", "events", "capacity", "alerts", "dashboard"} =>
        <>[](list.seen = changes) \/ []<>Paused

\* An answer that says it was done is not shown as a failure.
DoneIsNoError == \A p \in Places : error[p] # "bodyless"
=============================================================================
