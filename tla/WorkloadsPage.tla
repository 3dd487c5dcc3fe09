---------------------------- MODULE WorkloadsPage ----------------------------
(***************************************************************************)
(* WorkloadsPage: the workloads, the nodes that run them, and the modals   *)
(* of a workload.  The page loads its list every 15 seconds, except while  *)
(* a modal is open.  A row is a workload, or a node.                       *)
(*                                                                         *)
(* A modal keeps its state itself.  It can be closed at any time (Escape,  *)
(* the cross, a click beside it), also while what it saves is under way:   *)
(* then the handler goes on without it, and may find another modal open.   *)
(***************************************************************************)
EXTENDS AdminPages

WorkloadsRefresh == [Plain EXCEPT !.clears = TRUE]

WorkloadsWork(flag) == [Work EXCEPT !.flag = {flag}, !.reload = {WorkloadsRefresh}]

WorkloadsCreate  == [WorkloadsWork("create") EXCEPT !.wipes = {"page"}]
WorkloadsDelete  == WorkloadsWork("delete")
WorkloadsScale   == WorkloadsWork("scale")
WorkloadsImage   == WorkloadsWork("image")
WorkloadsRestart == WorkloadsWork("restart")
WorkloadsDrain   == WorkloadsWork("drain")
WorkloadsCordon  == WorkloadsWork("cordon")

\* Mutant of WorkloadsPoll: it ends when the list has been loaded.
WorkloadsPollOnce == page = "workloads" /\ NoModal /\ ~list.sure /\ Load(WorkloadsRefresh)

WorkloadsPoll == page = "workloads" /\ NoModal /\ Load(WorkloadsRefresh)

WorkloadsForm ==
    page = "workloads" /\ NoModal /\ "create" \in uses /\ Idle("create") /\ Click(WorkloadsCreate, Form)

\* The field for the image closes when it is left, and its row is busy then.
ImageCell(i) ==
    /\ page = "workloads" /\ NoModal /\ ~loading /\ "image" \in uses
    /\ \/ i \notin open["editing"] /\ Unfold("editing", i)
       \/ Fold("editing", i)
       \/ /\ i \in open["editing"] /\ i \notin busy["image"]
          /\ Begin(WorkloadsImage, i, [open EXCEPT !["editing"] = @ \ {i}], draft)

\* A button is disabled while its own handler is busy with its own row, for all
\* the flag knows: it remembers one row.
WorkloadsRow(i) ==
    /\ page = "workloads" /\ NoModal /\ ~loading
    /\ \/ "scale" \in uses /\ i \notin busy["scale"] /\ Click(WorkloadsScale, i)
       \/ "restart" \in uses /\ i \notin busy["restart"] /\ Click(WorkloadsRestart, i)
       \/ "delete" \in uses /\ i \notin busy["delete"] /\ Click(WorkloadsDelete, i)

WorkloadsNodes(i) ==
    /\ page = "workloads" /\ NoModal /\ ~loading
    /\ i \notin busy["cordon"] \union busy["drain"]
    /\ \/ "cordon" \in uses /\ Click(WorkloadsCordon, i)
       \/ "drain" \in uses /\ Click(WorkloadsDrain, i)

-----------------------------------------------------------------------------
(* The modals.                                                             *)

ModalWork == [Work EXCEPT !.inner = TRUE, !.wipes = {"form"}, !.shows = {"form"}]

ModalSave == [ModalWork EXCEPT !.flag = {"saving"}, !.reload = {WorkloadsRefresh},
                               !.awaits = FALSE]

ModalRead == [ModalWork EXCEPT !.flag = {"fetching"}, !.changes = FALSE, !.fetches = TRUE]

\* They start from what the row of the list was when they were opened.
EnvSave       == [ModalSave EXCEPT !.closes = {"env"}]
ResourcesSave == [ModalSave EXCEPT !.closes = {"resources"}]
ProbesSave    == [ModalSave EXCEPT !.closes = {"probes"}]

\* A failure to load is taken for having no autoscaler.
HpaLoad   == [ModalRead EXCEPT !.shows = {}]
HpaSave   == [ModalSave EXCEPT !.fetches = TRUE]
HpaDelete == [ModalSave EXCEPT !.flag = {"removing"}, !.closes = {"hpa"}, !.bodyless = TRUE]

RollbackLoad == ModalRead
Rollback     == [ModalSave EXCEPT !.closes = {"rollback"}]

PodsLoad    == ModalRead
EventsModalLoad == ModalRead
MetricsLoad == ModalRead

\* The buttons of a row that open them.  Logs and a terminal are streams.
WorkloadsModals(i) ==
    /\ page = "workloads" /\ ~loading
    /\ \/ \E d \in uses \intersect {"env", "resources", "probes", "logs", "terminal"} :
             ShowModal(d, i)
       \/ "hpa" \in uses /\ ShowModalAndFetch("hpa", HpaLoad, i)
       \/ "rollback" \in uses /\ ShowModalAndFetch("rollback", RollbackLoad, i)
       \/ "pods" \in uses /\ ShowModalAndFetch("pods", PodsLoad, i)
       \/ "events" \in uses /\ ShowModalAndFetch("events", EventsModalLoad, i)
       \/ "metrics" \in uses /\ ShowModalAndFetch("metrics", MetricsLoad, i)

ModalCloses(d) == page = "workloads" /\ HideModal(d)

EnvModal(i) ==
    page = "workloads" /\ i \in open["env"] /\ Idle("saving") /\ Click(EnvSave, i)

ResourcesModal(i) ==
    page = "workloads" /\ i \in open["resources"] /\ Idle("saving") /\ Click(ResourcesSave, i)

ProbesModal(i) ==
    page = "workloads" /\ i \in open["probes"] /\ Idle("saving") /\ Click(ProbesSave, i)

\* An autoscaler that is there, or taken to be, can be removed.
HpaModal(i) ==
    /\ page = "workloads" /\ i \in open["hpa"] /\ Idle("saving") /\ Idle("removing")
    /\ \/ Idle("fetching") /\ Click(HpaSave, i)
       \/ i \in draft /\ Click(HpaDelete, i)

\* A revision can be chosen when the history is there.
RollbackModal(i) ==
    /\ page = "workloads" /\ i \in open["rollback"] /\ i \in draft /\ Idle("saving")
    /\ Click(Rollback, i)

PodsModal(i) ==
    page = "workloads" /\ i \in open["pods"] /\ Idle("fetching") /\ Click(PodsLoad, i)

EventsModal(i) ==
    page = "workloads" /\ i \in open["events"] /\ Idle("fetching") /\ Click(EventsModalLoad, i)

MetricsModal(i) ==
    page = "workloads" /\ i \in open["metrics"] /\ Idle("fetching") /\ Click(MetricsLoad, i)

-----------------------------------------------------------------------------
Workloads ==
    \/ WorkloadsForm
    \/ \E d \in Modals : ModalCloses(d)
    \/ \E i \in Rows :
          \/ ImageCell(i) \/ WorkloadsRow(i) \/ WorkloadsNodes(i) \/ WorkloadsModals(i)
          \/ EnvModal(i) \/ ResourcesModal(i) \/ ProbesModal(i)
          \/ HpaModal(i) \/ RollbackModal(i)
          \/ PodsModal(i) \/ EventsModal(i) \/ MetricsModal(i)
=============================================================================
