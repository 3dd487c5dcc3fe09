------------------------------ MODULE Dashboard ------------------------------
(***************************************************************************)
(* What App shows itself, the dashboard with a card for each node, and the *)
(* view of one node (NodeDetailView).                                      *)
(*                                                                         *)
(* App polls the health of the nodes from when it is mounted, whatever     *)
(* page it shows.  The cards are mounted while the dashboard is shown.     *)
(* Powering a node is no change of the list: that shows what the           *)
(* backend's own poller has last found.                                    *)
(***************************************************************************)
EXTENDS ViewPages

DashboardRefresh == [Plain EXCEPT !.clears = TRUE]

DashboardPoll == page = "dashboard" /\ Load(DashboardRefresh)

\* A question or a modal covers the page, and what is beside it.
NoQuestion == open["asking"] = {} /\ open["confirm"] = {} /\ NoModal

AtDashboard == page = "dashboard" /\ ~loading /\ open["detail"] = {}

\* To another page, or to the view of a node, and back.
Navigate ==
    /\ page = "dashboard" /\ NoQuestion
    /\ Cover("detail") \/ Hide("detail")

-----------------------------------------------------------------------------
\* The button that confirms is not disabled while the handler is busy, and the
\* question can be taken back.
PowerWork == [Work EXCEPT !.flag = {"power"}, !.shows = {}, !.ends = {"confirm"},
                          !.changes = FALSE]

NodePower == [PowerWork EXCEPT !.flag = {"saving"}, !.inner = TRUE, !.ends = {"asking"}]

NodeCard(i) ==
    /\ AtDashboard
    /\ \/ NoQuestion /\ Unfold("asking", i)
       \/ i \in open["asking"] /\ Click(NodePower, i)
       \/ Fold("asking", i)

ClusterPower == PowerWork

ClusterDialog ==
    /\ AtDashboard
    /\ \/ NoQuestion /\ Show("confirm", Form)
       \/ Form \in open["confirm"] /\ Click(ClusterPower, Form)
       \/ Hide("confirm")

StressTest == [ModalRead EXCEPT !.flag = {"fetching"}]

\* It starts once, and is not closed while it runs.
StressTestModal ==
    /\ AtDashboard
    /\ \/ NoQuestion /\ ShowModal("stress", Form)
       \/ /\ Form \in open["stress"] /\ Idle("fetching")
          /\ \/ draft = {} /\ error["form"] = "none" /\ Click(StressTest, Form)
             \/ HideModal("stress")

-----------------------------------------------------------------------------
(* The view of a node.  The filter is the period of the charts, the list   *)
(* what they show.  It drops a load when another one is started.           *)

NodeHistory == [Bare([Plain EXCEPT !.spins = TRUE, !.wipes = TRUE]) EXCEPT !.cancels = TRUE]

\* Mutant of NodePeriod: nothing is dropped.
NodePeriodKept ==
    page = "node" /\ open["confirm"] = {} /\ \E f \in Filters : Choose(f, [NodeHistory EXCEPT !.cancels = FALSE])

NodePeriod ==
    page = "node" /\ open["confirm"] = {} /\ \E f \in Filters : Choose(f, NodeHistory)

NodeDetailPower == PowerWork

NodeDetailDialog ==
    /\ page = "node"
    /\ \/ open["confirm"] = {} /\ Show("confirm", Form)
       \/ Form \in open["confirm"] /\ Click(NodeDetailPower, Form)
       \/ Hide("confirm")

-----------------------------------------------------------------------------
DashboardPage ==
    \/ Navigate \/ ClusterDialog \/ StressTestModal
    \/ NodePeriod \/ NodeDetailDialog
    \/ \E i \in Rows : NodeCard(i)
=============================================================================
