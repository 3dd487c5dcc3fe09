---------------------------- MODULE ResourcePages ----------------------------
(***************************************************************************)
(* The pages that list one kind of Kubernetes object and create, edit and  *)
(* delete it: ConfigMapsPage, SecretsPage, NamespacesPage, StoragePage and *)
(* CronJobsPage.  For each: how it loads its list, its handlers, and what  *)
(* it offers the user.                                                     *)
(*                                                                         *)
(* What is typed into a form, and which keys of a secret are revealed, is  *)
(* left out: it goes nowhere until a handler sends it.                     *)
(***************************************************************************)
EXTENDS Screen

CONSTANT Protected   \* rows that may not be deleted: system namespaces, oneself

\* The dialog with the details of a row covers the page.
NoOverlay == open["detail"] = {}

-----------------------------------------------------------------------------
(* ConfigMapsPage.                                                         *)

ConfigMapsRefresh == [Plain EXCEPT !.spins = TRUE, !.clears = TRUE]

ConfigMapsCreate ==
    [Work EXCEPT !.flag = {"create"}, !.wipes = {"page"}, !.reload = {ConfigMapsRefresh}]

ConfigMapsOpenEdit == [Read EXCEPT !.fills = {"detail"}]

ConfigMapsSaveEdit ==
    [Work EXCEPT !.flag = {"save"}, !.wipes = {"page"}, !.closes = {"detail"},
                 !.reload = {ConfigMapsRefresh}]

\* It names the row, and the namespace that is chosen.
ConfigMapsDelete ==
    [Work EXCEPT !.flag = {"delete"}, !.wipes = {"page"}, !.closes = {"confirm"},
                 !.scoped = TRUE, !.bodyless = TRUE, !.reload = {ConfigMapsRefresh}]

ConfigMapsHeader ==
    /\ page = "configmaps" /\ NoOverlay
    /\ \/ \E f \in Filters : Choose(f, Bare(ConfigMapsRefresh))
       \/ Idle("create") /\ Click(ConfigMapsCreate, Form)

\* Mutant of ConfigMapsRow: the rows stay while others are loaded.
ConfigMapsRowAlways(i) ==
    /\ page = "configmaps" /\ NoOverlay
    /\ \/ Click(ConfigMapsOpenEdit, i)
       \/ i \notin open["confirm"] /\ Show("confirm", i)
       \/ i \in open["confirm"] /\ (\/ i \notin busy["delete"] /\ Click(ConfigMapsDelete, i)
                                    \/ Hide("confirm"))

\* The rows are not shown while the list is loaded.
ConfigMapsRow(i) ==
    /\ page = "configmaps" /\ NoOverlay /\ ~loading
    /\ \/ Click(ConfigMapsOpenEdit, i)
       \/ i \notin open["confirm"] /\ Show("confirm", i)
       \/ i \in open["confirm"] /\ (\/ i \notin busy["delete"] /\ Click(ConfigMapsDelete, i)
                                    \/ Hide("confirm"))

\* The editor: its cross and the overlay close it even while it is being saved.
ConfigMapsEditor(i) ==
    /\ page = "configmaps" /\ i \in open["detail"]
    /\ \/ Discard("detail")
       \/ Idle("save") /\ Click(ConfigMapsSaveEdit, i)

-----------------------------------------------------------------------------
(* SecretsPage.                                                            *)

SecretsRefresh == [Plain EXCEPT !.spins = TRUE, !.clears = TRUE]

SecretsCreate ==
    [Work EXCEPT !.flag = {"create"}, !.wipes = {"page"}, !.reload = {SecretsRefresh}]

SecretsOpenEdit == [Read EXCEPT !.fills = {"detail"}]

SecretsSaveEdit ==
    [Work EXCEPT !.flag = {"save"}, !.wipes = {"page"}, !.closes = {"detail"},
                 !.reload = {SecretsRefresh}]

SecretsDelete ==
    [Work EXCEPT !.flag = {"delete"}, !.wipes = {"page"}, !.closes = {"confirm"},
                 !.scoped = TRUE, !.bodyless = TRUE, !.reload = {SecretsRefresh}]

SecretsHeader ==
    /\ page = "secrets" /\ NoOverlay
    /\ \/ \E f \in Filters : Choose(f, Bare(SecretsRefresh))
       \/ Idle("create") /\ Click(SecretsCreate, Form)

SecretsRow(i) ==
    /\ page = "secrets" /\ NoOverlay /\ ~loading
    /\ \/ Click(SecretsOpenEdit, i)
       \/ i \notin open["confirm"] /\ Show("confirm", i)
       \/ i \in open["confirm"] /\ (\/ i \notin busy["delete"] /\ Click(SecretsDelete, i)
                                    \/ Hide("confirm"))

SecretsEditor(i) ==
    /\ page = "secrets" /\ i \in open["detail"]
    /\ \/ Discard("detail")
       \/ Idle("save") /\ Click(SecretsSaveEdit, i)

-----------------------------------------------------------------------------
(* NamespacesPage.                                                         *)

NamespacesLoad == [Plain EXCEPT !.clears = TRUE]

NamespacesCreate ==
    [Work EXCEPT !.flag = {"create"}, !.wipes = {"form"}, !.shows = {"form"},
                 !.reload = {NamespacesLoad}]

\* Unlike elsewhere the question is taken back when the handler ends, however
\* it ended.
NamespacesDelete ==
    [Work EXCEPT !.flag = {"delete"}, !.ends = {"confirm"}, !.bodyless = TRUE,
                 !.reload = {NamespacesLoad}]

NamespacesCreateForm ==
    /\ page = "namespaces" /\ Idle("create") /\ Click(NamespacesCreate, Form)

NamespacesRow(i) ==
    /\ page = "namespaces" /\ ~loading /\ i \notin Protected
    /\ \/ i \notin open["confirm"] /\ Idle("delete") /\ Show("confirm", i)
       \/ i \in open["confirm"] /\ (\/ i \notin busy["delete"] /\ Click(NamespacesDelete, i)
                                    \/ Hide("confirm"))

-----------------------------------------------------------------------------
(* StoragePage.  The list is that of the claims; a failure to load volumes *)
(* or classes counts as a failure to load.                                 *)

StorageRefresh == [Plain EXCEPT !.spins = TRUE, !.wipes = TRUE]

StorageDelete ==
    [Work EXCEPT !.flag = {"delete"}, !.closes = {"confirm"}, !.bodyless = TRUE,
                 !.reload = {StorageRefresh}]

StorageCreate ==
    [Work EXCEPT !.flag = {"create"}, !.wipes = {"form"}, !.shows = {"form"},
                 !.closes = {"form"}, !.reload = {StorageRefresh}]

\* The form can be cancelled, and opened again, while it is being sent.
StorageForm ==
    /\ page = "storage"
    /\ \/ Show("form", Form)
       \/ Form \in open["form"] /\ (\/ Idle("create") /\ Click(StorageCreate, Form)
                                    \/ Dismiss("form"))

StorageRow(i) ==
    /\ page = "storage" /\ ~loading
    /\ \/ i \notin open["confirm"] /\ Show("confirm", i)
       \/ i \in open["confirm"] /\ (\/ i \notin busy["delete"] /\ Click(StorageDelete, i)
                                    \/ Hide("confirm"))

-----------------------------------------------------------------------------
(* CronJobsPage.                                                           *)

CronJobsRefresh == [Plain EXCEPT !.spins = TRUE, !.clears = TRUE]

CronJobsCreate ==
    [Work EXCEPT !.flag = {"create"}, !.wipes = {"page"}, !.reload = {CronJobsRefresh}]

CronJobsToggle == [Work EXCEPT !.flag = {"toggle"}, !.reload = {CronJobsRefresh}]

\* Unlike those of ConfigMaps it takes the namespace from the row.
CronJobsDelete ==
    [Work EXCEPT !.flag = {"delete"}, !.closes = {"confirm"}, !.bodyless = TRUE,
                 !.reload = {CronJobsRefresh}]

\* The runs go to whatever job the dialog shows when they arrive.
CronJobsShowRuns == [Read EXCEPT !.flag = {"fetch"}, !.shows = {}, !.empties = TRUE]

CronJobsHeader ==
    /\ page = "cronjobs" /\ NoOverlay
    /\ \/ \E f \in Filters : Choose(f, Bare(CronJobsRefresh))
       \/ Idle("create") /\ Click(CronJobsCreate, Form)

CronJobsRow(i) ==
    /\ page = "cronjobs" /\ NoOverlay /\ ~loading
    /\ \/ ShowAndFetch("detail", CronJobsShowRuns, i)
       \/ i \notin busy["toggle"] /\ Click(CronJobsToggle, i)
       \/ i \notin open["confirm"] /\ Show("confirm", i)
       \/ i \in open["confirm"] /\ (\/ i \notin busy["delete"] /\ Click(CronJobsDelete, i)
                                    \/ Hide("confirm"))

CronJobsRuns == page = "cronjobs" /\ Hide("detail")

-----------------------------------------------------------------------------
ResourcePage ==
    \/ ConfigMapsHeader \/ SecretsHeader \/ CronJobsHeader
    \/ NamespacesCreateForm \/ StorageForm \/ CronJobsRuns
    \/ \E i \in Rows :
          \/ ConfigMapsRow(i) \/ ConfigMapsEditor(i)
          \/ SecretsRow(i) \/ SecretsEditor(i)
          \/ NamespacesRow(i) \/ StorageRow(i) \/ CronJobsRow(i)
=============================================================================
