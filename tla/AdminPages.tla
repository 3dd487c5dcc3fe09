----------------------------- MODULE AdminPages -----------------------------
(***************************************************************************)
(* The pages for the platform itself: UsersPage, NotificationsPage and     *)
(* AlertRulesPage.                                                         *)
(***************************************************************************)
EXTENDS ResourcePages

-----------------------------------------------------------------------------
(* UsersPage.  The dialog "detail" is the field for a new password.        *)

UsersRefresh == [Plain EXCEPT !.clears = TRUE]

UsersCreate ==
    [Work EXCEPT !.flag = {"create"}, !.wipes = {"page"}, !.reload = {UsersRefresh}]

\* Mutant of UsersRoleChange: the list is left as it is.
UsersRoleChangeOnly == Work

\* No flag is raised: two changes of a role may be under way.
UsersRoleChange == [Work EXCEPT !.reload = {UsersRefresh}]

\* The list shows no passwords, and is not loaded again.
UsersPasswordSave ==
    [Work EXCEPT !.flag = {"save"}, !.wipes = {"page"}, !.closes = {"detail"},
                 !.changes = FALSE]

UsersDelete ==
    [Work EXCEPT !.flag = {"delete"}, !.wipes = {"page"}, !.closes = {"confirm"},
                 !.bodyless = TRUE, !.reload = {UsersRefresh}]

UsersCreateForm == page = "users" /\ Idle("create") /\ Click(UsersCreate, Form)

\* Nobody changes their own role, or deletes themselves.
UsersRow(i) ==
    /\ page = "users" /\ ~loading
    /\ \/ i \notin Protected /\ Click(UsersRoleChange, i)
       \/ i \notin open["detail"] /\ Show("detail", i)
       \/ i \in open["detail"] /\ Idle("save") /\ (\/ Click(UsersPasswordSave, i)
                                                   \/ Hide("detail"))
       \/ i \notin Protected \union open["confirm"] /\ Show("confirm", i)
       \/ i \in open["confirm"] /\ (\/ i \notin busy["delete"] /\ Click(UsersDelete, i)
                                    \/ Hide("confirm"))

-----------------------------------------------------------------------------
(* NotificationsPage.                                                      *)

NotificationsRefresh == [Plain EXCEPT !.spins = TRUE, !.clears = TRUE]

NotificationsCreate ==
    [Work EXCEPT !.flag = {"create"}, !.wipes = {"page"}, !.reload = {NotificationsRefresh}]

NotificationsSeverity == [Work EXCEPT !.reload = {NotificationsRefresh}]
NotificationsToggle   == [Work EXCEPT !.reload = {NotificationsRefresh}]

\* The row shows whether it was delivered; so it does if the call has failed.
NotificationsTest == [Work EXCEPT !.flag = {"test"}, !.shows = {}, !.changes = FALSE]

NotificationsDelete ==
    [Work EXCEPT !.flag = {"delete"}, !.closes = {"confirm"}, !.bodyless = TRUE,
                 !.reload = {NotificationsRefresh}]

NotificationsForm ==
    page = "notifications" /\ Idle("create") /\ Click(NotificationsCreate, Form)

NotificationsRow(i) ==
    /\ page = "notifications" /\ ~loading
    /\ \/ Click(NotificationsSeverity, i)
       \/ Click(NotificationsToggle, i)
       \/ i \notin busy["test"] /\ Click(NotificationsTest, i)
       \/ i \notin open["confirm"] /\ Show("confirm", i)
       \/ i \in open["confirm"] /\ (\/ i \notin busy["delete"] /\ Click(NotificationsDelete, i)
                                    \/ Hide("confirm"))

-----------------------------------------------------------------------------
(* AlertRulesPage.  Each rule is a RuleRow with a state of its own, which  *)
(* is gone when the list is loaded: what is being edited in other rows,    *)
(* and their busy flags.                                                   *)

AlertRulesRefresh == [Plain EXCEPT !.spins = TRUE, !.hides = TRUE]

\* It does not wait for the list.
AlertRulesCreate ==
    [Work EXCEPT !.flag = {"create"}, !.wipes = {"page"}, !.closes = {"form"},
                 !.reload = {AlertRulesRefresh}, !.awaits = FALSE]

RuleSave ==
    [Work EXCEPT !.flag = {"saving"}, !.inner = TRUE, !.wipes = {"form"}, !.shows = {"form"},
                 !.closes = {"editing"}, !.reload = {AlertRulesRefresh}, !.awaits = FALSE]

\* Flag and question are taken back when it fails; when it succeeds the row
\* goes, with the list.
RuleDelete ==
    [Work EXCEPT !.flag = {"removing"}, !.inner = TRUE, !.shows = {"form"},
                 !.ends = {"asking"}, !.reload = {AlertRulesRefresh}]

AlertRulesForm ==
    /\ page = "alert-rules"
    /\ \/ open["form"] = {} /\ Show("form", Form)
       \/ Hide("form")
       \/ Form \in open["form"] /\ Idle("create") /\ Click(AlertRulesCreate, Form)

RuleControls(i) ==
    /\ page = "alert-rules" /\ ~loading
    /\ \/ i \notin open["editing"] /\ Unfold("editing", i)
       \/ Fold("editing", i)
       \/ i \notin open["asking"] /\ Unfold("asking", i)
       \/ Fold("asking", i)
       \/ i \in open["asking"] /\ i \notin busy["removing"] /\ Click(RuleDelete, i)

RuleEditForm(i) ==
    /\ page = "alert-rules" /\ ~loading
    /\ i \in open["editing"] /\ i \notin busy["saving"] /\ Click(RuleSave, i)

-----------------------------------------------------------------------------
AdminPage ==
    \/ UsersCreateForm \/ NotificationsForm \/ AlertRulesForm
    \/ \E i \in Rows : \/ UsersRow(i) \/ NotificationsRow(i)
                       \/ RuleControls(i) \/ RuleEditForm(i)
=============================================================================
