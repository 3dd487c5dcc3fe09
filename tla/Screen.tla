------------------------------- MODULE Screen -------------------------------
(***************************************************************************)
(* What the pages of the web interface have in common.  A page keeps in    *)
(* React state a list it has loaded, a spinner, errors, busy flags that    *)
(* disable buttons, dialogs with what is edited in them, and a filter.  A  *)
(* click runs an asynchronous handler: it raises a flag, calls the API,    *)
(* then sets state according to the answer, loads the list again, and      *)
(* lowers the flag.  Nothing is cancelled or put in order: several         *)
(* handlers are under way at once, their calls are served and answered in  *)
(* any order, and each sets the state it finds when its answer is there.   *)
(*                                                                         *)
(* This module has the steps of a handler.  The pages say, in modules of   *)
(* their own, which handlers they have, what each does (a Handler record), *)
(* and what they offer the user in which state.                            *)
(*                                                                         *)
(* A list is abstracted to how many changes of the server it shows, and to *)
(* the filter it was loaded with.  A page is modelled from when it is      *)
(* mounted to when it is left: React drops its state then, and ignores     *)
(* what its handlers set later.                                            *)
(***************************************************************************)
EXTENDS Naturals

CONSTANTS
    Pages,        \* the pages to model, by the names App has for them
    Rows,         \* the rows of a list: what handlers act on
    Form,         \* stands for the row, where a handler creates one
    Filters,      \* what the page's filter can be set to
    Slots,        \* bound on the handlers under way at once
    MaxChanges,   \* bound on the changes of the server
    Crowded,      \* bound: pages with so many buttons that it changes once at most
    Offered       \* bound: sets of buttons, of which a user of WorkloadsPage uses one

VARIABLES
    page,         \* the page that is shown
    uses,         \* bound on the buttons that the user uses there
    changes,      \* how often the server has changed what the page lists
    told,         \* the last of these that a handler was told it had made
    list,         \* the list the page shows
    filter,       \* what the user has chosen
    loading,      \* the spinner
    error,        \* the errors shown: that of the page and that of a form
    busy,         \* busy flags -> the rows each is raised for
    open,         \* dialogs -> the rows each is open for
    draft,        \* the rows whose data the page has fetched to show or edit
    calls         \* the handlers under way

screen == <<list, filter, loading, error, busy, open, draft>>
vars   == <<page, uses, changes, told, screen, calls>>

\* Flags and dialogs of the page, and of the components inside it: a modal, of
\* which one is open at a time, or the rows.
PageFlags    == {"create", "save", "delete", "toggle", "test", "fetch", "power",
                 "scale", "restart", "image", "cordon", "drain"}
InnerFlags   == {"fetching", "saving", "removing"}
Flags        == PageFlags \union InnerFlags
Modals       == {"env", "resources", "probes", "hpa", "rollback",
                 "pods", "events", "metrics", "logs", "terminal", "stress"}
InnerDialogs == {"editing", "asking"}
Dialogs      == {"form", "confirm", "detail", "paused"} \union Modals \union InnerDialogs
Places       == {"page", "form"}
Causes       == {"none", "failed", "bodyless"}
Targets      == Rows \union {Form}

\* spins: the spinner is shown from the start; stops: and no longer at the end;
\* hides: the rows are not mounted meanwhile, and forget the state they have;
\* wipes: the page's error is removed when the load starts;
\* clears: it is removed when the load has succeeded.
Refresh == [spins: BOOLEAN, stops: BOOLEAN, hides: BOOLEAN, wipes: BOOLEAN, clears: BOOLEAN]

\* The usual one, which the pages vary.
Plain == [spins |-> FALSE, stops |-> TRUE, hides |-> FALSE, wipes |-> FALSE, clears |-> FALSE]

\* flag: the flag that is up while the handler is under way (at most one);
\* inner: its state is kept by a modal or a row, and lost with it;
\* wipes: where errors are removed when it starts;
\* shows: where its failure is shown (nowhere if swallowed);
\* closes, ends: the dialogs it closes when it succeeds, and in any case;
\* fills: the dialogs that open with what it has read, fetches: it reads a draft,
\* which it empties when it fails;
\* changes: it changes the server;
\* bodyless: the answer to its success has no body (204);
\* scoped: it names the row together with the namespace of the filter;
\* reload: how the list is loaded afterwards, if it is;
\* awaits: the handler lasts until it is loaded;
\* appends: what is loaded is put behind the list, from where that ends;
\* cancels: the loads under way are dropped, with what they bring.
Handler == [flag: SUBSET Flags, inner: BOOLEAN,
            wipes: SUBSET Places, shows: SUBSET Places,
            closes: SUBSET Dialogs, ends: SUBSET Dialogs,
            fills: SUBSET Dialogs, fetches: BOOLEAN, empties: BOOLEAN,
            changes: BOOLEAN, bodyless: BOOLEAN, scoped: BOOLEAN,
            reload: SUBSET Refresh, awaits: BOOLEAN,
            appends: BOOLEAN, cancels: BOOLEAN]

\* The usual handler of a button that changes something, which the pages vary.
Work == [flag |-> {}, inner |-> FALSE, wipes |-> {}, shows |-> {"page"},
         closes |-> {}, ends |-> {}, fills |-> {}, fetches |-> FALSE, empties |-> FALSE,
         changes |-> TRUE, bodyless |-> FALSE, scoped |-> FALSE,
         reload |-> {}, awaits |-> TRUE, appends |-> FALSE, cancels |-> FALSE]

\* ... and one that fetches what a dialog is to show.
Read == [Work EXCEPT !.changes = FALSE, !.fetches = TRUE]

\* A handler that loads the list and does nothing else.
Bare(refresh) == [Work EXCEPT !.changes = FALSE, !.reload = {refresh}]

\* does: the work itself, or loading the list afterwards;
\* seen: the change of the server that it made, or up to which it has read;
\* of: the filter when the handler was started, which it closes over;
\* alone: no load overlapped it, and the filter was not changed meanwhile;
\* live: the component that keeps its state is still mounted.
Call == [h: Handler, row: Targets, does: {"nothing", "work", "load"},
         at: {"sent", "ok", "bodyless", "failed"}, seen: 0 .. MaxChanges,
         of: Filters, alone: BOOLEAN, live: BOOLEAN]

\* sure: loaded by a call that was alone, and none has failed since.
List == [seen: 0 .. MaxChanges, of: Filters, sure: BOOLEAN]

ASSUME ConstantAssumption ==
    /\ Form \notin Rows
    /\ Filters # {} /\ Slots # {}
    /\ MaxChanges \in Nat

TypeOK ==
    /\ page \in Pages /\ uses \in {{}} \union Offered
    /\ changes \in 0 .. MaxChanges /\ told \in 0 .. MaxChanges
    /\ list \in List
    /\ filter \in Filters
    /\ loading \in BOOLEAN
    /\ error \in [Places -> Causes]
    /\ busy \in [Flags -> SUBSET Targets]
    /\ open \in [Dialogs -> SUBSET Targets]
    /\ draft \in SUBSET Targets
    /\ calls \in [Slots -> Call]

-----------------------------------------------------------------------------
UnderWay(s) == calls[s].does # "nothing"
IsLoad(s)   == calls[s].does = "load"
Free        == {s \in Slots : ~UnderWay(s)}
Quiet       == \A s \in Slots : ~UnderWay(s)
Idle(f)     == busy[f] = {}
NoModal     == \A d \in Modals : open[d] = {}

Spins(h)  == \E r \in h.reload : r.spins
Stops(h)  == \E r \in h.reload : r.stops
Hides(h)  == \E r \in h.reload : r.hides
Wipes(h)  == \E r \in h.reload : r.wipes
Clears(h) == \E r \in h.reload : r.clears

NewCall(h, i, of) ==
    [h |-> h, row |-> i, does |-> "work", at |-> "sent", seen |-> 0,
     of |-> of, alone |-> TRUE, live |-> TRUE]

NoCall == [NewCall(Work, Form, CHOOSE f \in Filters : TRUE) EXCEPT !.does = "nothing"]

\* Of cs, slot s goes on to load the list for c.
WithLoad(cs, s, c) ==
    LET others == {t \in Slots \ {s} : cs[t].does = "load"} IN
    [t \in Slots |->
       IF t = s THEN [c EXCEPT !.does = "load", !.at = "sent", !.seen = 0,
                               !.alone = c.alone /\ others = {}]
       ELSE IF t \in others THEN [cs[t] EXCEPT !.alone = FALSE] ELSE cs[t]]

\* The components inside the page are unmounted: their handlers go on.
Orphaned(cs) == [t \in Slots |-> IF cs[t].h.inner THEN [cs[t] EXCEPT !.live = FALSE] ELSE cs[t]]
InnerReset(b) == [f \in Flags |-> IF f \in InnerFlags THEN {} ELSE b[f]]

Without(places) == [p \in Places |-> IF p \in places THEN "none" ELSE error[p]]
With(places, cause) == [p \in Places |-> IF p \in places THEN cause ELSE error[p]]

-----------------------------------------------------------------------------
(* What the user does.                                                     *)

\* A flag of the page remembers one row; each component inside has its own.
Raised(h, i) == [f \in Flags |-> IF f \notin h.flag THEN busy[f]
                                 ELSE IF h.inner THEN busy[f] \union {i} ELSE {i}]

\* A handler starts; o are the dialogs after the click, d the draft.
Begin(h, i, o, d) ==
    /\ Free # {}
    /\ calls' = [calls EXCEPT ![CHOOSE s \in Free : TRUE] = NewCall(h, i, filter)]
    /\ busy' = Raised(h, i)
    /\ error' = Without(h.wipes)
    /\ open' = o /\ draft' = d
    /\ UNCHANGED <<page, uses, changes, told, list, filter, loading>>

Click(h, i) == Begin(h, i, open, draft)

\* A dialog is shown for a row, and what is to be in it fetched.
ShowAndFetch(d, h, i) == Begin(h, i, [open EXCEPT ![d] = {i}], draft)

Show(d, i) ==
    /\ open' = [open EXCEPT ![d] = {i}]
    /\ UNCHANGED <<page, uses, changes, told, list, filter, loading, error, busy, draft, calls>>

Hide(d) ==
    /\ open[d] # {}
    /\ open' = [open EXCEPT ![d] = {}]
    /\ UNCHANGED <<page, uses, changes, told, list, filter, loading, error, busy, draft, calls>>

\* ... and what went wrong in it forgotten.
Dismiss(d) ==
    /\ open[d] # {}
    /\ open' = [open EXCEPT ![d] = {}]
    /\ error' = Without({"form"})
    /\ UNCHANGED <<page, uses, changes, told, list, filter, loading, busy, draft, calls>>

\* What a dialog has fetched is dropped with it.
Discard(d) ==
    /\ open[d] # {}
    /\ open' = [open EXCEPT ![d] = {}]
    /\ draft' = {}
    /\ UNCHANGED <<page, uses, changes, told, list, filter, loading, error, busy, calls>>

ShowModal(d, i) == NoModal /\ Show(d, i)

\* A modal that fetches as soon as it is mounted.
ShowModalAndFetch(d, h, i) ==
    /\ NoModal
    /\ Begin(h, i, [open EXCEPT ![d] = {i}], {})

\* Mutant of HideModal: what is under way still finds its state.
HideModalOnly(d) ==
    /\ open[d] # {}
    /\ open' = [open EXCEPT ![d] = {}]
    /\ draft' = {}
    /\ error' = Without({"form"})
    /\ UNCHANGED <<page, uses, changes, told, list, filter, loading, busy, calls>>

\* A modal takes its state with it: flags, error, and what it has fetched.
HideModal(d) ==
    /\ open[d] # {}
    /\ open' = [open EXCEPT ![d] = {}]
    /\ busy' = InnerReset(busy)
    /\ calls' = Orphaned(calls)
    /\ draft' = {}
    /\ error' = Without({"form"})
    /\ UNCHANGED <<page, uses, changes, told, list, filter, loading>>

\* Something else is shown in the place of the rows, which are unmounted.
Cover(d) ==
    /\ open[d] = {}
    /\ open' = [e \in Dialogs |-> IF e = d THEN {Form} ELSE IF e \in InnerDialogs THEN {} ELSE open[e]]
    /\ busy' = InnerReset(busy)
    /\ calls' = Orphaned(calls)
    /\ UNCHANGED <<page, uses, changes, told, list, filter, loading, error, draft>>

\* A row opens or folds what is its own.
Unfold(d, i) ==
    /\ open' = [open EXCEPT ![d] = @ \union {i}]
    /\ UNCHANGED <<page, uses, changes, told, list, filter, loading, error, busy, draft, calls>>

Fold(d, i) ==
    /\ i \in open[d]
    /\ open' = [open EXCEPT ![d] = @ \ {i}]
    /\ UNCHANGED <<page, uses, changes, told, list, filter, loading, error, busy, draft, calls>>

-----------------------------------------------------------------------------
(* Loading the list: by an effect, a timer, a button or a handler.         *)

\* Slot s, of cs, loads the list for c; the errors at places are removed.
StartLoad(cs, s, c, places) ==
    LET h == c.h  loaded == WithLoad(cs, s, c) IN
    /\ calls' = IF Hides(h) THEN Orphaned(loaded) ELSE loaded
    /\ loading' = (loading \/ Spins(h))
    /\ error' = Without(IF Wipes(h) THEN places \union {"page"} ELSE places)

\* What the rows forget, when they are not mounted while the list is loaded.
Unmounted(h, o) == IF Hides(h) THEN [d \in Dialogs |-> IF d \in InnerDialogs THEN {} ELSE o[d]] ELSE o
LeftBusy(h, b)  == IF Hides(h) THEN InnerReset(b) ELSE b

\* cs are the calls before, and f the filter; the spinner may be all that shows
\* it, or a flag is raised, as b has it.
LoadFor(h, cs, f, b) ==
    /\ Free # {}
    /\ filter' = f
    /\ StartLoad(cs, CHOOSE s \in Free : TRUE, NewCall(h, Form, f), h.wipes)
    /\ open' = Unmounted(h, open) /\ busy' = LeftBusy(h, b)
    /\ UNCHANGED <<page, uses, changes, told, list, draft>>

Load(r)     == LoadFor(Bare(r), calls, filter, busy)
LoadMore(h) == LoadFor(h, calls, filter, Raised(h, Form))

\* The filter is an effect's dependency: the list is loaded again.  What is
\* under way keeps the filter it has closed over, unless the effect drops it.
Choose(f, h) ==
    /\ f # filter
    /\ LoadFor(h, [s \in Slots |-> IF h.cancels /\ IsLoad(s) THEN NoCall
                                   ELSE [calls[s] EXCEPT !.alone = FALSE]], f, busy)

-----------------------------------------------------------------------------
(* The server.                                                             *)

MayChange == changes < MaxChanges /\ (page \in Crowded => changes = 0)

\* Somebody else changes what the page lists.
OthersChange ==
    /\ MayChange
    /\ changes' = changes + 1
    /\ UNCHANGED <<page, uses, told, screen, calls>>

Answer(s, at, seen) ==
    calls' = [calls EXCEPT ![s].at = at, ![s].seen = seen]

Serve(s) ==
    /\ UnderWay(s) /\ calls[s].at = "sent"
    /\ IF calls[s].does = "work" /\ calls[s].h.changes
         THEN /\ MayChange /\ changes' = changes + 1
              /\ Answer(s, IF calls[s].h.bodyless THEN "bodyless" ELSE "ok", changes')
         ELSE /\ Answer(s, "ok", changes)
              /\ UNCHANGED changes
    /\ UNCHANGED <<page, uses, told, screen>>

\* The call is refused, or lost: before it is served, or after.
Fail(s) ==
    /\ UnderWay(s) /\ calls[s].at = "sent"
    /\ Answer(s, "failed", 0)
    /\ \/ UNCHANGED changes
       \/ /\ calls[s].does = "work" /\ calls[s].h.changes
          /\ MayChange /\ changes' = changes + 1
    /\ UNCHANGED <<page, uses, told, screen>>

-----------------------------------------------------------------------------
(* The answers arrive.                                                     *)

\* A dialog of the page is closed whatever it shows by now; a row closes its
\* own, if it is still there.
Closed(c, dialogs, o) ==
    [d \in Dialogs |->
       IF d \notin dialogs THEN o[d]
       ELSE IF d \notin InnerDialogs THEN {}
       ELSE IF c.live THEN o[d] \ {c.row} ELSE o[d]]

\* A single flag is lowered whoever raised it last.
Lowered(c) ==
    [f \in Flags |-> IF f \notin c.h.flag \/ ~c.live THEN busy[f]
                     ELSE IF c.h.inner THEN busy[f] \ {c.row} ELSE {}]

\* With a modal that is closed goes its state.  (A handler that finds one of another
\* kind open closes none: each kind has a target of its own.)
ClosesModal(c) == \E d \in c.h.closes \intersect Modals : open[d] # {}

\* The work was done: dialogs are closed or filled, and the list is loaded, for
\* the filter there was.  Otherwise the handler ends.
Worked(s) ==
    LET c == calls[s]  h == c.h
        o == Closed(c, h.closes, open)
        shown == [d \in Dialogs |-> IF d \in h.fills THEN {c.row} ELSE o[d]]
        b == IF ClosesModal(c) THEN InnerReset(busy) ELSE busy
        cs == IF ClosesModal(c) THEN Orphaned(calls) ELSE calls
        lost == IF ClosesModal(c) THEN {"form"} ELSE {}
    IN
    /\ c.does = "work" /\ c.at = "ok"
    /\ told' = IF h.changes /\ c.seen > told THEN c.seen ELSE told
    /\ draft' = IF h.fetches /\ c.live THEN {c.row}
                ELSE IF ClosesModal(c) \/ "detail" \in h.closes THEN {} ELSE draft
    /\ IF h.reload # {}
         THEN /\ StartLoad(cs, s, IF h.awaits THEN cs[s] ELSE [cs[s] EXCEPT !.h.flag = {}], lost)
              /\ busy' = LeftBusy(h, IF h.awaits \/ ClosesModal(c) THEN b ELSE Lowered(c))
              /\ open' = Unmounted(h, shown)
         ELSE /\ calls' = [cs EXCEPT ![s] = NoCall]
              /\ busy' = IF ClosesModal(c) THEN b ELSE Lowered(c)
              /\ open' = Closed(c, h.ends, shown)
              /\ error' = Without(lost)
              /\ UNCHANGED loading
    /\ UNCHANGED <<page, uses, changes, list, filter>>

\* Mutant of Ends: no finally lowers the flag.
EndsBusy(s) ==
    /\ calls' = [calls EXCEPT ![s] = NoCall]
    /\ busy' = busy
    /\ open' = Closed(calls[s], calls[s].h.ends, open)

\* The handler ends: its flag is lowered, and its dialogs are closed.
Ends(s) ==
    /\ calls' = [calls EXCEPT ![s] = NoCall]
    /\ busy' = Lowered(calls[s])
    /\ open' = Closed(calls[s], calls[s].h.ends, open)

\* The promise of the call is rejected: so it is for an answer without a body,
\* which apiFetch cannot parse.
Rejected(s) ==
    LET c == calls[s] IN
    /\ c.does = "work" /\ c.at \in {"failed", "bodyless"}
    /\ error' = IF c.live THEN With(c.h.shows, c.at) ELSE error
    /\ draft' = IF c.h.empties /\ c.live THEN {} ELSE draft
    /\ Ends(s)
    /\ UNCHANGED <<page, uses, changes, told, list, filter, loading>>

Loaded(s) ==
    LET c == calls[s] IN
    /\ IsLoad(s) /\ c.at = "ok"
    /\ list' = IF c.h.appends
                 THEN [list EXCEPT !.sure = list.sure /\ c.alone]
                 ELSE [seen |-> c.seen, of |-> c.of, sure |-> c.alone]
    /\ loading' = (loading /\ ~Stops(c.h))
    /\ error' = IF Clears(c.h) THEN Without({"page"}) ELSE error
    /\ Ends(s)
    /\ UNCHANGED <<page, uses, changes, told, filter, draft>>

LoadFails(s) ==
    LET c == calls[s] IN
    /\ IsLoad(s) /\ c.at = "failed"
    /\ list' = [list EXCEPT !.sure = FALSE]
    /\ loading' = (loading /\ ~Stops(c.h))
    /\ error' = With({"page"}, "failed")
    /\ Ends(s)
    /\ UNCHANGED <<page, uses, changes, told, filter, draft>>

Arrive(s) == Worked(s) \/ Rejected(s) \/ Loaded(s) \/ LoadFails(s)

System ==
    \/ OthersChange
    \/ \E s \in Slots : Serve(s) \/ Fail(s) \/ Arrive(s)

-----------------------------------------------------------------------------
(* What holds of every page.                                               *)

\* A button is disabled, and a spinner shown, only while something is under way
\* that will end it: whatever order the answers come in, no flag is left up
\* when the last handler that raised it has ended.
BusyHasCall ==
    /\ \A f \in Flags : \A i \in busy[f] :
          \E s \in Slots : /\ UnderWay(s) /\ calls[s].live
                           /\ f \in calls[s].h.flag /\ calls[s].row = i
    /\ loading => \E s \in Slots : IsLoad(s) /\ Stops(calls[s].h)

\* A page that is loading nothing shows what the user has done on it, and what
\* was chosen, if the call that loaded the list overlapped no other: each handler
\* loads the list only when its change was made, and a change of the filter
\* loads it again.  (Overlapping loads may arrive in either order, and a
\* handler loads with the filter it started with.)
ReadsOwnWrites ==
    list.sure /\ (\A s \in Slots : ~IsLoad(s)) => told <= list.seen /\ list.of = filter

\* Of a list that is sure, what is sent by the name of a row and the namespace of
\* the filter is sent while the list is that of the filter.
ActsOnSureList ==
    \A s \in Slots :
        list.sure /\ ~UnderWay(s) /\ calls'[s].does = "work" /\ calls'[s].h.scoped =>
            list.of = filter

\* handleDelete of Secrets and ConfigMaps takes the name from a row and the
\* namespace from the filter.  When the rows were loaded by a call that
\* overlapped no other, and no load has failed since, they are of the namespace
\* that is sent: the filter can be another one already, but then its load is
\* under way and the spinner hides the rows.  Nothing of the kind holds after a
\* failed load of a namespace just chosen, which leaves the rows of the other
\* one, or after overlapping loads: the README tells both.
NamesOfSureList == [][ActsOnSureList]_vars

-----------------------------------------------------------------------------
(* The inductive invariant behind these.                                   *)

\* What a page has fetched is shown by its editor, on these pages, and otherwise
\* by the modal that is open.
EditorPages == {"configmaps", "secrets"}
Shown == IF page \in EditorPages THEN open["detail"] ELSE UNION {open[d] : d \in Modals}

\* Of a handler: a flag is kept either by the page or by the component that the
\* handler belongs to; only a modal's own handler closes it; a spinner it starts
\* it ends; what changes the server loads the whole list again; what drops other
\* loads loads with a spinner of its own; and what is fetched is fetched by what
\* is to show it, which stays open, or by the page, for the editor that it opens.
Sound(h) ==
    /\ h \in Handler
    /\ h.inner => h.flag \subseteq InnerFlags
    /\ ~h.inner => h.flag \intersect InnerFlags = {} /\ h.closes \intersect Modals = {}
    /\ Spins(h) => Stops(h)
    /\ h.changes => h.reload # {} /\ ~h.appends
    /\ h.cancels => page = "node"
    /\ h.ends \intersect (Modals \union {"detail"}) = {}
    /\ h.fetches => h.closes = {}
    /\ page \in EditorPages => ~h.inner /\ h.fills = IF h.fetches THEN {"detail"} ELSE {}
    /\ page \notin EditorPages => h.fills = {}
    /\ page \notin EditorPages \union {"cronjobs"} /\ h.fetches => h.inner

\* Where a handler takes the namespace from the filter, the spinner is shown
\* whenever the list is loaded; and no flag waits for a load that may be dropped.
SpinningPages == {"configmaps", "secrets"}
Fits(h) ==
    /\ page \in SpinningPages /\ h.reload # {} => Spins(h)
    /\ page = "node" /\ h.reload # {} => h.flag = {} /\ Stops(h)

SoundCalls ==
    \A s \in Slots : UnderWay(s) =>
        /\ Sound(calls[s].h) /\ Fits(calls[s].h)
        /\ calls[s].does = "work" => ~calls[s].h.appends
        /\ IsLoad(s) => calls[s].h.reload # {}

\* An answer does not come from the future.
Past ==
    /\ told <= changes
    /\ \A s \in Slots : calls[s].seen <= changes

\* What a call that was alone will load or has loaded is what is wanted.
Alone ==
    \A s \in Slots : UnderWay(s) /\ calls[s].alone =>
        /\ calls[s].of = filter
        /\ IsLoad(s) => /\ calls[s].at = "ok" => told <= calls[s].seen
                        /\ \A t \in Slots \ {s} : ~IsLoad(t)

\* So is the list, as long as all that is under way adds to it.
Current ==
    list.sure /\ (\A s \in Slots : IsLoad(s) => calls[s].alone /\ calls[s].h.appends) =>
        told <= list.seen /\ list.of = filter

\* The spinner hides a list that is not.
Hidden ==
    page \in SpinningPages /\ list.sure /\ (\E s \in Slots : IsLoad(s)) => loading

\* A component that is still there has asked for what it is to show.
Asks(s) ==
    calls[s].does = "work" /\ calls[s].h.fetches /\ calls[s].h.inner /\ calls[s].live

\* What is fetched is shown, and what has been asked for will be, for it is a modal
\* that has asked; the page itself does not go.
Fetched ==
    /\ \A s \in Slots : UnderWay(s) /\ ~calls[s].h.inner => calls[s].live
    /\ page # "cronjobs" => /\ draft \subseteq Shown
                            /\ \A s \in Slots : Asks(s) => calls[s].row \in Shown

CallsInv  == TypeOK /\ BusyHasCall /\ SoundCalls /\ Past /\ Alone /\ Current /\ Hidden
ScreenInv == CallsInv /\ Fetched
=============================================================================
