------------------------------- MODULE Session -------------------------------
(***************************************************************************)
(* Who is signed in, in the browser: the tokens in localStorage, which all *)
(* tabs share (api/client.ts), and the account each tab shows, which it    *)
(* read when it was loaded or signed in (context/AuthContext.tsx).         *)
(*                                                                         *)
(* Every request of a page goes through apiFetch.  A 401 makes it refresh  *)
(* the access token and try once more; several requests may do so at once, *)
(* and meanwhile the user may sign out, or somebody else sign in.          *)
(*                                                                         *)
(* A token is abstracted to the account it was issued to.  An access token *)
(* may be found expired at any time.                                       *)
(***************************************************************************)
CONSTANTS
    Accounts,
    None,         \* no account, and no token
    Tabs,
    Calls         \* bound on the requests under way at once

VARIABLES
    store,        \* localStorage: two tokens and the name (and role) of the user
    shown,        \* what each tab keeps in the state of AuthProvider
    calls,        \* the requests under way
    valid,        \* the accounts whose refresh token is good
    denied,       \* history: accounts that were refused a refresh since they
                  \* last signed in
    crossed       \* history: an account signed in or out past another tab, or
                  \* past a request, that still took the former for granted

vars == <<store, shown, calls, valid, denied, crossed>>

ASSUME NoneIsNobody == None \notin Accounts \union Tabs

Holder   == Accounts \union {None}
Store    == [access: Holder, refresh: Holder, user: Holder]
Shown    == [in: BOOLEAN, user: Holder]
\* as: the account whose token the request carries, or that signs in.
Call     == [at: {"idle", "login", "first", "refresh", "retry"}, tab: Tabs \union {None}, as: Holder]
Idle     == [at |-> "idle", tab |-> None, as |-> None]
InFlight == {"first", "refresh", "retry"}

TypeOK ==
    /\ store \in Store
    /\ shown \in [Tabs -> Shown]
    /\ calls \in [Calls -> Call]
    /\ valid \subseteq Accounts /\ denied \subseteq Accounts
    /\ crossed \in BOOLEAN

-----------------------------------------------------------------------------
\* AuthGate: a tab shows App when AuthProvider has an access token, and the
\* login page otherwise.
SignedIn == {t \in Tabs : shown[t].in}

\* What a tab shows that is loaded while localStorage is s.
Loaded(s) == [in |-> s.access # None, user |-> s.user]

Empty == [access |-> None, refresh |-> None, user |-> None]

Init ==
    /\ store = Empty
    /\ shown = [t \in Tabs |-> Loaded(Empty)]
    /\ calls = [c \in Calls |-> Idle]
    /\ valid = Accounts /\ denied = {}
    /\ crossed = FALSE

Becomes(c, at, as) == calls' = [calls EXCEPT ![c].at = at, ![c].as = as]
Ends(c)            == calls' = [calls EXCEPT ![c] = Idle]

\* Somebody goes on with the account that t is about to change.
TakenForGranted(t) ==
    \/ SignedIn \ {t} # {}
    \/ \E c \in Calls : calls[c].at \in InFlight

\* The page is loaded anew from localStorage s: its requests are gone.
LoadTab(t, s) ==
    /\ store' = s
    /\ shown' = [shown EXCEPT ![t] = Loaded(s)]
    /\ calls' = [c \in Calls |-> IF calls[c].tab = t THEN Idle ELSE calls[c]]

-----------------------------------------------------------------------------
(* Signing in and out (AuthProvider, LoginPage).                           *)

\* The form is submitted; its button is disabled until the answer is there.
Submit(c, t, a) ==
    /\ calls[c].at = "idle"
    /\ ~shown[t].in
    /\ ~\E d \in Calls : calls[d].at = "login" /\ calls[d].tab = t
    /\ calls' = [calls EXCEPT ![c] = [at |-> "login", tab |-> t, as |-> a]]
    /\ UNCHANGED <<store, shown, valid, denied, crossed>>

\* Mutant of LoggedIn: the refresh token is left as it was.
LoggedInPartly(c) ==
    LET t == calls[c].tab  a == calls[c].as IN
    /\ calls[c].at = "login"
    /\ store' = [store EXCEPT !.access = a, !.user = a]
    /\ shown' = [shown EXCEPT ![t] = [in |-> TRUE, user |-> a]]
    /\ valid' = valid \union {a} /\ denied' = denied \ {a}
    /\ crossed' = (crossed \/ TakenForGranted(t))
    /\ Ends(c)

LoggedIn(c) ==
    LET t == calls[c].tab  a == calls[c].as IN
    /\ calls[c].at = "login"
    /\ store' = [access |-> a, refresh |-> a, user |-> a]
    /\ shown' = [shown EXCEPT ![t] = [in |-> TRUE, user |-> a]]
    /\ valid' = valid \union {a} /\ denied' = denied \ {a}
    /\ crossed' = (crossed \/ TakenForGranted(t))
    /\ Ends(c)

\* Mutant of Logout: the access token alone is removed.
LogoutPartly(t) ==
    /\ shown[t].in
    /\ store' = [store EXCEPT !.access = None]
    /\ shown' = [shown EXCEPT ![t] = [in |-> FALSE, user |-> None]]
    /\ crossed' = (crossed \/ TakenForGranted(t))
    /\ UNCHANGED <<calls, valid, denied>>

\* The backend is told, and changes nothing that matters here: it keeps no
\* sessions.  Requests under way go on.
Logout(t) ==
    /\ shown[t].in
    /\ store' = Empty
    /\ shown' = [shown EXCEPT ![t] = [in |-> FALSE, user |-> None]]
    /\ crossed' = (crossed \/ TakenForGranted(t))
    /\ UNCHANGED <<calls, valid, denied>>

\* The user loads the page again, or opens the site in another tab.
Reload(t) ==
    /\ LoadTab(t, store)
    /\ UNCHANGED <<valid, denied, crossed>>

\* The account is deleted, or its refresh token expires.
Revoke(a) ==
    /\ a \in valid
    /\ valid' = valid \ {a}
    /\ UNCHANGED <<store, shown, calls, denied, crossed>>

-----------------------------------------------------------------------------
(* apiFetch and tryRefresh.                                                *)

\* The token is read from localStorage, not from the state of the tab.
Send(c, t) ==
    /\ calls[c].at = "idle"
    /\ shown[t].in
    /\ calls' = [calls EXCEPT ![c] = [at |-> "first", tab |-> t, as |-> store.access]]
    /\ UNCHANGED <<store, shown, valid, denied, crossed>>

\* The answer is no 401, or it is that to the second try.
Answered(c) ==
    /\ calls[c].at \in {"first", "retry"}
    /\ Ends(c)
    /\ UNCHANGED <<store, shown, valid, denied, crossed>>

\* Name and role stay in localStorage.
EndSession(t) == LoadTab(t, [store EXCEPT !.access = None, !.refresh = None])

\* Mutant of Unauthorized: a refresh token is good for one refresh.
UnauthorizedOnce(c) ==
    /\ calls[c].at = "first"
    /\ IF store.refresh = None
         THEN EndSession(calls[c].tab)
         ELSE /\ Becomes(c, "refresh", store.refresh)
              /\ store' = [store EXCEPT !.refresh = None]
              /\ UNCHANGED shown
    /\ UNCHANGED <<valid, denied, crossed>>

\* Mutant of Unauthorized: a second 401 is treated as the first was.
UnauthorizedAgain(c) ==
    /\ calls[c].at \in {"first", "retry"}
    /\ IF store.refresh = None
         THEN EndSession(calls[c].tab)
         ELSE /\ Becomes(c, "refresh", store.refresh)
              /\ UNCHANGED <<store, shown>>
    /\ UNCHANGED <<valid, denied, crossed>>

Unauthorized(c) ==
    /\ calls[c].at = "first"
    /\ IF store.refresh = None
         THEN EndSession(calls[c].tab)
         ELSE /\ Becomes(c, "refresh", store.refresh)
              /\ UNCHANGED <<store, shown>>
    /\ UNCHANGED <<valid, denied, crossed>>

Refreshed(c) ==
    /\ calls[c].at = "refresh" /\ calls[c].as \in valid
    /\ store' = [store EXCEPT !.access = calls[c].as]
    /\ Becomes(c, "retry", calls[c].as)
    /\ UNCHANGED <<shown, valid, denied, crossed>>

\* Any answer that is no success ends the session: the 401 for a token that is
\* not good, and as well the 429 of the rate limiter, a 500, or the proxy's 502.
RefreshRefused(c) ==
    /\ calls[c].at = "refresh"
    /\ EndSession(calls[c].tab)
    /\ denied' = denied \union {calls[c].as}
    /\ UNCHANGED <<valid, crossed>>

\* A request fails on its way, that to /auth/refresh included: the caller is
\* told, and nothing is cleared.
Fails(c) ==
    /\ calls[c].at # "idle"
    /\ Ends(c)
    /\ UNCHANGED <<store, shown, valid, denied, crossed>>

-----------------------------------------------------------------------------
Progress(c) ==
    \/ LoggedIn(c) \/ Answered(c) \/ Unauthorized(c)
    \/ Refreshed(c) \/ RefreshRefused(c) \/ Fails(c)

Next ==
    \/ \E c \in Calls, t \in Tabs, a \in Accounts : Submit(c, t, a)
    \/ \E c \in Calls, t \in Tabs : Send(c, t)
    \/ \E c \in Calls : Progress(c)
    \/ \E t \in Tabs : Logout(t) \/ Reload(t)
    \/ \E a \in Accounts : Revoke(a)

\* The browser and the backend answer every request, one way or the other.
Fairness == \A c \in Calls : WF_vars(Progress(c))

Spec == Init /\ [][Next]_vars /\ Fairness

-----------------------------------------------------------------------------
(* What holds.                                                             *)

\* A tab acts as the account it shows: the token in localStorage, and those
\* under way, are of that account, however many requests refresh them at once;
\* and when all are signed out, no token is left - unless an account came or went past a
\* request or another tab that still had the former.
ActsAsShown ==
    \/ crossed
    \/ /\ \A t \in SignedIn :
             /\ {store.access, store.refresh} \subseteq {shown[t].user, None}
             /\ \A c \in Calls :
                   calls[c].tab = t /\ calls[c].at \in InFlight =>
                       calls[c].as \in {shown[t].user, None}
       /\ SignedIn = {} => store.access = None /\ store.refresh = None

\* Nobody is signed out of a tab but by an answer: a refresh of that very account
\* was refused since it signed in.  Refreshes of several requests do not use the
\* token up for each other, and a request that gets no answer signs nobody out.
\* The refusal may be for another reason than the token (RefreshRefused).
KeptSignedIn ==
    [][\A t \in Tabs :
          shown[t].in /\ ~shown'[t].in =>
              crossed \/ store'.user = None \/ shown[t].user \in denied']_vars

\* Every request comes to an end: it is tried again once at most.
CallsEnd == \A c \in Calls : calls[c].at \in InFlight ~> calls[c].at = "idle"

-----------------------------------------------------------------------------
(* The inductive invariant behind these.                                   *)

\* While no account has crossed, everything is of the user in localStorage.
OneAccount ==
    /\ SignedIn = {} => store.access = None
    /\ store.access = None => store.refresh = None
    /\ {store.access, store.refresh} \subseteq {store.user, None}
    /\ \A t \in SignedIn : shown[t].user = store.user /\ store.user # None
    /\ \A c \in Calls : calls[c].at \in InFlight =>
          calls[c].as \in {store.user, None} /\ shown[calls[c].tab].in

\* Where the refresh token is gone from under a tab, a refresh had been refused.
GoneIfRefused == SignedIn # {} /\ store.refresh = None => store.user \in denied

\* A request is a tab's, and a refresh is made with a token.
Sound ==
    \A c \in Calls :
        /\ calls[c].at # "idle" => calls[c].tab \in Tabs
        /\ calls[c].at \in {"login", "refresh", "retry"} => calls[c].as # None

SessionInv ==
    /\ TypeOK
    /\ Sound
    /\ crossed \/ (OneAccount /\ GoneIfRefused)
=============================================================================
