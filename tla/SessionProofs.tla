---------------------------- MODULE SessionProofs ----------------------------
(***************************************************************************)
(* Proofs about Session: for any accounts, tabs and requests, a tab acts   *)
(* as the account it shows and nobody is signed out without having been    *)
(* refused a refresh, unless accounts have crossed.                        *)
(***************************************************************************)
EXTENDS Session, TLAPS

\* What changes a request, and what loads a tab, keeps the types.
LEMMA Moves ==
    ASSUME TypeOK, NEW c \in Calls
    PROVE  /\ calls[c] \in Call
           /\ Ends(c) => calls' \in [Calls -> Call]
           /\ \A at \in {"login", "first", "refresh", "retry"}, as \in Holder :
                 Becomes(c, at, as) => /\ calls' \in [Calls -> Call]
                                       /\ calls'[c].at = at /\ calls'[c].as = as
                                       /\ calls'[c].tab = calls[c].tab
                                       /\ \A d \in Calls \ {c} : calls'[d] = calls[d]
<1>1. calls \in [Calls -> Call]
  BY DEF TypeOK
<1>2. Idle \in Call
  BY DEF Idle, Call, Holder
<1>3. ASSUME NEW at \in {"login", "first", "refresh", "retry"}, NEW as \in Holder,
             Becomes(c, at, as)
      PROVE  /\ calls' \in [Calls -> Call]
             /\ calls'[c].at = at /\ calls'[c].as = as
             /\ calls'[c].tab = calls[c].tab
             /\ \A d \in Calls \ {c} : calls'[d] = calls[d]
  <2>1. calls[c] \in Call
    BY <1>1
  <2>2. calls' = [calls EXCEPT ![c] = [calls[c] EXCEPT !.at = at, !.as = as]]
    BY <1>1, <1>3 DEF Becomes, Call
  <2>3. [calls[c] EXCEPT !.at = at, !.as = as] \in Call
    BY <2>1, <1>3 DEF Call
  <2> QED
    BY <1>1, <2>1, <2>2, <2>3 DEF Call
<1> QED
  BY <1>1, <1>2, <1>3 DEF Ends

\* A tab loaded from a store shows what is in it, and has no requests.
LEMMA Loading ==
    ASSUME TypeOK, NEW t \in Tabs, NEW s \in Store, LoadTab(t, s)
    PROVE  /\ store' = s
           /\ shown' \in [Tabs -> Shown]
           /\ shown'[t].in = (s.access # None) /\ shown'[t].user = s.user
           /\ \A u \in Tabs \ {t} : shown'[u] = shown[u]
           /\ calls' \in [Calls -> Call]
           /\ \A c \in Calls : calls'[c] = IF calls[c].tab = t THEN Idle ELSE calls[c]
<1>1. Idle \in Call
  BY DEF Idle, Call, Holder
<1>2. Loaded(s) \in Shown
  BY DEF Loaded, Shown, Store
<1> QED
  BY <1>1, <1>2 DEF LoadTab, TypeOK, Loaded

\* The invariant when the page is loaded from the same store, or one that has
\* lost its tokens because a refresh was refused.
LEMMA LoadingKeeps ==
    ASSUME SessionInv, NEW t \in Tabs, NEW s \in Store, LoadTab(t, s),
           UNCHANGED <<valid, crossed>>,
           denied \subseteq denied', denied' \subseteq Accounts,
           \/ s = store
           \/ /\ s = [store EXCEPT !.access = None, !.refresh = None]
              /\ crossed \/ store.user \in denied'
    PROVE  SessionInv'
<1>1. TypeOK
  BY DEF SessionInv
<1>2. /\ store' = s
      /\ shown' \in [Tabs -> Shown]
      /\ shown'[t].in = (s.access # None) /\ shown'[t].user = s.user
      /\ \A u \in Tabs \ {t} : shown'[u] = shown[u]
      /\ calls' \in [Calls -> Call]
      /\ \A c \in Calls : calls'[c] = IF calls[c].tab = t THEN Idle ELSE calls[c]
  BY <1>1, Loading
<1>3. TypeOK'
  BY <1>1, <1>2 DEF TypeOK
<1>4. Sound'
  BY <1>2 DEF SessionInv, Sound, Idle
<1>5. ASSUME ~crossed PROVE (OneAccount /\ GoneIfRefused)'
  <2>1. OneAccount /\ GoneIfRefused
    BY <1>5 DEF SessionInv
  <2>2. s.user = store.user /\ {s.access, s.refresh} \subseteq {store.user, None}
    BY <2>1, <1>1 DEF OneAccount, TypeOK, Store
  <2>3. s.access = None => s.refresh = None
    BY <2>1, <1>1 DEF OneAccount, TypeOK, Store
  <2>4. \A u \in SignedIn' : shown'[u].user = store'.user /\ store'.user # None
    BY <1>2, <2>1, <2>2 DEF OneAccount, SignedIn
  <2>5. SignedIn' = {} => store'.access = None
    BY <1>2 DEF SignedIn
  <2>6. \A c \in Calls : calls'[c].at \in InFlight =>
            calls'[c].as \in {store'.user, None} /\ shown'[calls'[c].tab].in
    <3> SUFFICES ASSUME NEW c \in Calls, calls'[c].at \in InFlight
                 PROVE  calls'[c].as \in {store'.user, None} /\ shown'[calls'[c].tab].in
      OBVIOUS
    <3>1. calls'[c] = calls[c] /\ calls[c].tab # t
      BY <1>2 DEF InFlight, Idle
    <3>2. calls[c].as \in {store.user, None} /\ shown[calls[c].tab].in
      BY <2>1, <3>1 DEF OneAccount
    <3>3. calls[c].tab \in Tabs
      BY <3>1 DEF Sound, SessionInv, InFlight
    <3> QED
      BY <3>1, <3>2, <3>3, <1>2, <2>2
  <2>7. GoneIfRefused'
    <3> SUFFICES ASSUME SignedIn' # {}, s.refresh = None PROVE store.user \in denied'
      BY <1>2, <2>2 DEF GoneIfRefused
    <3>1. CASE s = store
      <4>1. SignedIn # {} \/ store.access # None
        BY <1>2, <3>1 DEF SignedIn
      <4>2. SignedIn # {}
        BY <4>1, <2>1 DEF OneAccount
      <4> QED
        BY <4>2, <3>1, <2>1 DEF GoneIfRefused
    <3> QED
      BY <3>1, <1>5
  <2> QED
    BY <1>2, <2>2, <2>3, <2>4, <2>5, <2>6, <2>7 DEF OneAccount
<1> QED
  BY <1>3, <1>4, <1>5 DEF SessionInv

\* Init establishes the invariant.
LEMMA InvInit == Init => SessionInv
<1> SUFFICES ASSUME Init PROVE SessionInv
  OBVIOUS
<1>1. Empty \in Store /\ Idle \in Call /\ Loaded(Empty) \in Shown
  BY DEF Empty, Idle, Loaded, Store, Call, Shown, Holder
<1>2. TypeOK
  BY <1>1 DEF Init, TypeOK
<1>3. Sound /\ OneAccount /\ GoneIfRefused
  BY DEF Init, Sound, OneAccount, GoneIfRefused, SignedIn, Empty, Loaded, Idle, InFlight
<1> QED
  BY <1>2, <1>3 DEF SessionInv

\* A step that changes neither localStorage nor a tab, and whose requests are
\* of the user as those before were.
LEMMA CallsKeep ==
    ASSUME SessionInv, UNCHANGED <<store, shown, valid, denied, crossed>>,
           calls' \in [Calls -> Call],
           \A c \in Calls :
               \/ calls'[c] \in {calls[c], Idle}
               \/ calls'[c].at = "login" /\ calls'[c].tab \in Tabs /\ calls'[c].as # None
               \/ /\ calls'[c].at \in InFlight /\ calls'[c].tab \in SignedIn
                  /\ calls'[c].as \in {store.access, store.refresh}
                  /\ calls'[c].at # "first" => calls'[c].as # None
               \/ /\ calls'[c].at \in InFlight /\ calls[c].at \in InFlight
                  /\ calls'[c].tab = calls[c].tab
                  /\ calls'[c].as = store.refresh /\ store.refresh # None
    PROVE  SessionInv'
<1>1. TypeOK'
  BY DEF SessionInv, TypeOK
<1>2. Sound'
  BY DEF SessionInv, Sound, Idle, InFlight, SignedIn
<1>3. ASSUME ~crossed PROVE (OneAccount /\ GoneIfRefused)'
  <2>1. OneAccount /\ GoneIfRefused
    BY <1>3 DEF SessionInv
  <2>2. \A c \in Calls : calls'[c].at \in InFlight =>
            calls'[c].as \in {store.user, None} /\ shown[calls'[c].tab].in
    BY <2>1 DEF OneAccount, InFlight, Idle, SignedIn
  <2> QED
    BY <2>1, <2>2 DEF OneAccount, GoneIfRefused, SignedIn
<1> QED
  BY <1>1, <1>2, <1>3 DEF SessionInv

\* Signing in: nobody else takes the former account for granted, or it crosses.
LEMMA LoggedInKeeps == ASSUME SessionInv, NEW c \in Calls, LoggedIn(c) PROVE SessionInv'
<1> DEFINE t == calls[c].tab
           a == calls[c].as
<1>1. TypeOK /\ calls[c] \in Call /\ calls' \in [Calls -> Call]
  BY Moves DEF SessionInv, LoggedIn
<1>2. t \in Tabs /\ a \in Accounts
  BY <1>1 DEF SessionInv, Sound, LoggedIn, Call, Holder
<1>3. /\ store' = [access |-> a, refresh |-> a, user |-> a]
      /\ shown' = [shown EXCEPT ![t] = [in |-> TRUE, user |-> a]]
      /\ calls' = [calls EXCEPT ![c] = Idle]
      /\ crossed' = (crossed \/ TakenForGranted(t))
  BY DEF LoggedIn, Ends
<1>4. TypeOK'
  <2>1. store' \in Store
    BY <1>2, <1>3 DEF Store, Holder
  <2>2. shown' \in [Tabs -> Shown]
    BY <1>1, <1>2, <1>3 DEF TypeOK, Shown, Holder
  <2>3. valid' \subseteq Accounts /\ denied' \subseteq Accounts
    BY <1>1, <1>2 DEF TypeOK, LoggedIn
  <2>4. crossed' \in BOOLEAN
    BY <1>1, <1>3 DEF TypeOK, TakenForGranted
  <2> QED
    BY <1>1, <2>1, <2>2, <2>3, <2>4 DEF TypeOK
<1>5. Sound'
  BY <1>1, <1>3 DEF SessionInv, Sound, TypeOK, Idle
<1>6. ASSUME ~crossed' PROVE (OneAccount /\ GoneIfRefused)'
  <2>1. SignedIn \ {t} = {} /\ ~\E d \in Calls : calls[d].at \in InFlight
    BY <1>3, <1>6 DEF TakenForGranted
  <2>2. ~\E d \in Calls : calls'[d].at \in InFlight
    BY <2>1, <1>1, <1>3 DEF TypeOK, Idle, InFlight
  <2>3. SignedIn' = {t} /\ shown'[t].user = a
    BY <2>1, <1>1, <1>2, <1>3 DEF SignedIn, TypeOK
  <2>4. a # None /\ store'.access = a /\ store'.refresh = a /\ store'.user = a
    BY <1>2, <1>3, NoneIsNobody
  <2> QED
    BY <2>2, <2>3, <2>4 DEF OneAccount, GoneIfRefused
<1> QED
  BY <1>4, <1>5, <1>6 DEF SessionInv

\* Signing out, likewise.
LEMMA LogoutKeeps == ASSUME SessionInv, NEW t \in Tabs, Logout(t) PROVE SessionInv'
<1>1. TypeOK
  BY DEF SessionInv
<1>2. TypeOK'
  <2>1. store' \in Store
    BY DEF Logout, Empty, Store, Holder
  <2>2. shown' \in [Tabs -> Shown]
    BY <1>1 DEF TypeOK, Logout, Shown, Holder
  <2>3. crossed' \in BOOLEAN
    BY <1>1 DEF TypeOK, Logout, TakenForGranted
  <2> QED
    BY <1>1, <2>1, <2>2, <2>3 DEF TypeOK, Logout
<1>3. Sound'
  BY DEF SessionInv, Sound, Logout
<1>4. ASSUME ~crossed' PROVE (OneAccount /\ GoneIfRefused)'
  <2>1. SignedIn \ {t} = {} /\ ~\E d \in Calls : calls[d].at \in InFlight
    BY <1>4 DEF TakenForGranted, Logout
  <2>2. SignedIn' = {}
    BY <2>1, <1>1 DEF SignedIn, Logout, TypeOK
  <2> QED
    BY <2>1, <2>2 DEF OneAccount, GoneIfRefused, Logout, Empty
<1> QED
  BY <1>2, <1>3, <1>4 DEF SessionInv

\* A token that was refreshed is of the user, if no account has crossed.
LEMMA RefreshedKeeps == ASSUME SessionInv, NEW c \in Calls, Refreshed(c) PROVE SessionInv'
<1> DEFINE a == calls[c].as
<1>1. TypeOK /\ calls[c] \in Call /\ a \in Accounts /\ a # None
  BY Moves, NoneIsNobody DEF SessionInv, Refreshed, TypeOK
<1>2. a \in Holder
  BY <1>1 DEF Holder
<1>3. /\ calls' \in [Calls -> Call]
      /\ calls'[c].at = "retry" /\ calls'[c].as = a /\ calls'[c].tab = calls[c].tab
      /\ \A d \in Calls \ {c} : calls'[d] = calls[d]
  BY <1>1, <1>2, Moves DEF Refreshed
<1>4. /\ store' \in Store
      /\ store'.access = a /\ store'.refresh = store.refresh /\ store'.user = store.user
  BY <1>1, <1>2 DEF Refreshed, TypeOK, Store
<1>5. TypeOK'
  BY <1>1, <1>3, <1>4 DEF TypeOK, Refreshed
<1>6. Sound'
  BY <1>1, <1>3 DEF SessionInv, Sound, Refreshed
<1>7. ASSUME ~crossed' PROVE (OneAccount /\ GoneIfRefused)'
  <2>1. OneAccount /\ GoneIfRefused
    BY <1>7 DEF SessionInv, Refreshed
  <2>2. a = store.user /\ shown[calls[c].tab].in
    BY <2>1, <1>1 DEF OneAccount, Refreshed, InFlight
  <2>3. \A d \in Calls : calls'[d].at \in InFlight =>
            calls'[d].as \in {store.user, None} /\ shown[calls'[d].tab].in
    BY <2>1, <2>2, <1>3 DEF OneAccount
  <2>4. UNCHANGED <<shown, denied>>
    BY DEF Refreshed
  <2>5. SignedIn' = SignedIn /\ shown' = shown
    BY <2>4 DEF SignedIn
  <2>6. OneAccount'
    <3>0. calls[c].tab \in SignedIn
      BY <2>2 DEF SessionInv, Sound, Refreshed, SignedIn
    <3>1. store'.access = store'.user /\ store'.access # None /\ SignedIn' # {}
      BY <3>0, <2>2, <2>5, <1>1, <1>4
    <3>2. {store'.access, store'.refresh} \subseteq {store'.user, None}
      BY <2>1, <2>2, <1>4 DEF OneAccount
    <3>3. \A t \in SignedIn' : shown'[t].user = store'.user /\ store'.user # None
      BY <2>1, <2>5, <1>4 DEF OneAccount
    <3>4. \A d \in Calls : calls'[d].at \in InFlight =>
              calls'[d].as \in {store'.user, None} /\ shown'[calls'[d].tab].in
      BY <2>3, <2>5, <1>4
    <3> QED
      BY <3>1, <3>2, <3>3, <3>4 DEF OneAccount
  <2>7. GoneIfRefused'
    BY <2>1, <2>4, <2>5, <1>4 DEF GoneIfRefused
  <2> QED
    BY <2>6, <2>7
<1> QED
  BY <1>5, <1>6, <1>7 DEF SessionInv

\* The session of a request ends because its refresh token is gone, or refused.
LEMMA EndingKeeps ==
    ASSUME SessionInv, NEW c \in Calls, EndSession(calls[c].tab),
           UNCHANGED <<valid, crossed>>,
           denied \subseteq denied', denied' \subseteq Accounts,
           calls[c].at \in InFlight,
           \/ store.refresh = None
           \/ calls[c].at = "refresh" /\ calls[c].as \in denied'
    PROVE  SessionInv' /\ (crossed \/ store.user \in denied')
<1> DEFINE s == [store EXCEPT !.access = None, !.refresh = None]
<1>1. TypeOK /\ calls[c].tab \in Tabs
  BY DEF SessionInv, Sound, InFlight
<1>2. s \in Store
  BY <1>1 DEF TypeOK, Store, Holder
<1>3. ASSUME ~crossed PROVE store.user \in denied'
  <2>1. OneAccount /\ GoneIfRefused
    BY <1>3 DEF SessionInv
  <2>2. SignedIn # {}
    BY <2>1, <1>1 DEF OneAccount, SignedIn
  <2>3. CASE store.refresh = None
    BY <2>1, <2>2, <2>3 DEF GoneIfRefused
  <2>4. CASE calls[c].at = "refresh" /\ calls[c].as \in denied'
    BY <2>1, <2>4 DEF OneAccount, SessionInv, Sound, InFlight
  <2> QED
    BY <2>3, <2>4
<1>4. LoadTab(calls[c].tab, s)
  BY DEF EndSession
<1> QED
  BY <1>1, <1>2, <1>3, <1>4, LoadingKeeps

\* Every step keeps the invariant.
LEMMA InvStep == SessionInv /\ [Next]_vars => SessionInv'
<1> SUFFICES ASSUME SessionInv, [Next]_vars PROVE SessionInv'
  OBVIOUS
<1>1. TypeOK /\ store \in Store /\ calls \in [Calls -> Call] /\ Idle \in Call
  BY DEF SessionInv, TypeOK, Idle, Call, Holder
<1>2. ASSUME NEW c \in Calls, NEW t \in Tabs, NEW a \in Accounts, Submit(c, t, a)
      PROVE  SessionInv'
  <2> DEFINE new == [at |-> "login", tab |-> t, as |-> a]
  <2>1. new \in Call /\ a # None
    BY NoneIsNobody DEF Call, Holder
  <2>2. calls' \in [Calls -> Call] /\ \A d \in Calls : calls'[d] \in {calls[d], new}
    BY <1>1, <1>2, <2>1 DEF Submit
  <2>3. UNCHANGED <<store, shown, valid, denied, crossed>>
    BY <1>2 DEF Submit
  <2>4. \A d \in Calls : \/ calls'[d] \in {calls[d], Idle}
                         \/ /\ calls'[d].at = "login" /\ calls'[d].tab \in Tabs
                            /\ calls'[d].as # None
    BY <2>1, <2>2
  <2> QED
    BY <2>2, <2>3, <2>4, CallsKeep
<1>3. ASSUME NEW c \in Calls, NEW t \in Tabs, Send(c, t) PROVE SessionInv'
  <2> DEFINE new == [at |-> "first", tab |-> t, as |-> store.access]
  <2>1. new \in Call
    BY <1>1 DEF Call, Store
  <2>2. calls' \in [Calls -> Call] /\ \A d \in Calls : calls'[d] \in {calls[d], new}
    BY <1>1, <1>3, <2>1 DEF Send
  <2>3. UNCHANGED <<store, shown, valid, denied, crossed>> /\ t \in SignedIn
    BY <1>3 DEF Send, SignedIn
  <2>4. \A d \in Calls : \/ calls'[d] \in {calls[d], Idle}
                         \/ /\ calls'[d].at \in InFlight /\ calls'[d].tab \in SignedIn
                            /\ calls'[d].as \in {store.access, store.refresh}
                            /\ calls'[d].at # "first" => calls'[d].as # None
    BY <2>2, <2>3 DEF InFlight
  <2> QED
    BY <2>2, <2>3, <2>4, CallsKeep
<1>4. ASSUME NEW c \in Calls, Answered(c) \/ Fails(c) PROVE SessionInv'
  <2>1. UNCHANGED <<store, shown, valid, denied, crossed>> /\ Ends(c)
    BY <1>4 DEF Answered, Fails
  <2>2. calls' \in [Calls -> Call] /\ \A d \in Calls : calls'[d] \in {calls[d], Idle}
    BY <2>1, <1>1 DEF Ends
  <2> QED
    BY <2>1, <2>2, CallsKeep
<1>5. ASSUME NEW c \in Calls, Unauthorized(c) PROVE SessionInv'
  <2>1. CASE store.refresh = None
    BY <1>1, <1>5, <2>1, EndingKeeps DEF Unauthorized, InFlight, TypeOK
  <2>2. CASE store.refresh # None
    <3>1. Becomes(c, "refresh", store.refresh) /\ UNCHANGED <<store, shown, valid, denied, crossed>>
      BY <1>5, <2>2 DEF Unauthorized
    <3>2. store.refresh \in Holder
      BY <1>1 DEF Store
    <3>3. /\ calls' \in [Calls -> Call]
          /\ calls'[c].at = "refresh" /\ calls'[c].as = store.refresh
          /\ calls'[c].tab = calls[c].tab
          /\ \A d \in Calls \ {c} : calls'[d] = calls[d]
      BY <3>1, <3>2, <1>1, Moves
    <3>4. calls[c].at \in InFlight
      BY <1>5 DEF Unauthorized, InFlight
    <3>5. \A d \in Calls :
              \/ calls'[d] \in {calls[d], Idle}
              \/ /\ calls'[d].at \in InFlight /\ calls[d].at \in InFlight
                 /\ calls'[d].tab = calls[d].tab
                 /\ calls'[d].as = store.refresh /\ store.refresh # None
      BY <3>3, <3>4, <2>2 DEF InFlight
    <3> QED
      BY <3>1, <3>3, <3>5, CallsKeep
  <2> QED
    BY <2>1, <2>2
<1>6. ASSUME NEW c \in Calls, RefreshRefused(c) PROVE SessionInv'
  <2>1. calls[c].as \in Accounts
    BY <1>1, <1>6 DEF RefreshRefused, SessionInv, Sound, Call, Holder
  <2>2. denied \subseteq denied' /\ denied' \subseteq Accounts /\ calls[c].as \in denied'
    BY <1>1, <1>6, <2>1 DEF RefreshRefused, TypeOK
  <2> QED
    BY <1>6, <2>2, EndingKeeps DEF RefreshRefused, InFlight
<1>7. ASSUME NEW t \in Tabs, Reload(t) PROVE SessionInv'
  BY <1>7, <1>1, LoadingKeeps DEF Reload, TypeOK
<1>8. ASSUME NEW a \in Accounts, Revoke(a) PROVE SessionInv'
  <2>1. TypeOK' /\ Sound'
    BY <1>8 DEF SessionInv, TypeOK, Sound, Revoke
  <2>2. crossed' \/ (OneAccount /\ GoneIfRefused)'
    BY <1>8 DEF SessionInv, OneAccount, GoneIfRefused, SignedIn, Revoke
  <2> QED
    BY <2>1, <2>2 DEF SessionInv
<1>9. CASE UNCHANGED vars
  <2>1. TypeOK' /\ Sound'
    BY <1>9 DEF SessionInv, TypeOK, Sound, vars
  <2>2. crossed' \/ (OneAccount /\ GoneIfRefused)'
    BY <1>9 DEF SessionInv, OneAccount, GoneIfRefused, SignedIn, vars
  <2> QED
    BY <2>1, <2>2 DEF SessionInv
<1> QED
  BY <1>2, <1>3, <1>4, <1>5, <1>6, <1>7, <1>8, <1>9,
     LoggedInKeeps, LogoutKeeps, RefreshedKeeps DEF Next, Progress

\* The tokens, the tabs and the requests under way are always of one account,
\* or an account has crossed.
THEOREM SessionInvariant == Spec => []SessionInv
<1> QED
  BY InvInit, InvStep, PTL DEF Spec

\* A tab acts as the account it shows (apiFetch reads the token anew for every
\* request, AuthProvider once).
THEOREM TabActsAsShown == Spec => []ActsAsShown
<1>1. SessionInv => ActsAsShown
  BY DEF SessionInv, OneAccount, ActsAsShown, SignedIn
<1> QED
  BY <1>1, SessionInvariant, PTL

\* Nobody is signed out but by an answer that refused a refresh of their account.
THEOREM SignedOutIfRefused == Spec => KeptSignedIn
<1> DEFINE Kept == \A t \in Tabs :
                       shown[t].in /\ ~shown'[t].in =>
                           crossed \/ store'.user = None \/ shown[t].user \in denied'
<1>1. SessionInv /\ [Next]_vars => [Kept]_vars
  <2> SUFFICES ASSUME SessionInv, [Next]_vars, ~crossed,
                      NEW t \in Tabs, shown[t].in, ~shown'[t].in, store'.user # None
               PROVE  store.user \in denied' /\ shown[t].user = store.user
    BY DEF Kept
  <2>1. OneAccount /\ GoneIfRefused /\ TypeOK /\ t \in SignedIn
    BY DEF SessionInv, SignedIn
  <2>2. shown[t].user = store.user
    BY <2>1 DEF OneAccount
  <2>3. shown' # shown
    OBVIOUS
  <2>4. ASSUME NEW c \in Calls, LoggedIn(c) PROVE FALSE
    <3>1. calls[c].tab \in Tabs
      BY <2>4 DEF SessionInv, Sound, LoggedIn
    <3> QED
      BY <2>4, <2>1, <3>1 DEF LoggedIn, TypeOK
  <2>5. ASSUME NEW u \in Tabs, Logout(u) PROVE FALSE
    BY <2>5 DEF Logout, Empty
  <2>6. ASSUME NEW u \in Tabs, Reload(u) PROVE store.user \in denied'
    <3>1. LoadTab(u, store) /\ store \in Store
      BY <2>6, <2>1 DEF Reload, TypeOK
    <3>2. store.access = None
      BY <3>1, <2>1, Loading
    <3> QED
      BY <3>2, <2>1, <2>6 DEF OneAccount, GoneIfRefused, Reload
  <2>7. ASSUME NEW c \in Calls, Unauthorized(c) PROVE store.user \in denied'
    <3>1. store.refresh = None
      BY <2>7, <2>3 DEF Unauthorized
    <3> QED
      BY <3>1, <2>1, <2>7 DEF GoneIfRefused, Unauthorized
  <2>8. ASSUME NEW c \in Calls, RefreshRefused(c) PROVE store.user \in denied'
    <3>1. calls[c].as = store.user
      BY <2>1, <2>8 DEF RefreshRefused, OneAccount, InFlight, SessionInv, Sound
    <3> QED
      BY <2>8, <3>1 DEF RefreshRefused
  <2>9. CASE UNCHANGED vars
    BY <2>9 DEF vars
  <2> QED
    BY <2>2, <2>3, <2>4, <2>5, <2>6, <2>7, <2>8, <2>9
       DEF Next, Progress, Submit, Send, Answered, Refreshed, Fails, Revoke
<1> QED
  BY <1>1, SessionInvariant, PTL DEF Spec, KeptSignedIn
=============================================================================
