---------------------------- MODULE FrontendProofs ----------------------------
(***************************************************************************)
(* What the steps of Screen keep, for every handler that is sound; and     *)
(* every handler of the pages is sound, so every step of the web interface *)
(* keeps the invariant of Screen: no flag is left up, a page shows what    *)
(* was done on it, and what is deleted is in the list shown, if that was   *)
(* loaded alone and no load has failed since; whatever the number of rows, *)
(* filters, handlers under way and changes of the server.  And the views   *)
(* of streams have one connection.                                         *)
(***************************************************************************)
EXTENDS Frontend, TLAPS

-----------------------------------------------------------------------------
(* Handlers and calls.                                                     *)

LEMMA WorkTyped == Work \in Handler /\ ~Work.inner
  BY DEF Work, Handler, Places

LEMMA NewCallFacts ==
    ASSUME NEW h \in Handler, NEW i \in Targets, NEW f \in Filters
    PROVE  LET c == NewCall(h, i, f) IN
           /\ c \in Call
           /\ c.h = h /\ c.row = i /\ c.does = "work" /\ c.at = "sent" /\ c.seen = 0
           /\ c.of = f /\ c.alone /\ c.live
  BY ConstantAssumption DEF NewCall, Call

LEMMA NoCallFacts ==
    NoCall \in Call /\ NoCall.does = "nothing" /\ NoCall.seen = 0 /\ NoCall.live /\ ~NoCall.h.inner
<1>1. Work \in Handler /\ ~Work.inner
  BY WorkTyped
<1>2. Form \in Targets /\ (CHOOSE f \in Filters : TRUE) \in Filters
  BY ConstantAssumption DEF Targets
<1> DEFINE c == NewCall(Work, Form, CHOOSE f \in Filters : TRUE)
<1>3. c \in Call /\ c.h = Work /\ c.seen = 0 /\ c.live
  BY <1>1, <1>2, NewCallFacts
<1>4. NoCall = [c EXCEPT !.does = "nothing"]
  BY DEF NoCall
<1> HIDE DEF c
<1> QED
  BY <1>1, <1>3, <1>4 DEF Call

LEMMA LoadingCall ==
    ASSUME NEW c \in Call, NEW b \in BOOLEAN
    PROVE  LET m == [c EXCEPT !.does = "load", !.at = "sent", !.seen = 0, !.alone = b] IN
           /\ m \in Call /\ m.h = c.h /\ m.row = c.row /\ m.of = c.of /\ m.live = c.live
           /\ m.does = "load" /\ m.at = "sent" /\ m.seen = 0 /\ m.alone = b
<1> DEFINE m == [c EXCEPT !.does = "load", !.at = "sent", !.seen = 0, !.alone = b]
<1>1. 0 \in 0 .. MaxChanges
  BY ConstantAssumption
<1>2. m \in Call
  BY <1>1 DEF Call
<1>3. m.h = c.h /\ m.row = c.row /\ m.of = c.of /\ m.live = c.live
  BY DEF Call
<1>4. m.does = "load" /\ m.at = "sent" /\ m.seen = 0
  BY DEF Call
<1>5. m.alone = b
  BY DEF Call
<1> QED
  BY <1>2, <1>3, <1>4, <1>5

\* The calls when slot s goes on to load for c.
LEMMA WithLoadFacts ==
    ASSUME NEW cs \in [Slots -> Call], NEW s \in Slots, NEW c \in Call
    PROVE  LET w == WithLoad(cs, s, c) IN
           /\ w \in [Slots -> Call]
           /\ w[s].h = c.h /\ w[s].row = c.row /\ w[s].of = c.of /\ w[s].live = c.live
           /\ w[s].does = "load" /\ w[s].at = "sent" /\ w[s].seen = 0
           /\ w[s].alone <=> c.alone /\ \A t \in Slots \ {s} : cs[t].does # "load"
           /\ \A t \in Slots \ {s} :
                /\ w[t].h = cs[t].h /\ w[t].row = cs[t].row /\ w[t].of = cs[t].of
                /\ w[t].live = cs[t].live /\ w[t].does = cs[t].does /\ w[t].at = cs[t].at
                /\ w[t].seen = cs[t].seen
                /\ w[t].alone <=> cs[t].alone /\ cs[t].does # "load"
<1> DEFINE others == {t \in Slots \ {s} : cs[t].does = "load"}
           b      == c.alone /\ others = {}
           mine   == [c EXCEPT !.does = "load", !.at = "sent", !.seen = 0,
                               !.alone = b]
           w      == WithLoad(cs, s, c)
<1>1. mine \in Call /\ mine.h = c.h /\ mine.row = c.row /\ mine.of = c.of /\ mine.live = c.live
      /\ mine.does = "load" /\ mine.at = "sent" /\ mine.seen = 0
      /\ mine.alone = b
  <2>1. b \in BOOLEAN
    OBVIOUS
  <2> HIDE DEF b
  <2> QED
    BY <2>1, LoadingCall
<1>2. \A t \in Slots : w[t] = IF t = s THEN mine
                              ELSE IF t \in others THEN [cs[t] EXCEPT !.alone = FALSE] ELSE cs[t]
  BY DEF WithLoad
<1>3. \A t \in Slots : cs[t] \in Call
  OBVIOUS
<1>4. \A t \in Slots : LET d == [cs[t] EXCEPT !.alone = FALSE] IN
        d \in Call /\ d.h = cs[t].h /\ d.row = cs[t].row /\ d.of = cs[t].of /\ d.live = cs[t].live
        /\ d.does = cs[t].does /\ d.at = cs[t].at /\ d.seen = cs[t].seen /\ ~d.alone
  BY <1>3 DEF Call
<1>5. w = [t \in Slots |-> w[t]]
  BY DEF WithLoad
<1> HIDE DEF w, mine
<1>6. w \in [Slots -> Call]
  BY <1>1, <1>2, <1>3, <1>4, <1>5
<1>7. w[s] = mine
  BY <1>2
<1>8. \A t \in Slots \ {s} :
        /\ w[t].h = cs[t].h /\ w[t].row = cs[t].row /\ w[t].of = cs[t].of
        /\ w[t].live = cs[t].live /\ w[t].does = cs[t].does /\ w[t].at = cs[t].at
        /\ w[t].seen = cs[t].seen
        /\ w[t].alone <=> cs[t].alone /\ cs[t].does # "load"
  BY <1>2, <1>4
<1> QED
  BY <1>1, <1>6, <1>7, <1>8 DEF w

LEMMA OrphanedFacts ==
    ASSUME NEW cs \in [Slots -> Call]
    PROVE  LET w == Orphaned(cs) IN
           /\ w \in [Slots -> Call]
           /\ \A t \in Slots :
                /\ w[t].h = cs[t].h /\ w[t].row = cs[t].row /\ w[t].of = cs[t].of
                /\ w[t].does = cs[t].does /\ w[t].at = cs[t].at /\ w[t].seen = cs[t].seen
                /\ w[t].alone = cs[t].alone
                /\ w[t].live <=> cs[t].live /\ ~cs[t].h.inner
<1>1. \A t \in Slots : LET d == [cs[t] EXCEPT !.live = FALSE] IN
        d \in Call /\ d.h = cs[t].h /\ d.row = cs[t].row /\ d.of = cs[t].of
        /\ d.does = cs[t].does /\ d.at = cs[t].at /\ d.seen = cs[t].seen
        /\ d.alone = cs[t].alone /\ ~d.live
  BY DEF Call
<1> QED
  BY <1>1 DEF Orphaned

\* A step of one call: the others are as they were.
LEMMA SetCallFacts ==
    ASSUME NEW cs \in [Slots -> Call], NEW s \in Slots, NEW c \in Call
    PROVE  LET w == [cs EXCEPT ![s] = c] IN
           /\ w \in [Slots -> Call] /\ w[s] = c
           /\ \A t \in Slots \ {s} : w[t] = cs[t]
  OBVIOUS

-----------------------------------------------------------------------------
(* Steps that touch no call.                                               *)

LEMMA DialogKeeps ==
    ASSUME CallsInv,
           UNCHANGED <<page, uses, changes, told, list, filter, loading, busy, calls>>,
           error' \in [Places -> Causes], open' \in [Dialogs -> SUBSET Targets],
           draft' \in SUBSET Targets
    PROVE  CallsInv'
  BY DEF CallsInv, TypeOK, BusyHasCall, SoundCalls, Sound, Fits, Past, Alone, Current, Hidden,
         UnderWay, IsLoad, Spins, Stops

LEMMA OthersChangeKeeps == ASSUME CallsInv, OthersChange PROVE CallsInv'
<1> USE DEF CallsInv
<1>1. UNCHANGED <<page, uses, told, list, filter, loading, error, busy, open, draft, calls>>
      /\ changes' = changes + 1 /\ changes < MaxChanges
  BY DEF OthersChange, MayChange, screen
<1>2. TypeOK'
  BY <1>1, ConstantAssumption DEF TypeOK
<1>3. Past'
  BY <1>1, ConstantAssumption DEF TypeOK, Past, Call
<1>4. BusyHasCall' /\ SoundCalls' /\ Alone' /\ Current' /\ Hidden'
  BY <1>1 DEF BusyHasCall, SoundCalls, Sound, Fits, Alone, Current, Hidden,
              UnderWay, IsLoad, Spins, Stops
<1> QED
  BY <1>2, <1>3, <1>4

-----------------------------------------------------------------------------
(* The server.                                                             *)

LEMMA AnswerKeeps ==
    ASSUME CallsInv, NEW s \in Slots, UnderWay(s), calls[s].at = "sent",
           NEW ans \in {"ok", "bodyless", "failed"}, NEW seen \in 0 .. MaxChanges,
           Answer(s, ans, seen),
           changes' \in 0 .. MaxChanges, changes <= changes', seen <= changes',
           IsLoad(s) /\ ans = "ok" => seen = changes',
           UNCHANGED <<page, uses, told, screen>>
    PROVE  CallsInv'
<1> USE DEF CallsInv
<1> DEFINE c == [calls[s] EXCEPT !.at = ans, !.seen = seen]
<1>1. calls \in [Slots -> Call] /\ calls[s] \in Call
  BY DEF TypeOK
<1>2. c \in Call /\ c.h = calls[s].h /\ c.row = calls[s].row /\ c.does = calls[s].does
      /\ c.of = calls[s].of /\ c.alone = calls[s].alone /\ c.live = calls[s].live
      /\ c.at = ans /\ c.seen = seen
  BY <1>1 DEF Call
<1>3. calls' = [calls EXCEPT ![s] = c]
  BY <1>1 DEF Answer
<1> HIDE DEF c
<1>4. calls' \in [Slots -> Call] /\ calls'[s] = c /\ \A t \in Slots \ {s} : calls'[t] = calls[t]
  BY <1>1, <1>2, <1>3
<1>5. UNCHANGED <<page, uses, told, list, filter, loading, error, busy, open, draft>>
  BY DEF screen
<1>6. \A t \in Slots : /\ calls'[t].h = calls[t].h /\ calls'[t].row = calls[t].row
                       /\ calls'[t].does = calls[t].does /\ calls'[t].of = calls[t].of
                       /\ calls'[t].alone = calls[t].alone /\ calls'[t].live = calls[t].live
  BY <1>2, <1>4
<1>7. TypeOK'
  BY <1>4, <1>5 DEF TypeOK
<1>8. BusyHasCall'
  BY <1>5, <1>6 DEF BusyHasCall, UnderWay, IsLoad, Stops
<1>9. SoundCalls'
  BY <1>5, <1>6 DEF SoundCalls, Sound, Fits, Spins, Stops, UnderWay, IsLoad
<1>10. Past'
  <2>1. told' <= changes'
    BY <1>5, ConstantAssumption DEF TypeOK, Past
  <2>2. ASSUME NEW t \in Slots PROVE calls'[t].seen <= changes'
    <3>1. CASE t = s
      BY <1>2, <1>4, <3>1
    <3>2. CASE t # s
      BY <1>1, <1>4, <3>2, ConstantAssumption DEF TypeOK, Past, Call
    <3> QED
      BY <3>1, <3>2
  <2> QED
    BY <2>1, <2>2 DEF Past
<1>11. Alone'
  <2> SUFFICES ASSUME NEW t \in Slots, UnderWay(t)', calls'[t].alone
               PROVE  /\ calls'[t].of = filter'
                      /\ IsLoad(t)' => /\ calls'[t].at = "ok" => told' <= calls'[t].seen
                                       /\ \A u \in Slots \ {t} : ~IsLoad(u)'
    BY DEF Alone
  <2>1. calls'[t].of = filter' /\ (IsLoad(t)' => \A u \in Slots \ {t} : ~IsLoad(u)')
    BY <1>5, <1>6 DEF Alone, UnderWay, IsLoad
  <2>2. ASSUME IsLoad(t)', calls'[t].at = "ok" PROVE told' <= calls'[t].seen
    <3>1. CASE t = s
      BY <1>2, <1>4, <1>5, <1>10, <2>2, <3>1 DEF IsLoad, Past
    <3>2. CASE t # s
      BY <1>4, <1>5, <2>2, <3>2 DEF Alone, UnderWay, IsLoad
    <3> QED
      BY <3>1, <3>2
  <2> QED
    BY <2>1, <2>2
<1>12. Current' /\ Hidden'
  BY <1>5, <1>6 DEF Current, Hidden, IsLoad
<1> QED
  BY <1>7, <1>8, <1>9, <1>10, <1>11, <1>12

LEMMA ServeKeeps == ASSUME CallsInv, NEW s \in Slots, Serve(s) PROVE CallsInv'
<1>1. TypeOK /\ changes \in 0 .. MaxChanges /\ UnderWay(s) /\ calls[s].at = "sent"
      /\ UNCHANGED <<page, uses, told, screen>>
  BY DEF CallsInv, TypeOK, Serve
<1>2. CASE calls[s].does = "work" /\ calls[s].h.changes
  <2>1. changes' = changes + 1 /\ changes' \in 0 .. MaxChanges /\ changes <= changes'
    BY <1>1, <1>2, ConstantAssumption DEF Serve, MayChange
  <2>2. ~IsLoad(s)
    BY <1>2 DEF IsLoad
  <2>3. CASE calls[s].h.bodyless
    <3>1. Answer(s, "bodyless", changes')
      BY <1>2, <2>3 DEF Serve
    <3> QED
      BY <1>1, <2>1, <2>2, <3>1, AnswerKeeps
  <2>4. CASE ~calls[s].h.bodyless
    <3>1. Answer(s, "ok", changes')
      BY <1>2, <2>4 DEF Serve
    <3> QED
      BY <1>1, <2>1, <2>2, <3>1, AnswerKeeps
  <2> QED
    BY <2>3, <2>4
<1>3. CASE ~(calls[s].does = "work" /\ calls[s].h.changes)
  <2>1. Answer(s, "ok", changes) /\ changes' = changes
    BY <1>3 DEF Serve
  <2>2. changes <= changes
    BY <1>1, ConstantAssumption
  <2> QED
    BY <1>1, <2>1, <2>2, AnswerKeeps
<1> QED
  BY <1>2, <1>3

LEMMA FailKeeps == ASSUME CallsInv, NEW s \in Slots, Fail(s) PROVE CallsInv'
<1>1. TypeOK /\ changes \in 0 .. MaxChanges /\ UnderWay(s) /\ calls[s].at = "sent"
      /\ Answer(s, "failed", 0) /\ UNCHANGED <<page, uses, told, screen>>
  BY DEF CallsInv, TypeOK, Fail
<1>2. changes' \in 0 .. MaxChanges /\ changes <= changes' /\ 0 <= changes' /\ 0 \in 0 .. MaxChanges
  BY <1>1, ConstantAssumption DEF Fail, MayChange
<1> QED
  BY <1>1, <1>2, AnswerKeeps

-----------------------------------------------------------------------------
(* What the user does.                                                     *)

\* What is inside the page is unmounted: modals, or rows.
LEMMA UnmountKeeps ==
    ASSUME CallsInv, calls' = Orphaned(calls), busy' = InnerReset(busy),
           UNCHANGED <<page, uses, changes, told, list, filter, loading>>,
           error' \in [Places -> Causes], open' \in [Dialogs -> SUBSET Targets],
           draft' \in SUBSET Targets
    PROVE  CallsInv'
<1> USE DEF CallsInv
<1>1. calls \in [Slots -> Call]
  BY DEF TypeOK
<1>2. /\ calls' \in [Slots -> Call]
      /\ \A t \in Slots :
           /\ calls'[t].h = calls[t].h /\ calls'[t].row = calls[t].row /\ calls'[t].of = calls[t].of
           /\ calls'[t].does = calls[t].does /\ calls'[t].at = calls[t].at
           /\ calls'[t].seen = calls[t].seen /\ calls'[t].alone = calls[t].alone
           /\ calls'[t].live <=> calls[t].live /\ ~calls[t].h.inner
  BY <1>1, OrphanedFacts
<1>3. busy' \in [Flags -> SUBSET Targets]
  BY DEF InnerReset, TypeOK
<1>4. TypeOK'
  BY <1>2, <1>3 DEF TypeOK
<1>5. BusyHasCall'
  <2>1. ASSUME NEW f \in Flags, NEW i \in busy'[f]
        PROVE  \E s \in Slots : /\ UnderWay(s)' /\ calls'[s].live
                                /\ f \in calls'[s].h.flag /\ calls'[s].row = i
    <3>1. f \notin InnerFlags /\ i \in busy[f]
      BY <2>1 DEF InnerReset, TypeOK
    <3>2. PICK s \in Slots : UnderWay(s) /\ calls[s].live /\ f \in calls[s].h.flag /\ calls[s].row = i
      BY <3>1 DEF BusyHasCall
    <3>3. ~calls[s].h.inner
      BY <3>1, <3>2 DEF SoundCalls, Sound
    <3> QED
      BY <1>2, <3>2, <3>3 DEF UnderWay
  <2>2. loading' => \E s \in Slots : IsLoad(s)' /\ Stops(calls[s].h)'
    BY <1>2 DEF BusyHasCall, IsLoad, Stops
  <2> QED
    BY <2>1, <2>2 DEF BusyHasCall
<1>6. SoundCalls'
  BY <1>2 DEF SoundCalls, Sound, Fits, Spins, Stops, UnderWay, IsLoad
<1>7. Past' /\ Alone' /\ Current' /\ Hidden'
  BY <1>2 DEF Past, Alone, Current, Hidden, UnderWay, IsLoad
<1> QED
  BY <1>4, <1>5, <1>6, <1>7

\* A handler that a button may start.
Startable(h) == Sound(h) /\ Fits(h) /\ ~h.appends

LEMMA BeginKeeps ==
    ASSUME CallsInv, NEW h, Startable(h), NEW i \in Targets,
           NEW o \in [Dialogs -> SUBSET Targets], NEW d \in SUBSET Targets, Begin(h, i, o, d)
    PROVE  CallsInv'
<1> USE DEF CallsInv
<1> DEFINE s == CHOOSE t \in Free : TRUE
           c == NewCall(h, i, filter)
<1>1. s \in Slots /\ ~UnderWay(s)
  BY DEF Begin, Free
<1>2. h \in Handler /\ filter \in Filters /\ calls \in [Slots -> Call]
  BY DEF Startable, Sound, TypeOK
<1>3. c \in Call /\ c.h = h /\ c.row = i /\ c.does = "work" /\ c.at = "sent" /\ c.seen = 0
      /\ c.of = filter /\ c.alone /\ c.live
  BY <1>2, NewCallFacts
<1>4. calls' = [calls EXCEPT ![s] = c] /\ busy' = Raised(h, i) /\ error' = Without(h.wipes)
      /\ open' = o /\ draft' = d /\ UNCHANGED <<page, uses, changes, told, list, filter, loading>>
  BY DEF Begin
<1> HIDE DEF s, c
<1>5. calls' \in [Slots -> Call] /\ calls'[s] = c /\ \A t \in Slots \ {s} : calls'[t] = calls[t]
  BY <1>1, <1>2, <1>3, <1>4
<1>6. TypeOK'
  <2>1. busy' \in [Flags -> SUBSET Targets]
    BY <1>4 DEF Raised, TypeOK
  <2>2. error' \in [Places -> Causes]
    BY <1>4 DEF Without, TypeOK, Causes
  <2> QED
    BY <1>4, <1>5, <2>1, <2>2 DEF TypeOK
<1>7. BusyHasCall'
  <2>1. ASSUME NEW f \in Flags, NEW j \in busy'[f]
        PROVE  \E t \in Slots : /\ UnderWay(t)' /\ calls'[t].live
                                /\ f \in calls'[t].h.flag /\ calls'[t].row = j
    <3>1. CASE f \in h.flag /\ j = i
      BY <1>1, <1>3, <1>5, <3>1 DEF UnderWay
    <3>2. CASE ~(f \in h.flag /\ j = i)
      <4>1. j \in busy[f]
        BY <1>4, <2>1, <3>2 DEF Raised, TypeOK
      <4>2. PICK t \in Slots : UnderWay(t) /\ calls[t].live /\ f \in calls[t].h.flag /\ calls[t].row = j
        BY <4>1 DEF BusyHasCall
      <4> QED
        BY <1>1, <1>5, <4>2 DEF UnderWay
    <3> QED
      BY <3>1, <3>2
  <2>2. loading' => \E t \in Slots : IsLoad(t)' /\ Stops(calls[t].h)'
    <3> SUFFICES ASSUME loading' PROVE \E t \in Slots : IsLoad(t)' /\ Stops(calls[t].h)'
      OBVIOUS
    <3>1. PICK t \in Slots : IsLoad(t) /\ Stops(calls[t].h)
      BY <1>4 DEF BusyHasCall
    <3>2. t # s
      BY <1>1, <3>1 DEF IsLoad, UnderWay
    <3> QED
      BY <1>5, <3>1, <3>2 DEF IsLoad, Stops
  <2> QED
    BY <2>1, <2>2 DEF BusyHasCall
<1>8. SoundCalls'
  <2> SUFFICES ASSUME NEW t \in Slots, UnderWay(t)'
               PROVE  /\ Sound(calls[t].h)' /\ Fits(calls[t].h)'
                      /\ calls'[t].does = "work" => ~calls'[t].h.appends
                      /\ IsLoad(t)' => calls'[t].h.reload # {}
    BY DEF SoundCalls
  <2>1. CASE t = s
    BY <1>3, <1>4, <1>5, <2>1 DEF Startable, Sound, Fits, Spins, Stops, IsLoad
  <2>2. CASE t # s
    BY <1>4, <1>5, <2>2 DEF SoundCalls, Sound, Fits, Spins, Stops, UnderWay, IsLoad
  <2> QED
    BY <2>1, <2>2
<1>9. \A t \in Slots : calls'[t].does = "load" <=> calls[t].does = "load"
  <2>1. calls'[s].does # "load" /\ calls[s].does # "load"
    BY <1>1, <1>3, <1>5 DEF UnderWay
  <2> QED
    BY <1>5, <2>1
<1>10. Past'
  BY <1>3, <1>4, <1>5, ConstantAssumption DEF Past, TypeOK
<1>11. Alone'
  BY <1>3, <1>4, <1>5, <1>9 DEF Alone, UnderWay, IsLoad
<1>12. Current' /\ Hidden'
  <2>1. Current'
    BY <1>1, <1>4, <1>5, <1>9 DEF Current, IsLoad, UnderWay
  <2>2. Hidden'
    BY <1>4, <1>9 DEF Hidden, IsLoad
  <2> QED
    BY <2>1, <2>2
<1> QED
  BY <1>6, <1>7, <1>8, <1>10, <1>11, <1>12

-----------------------------------------------------------------------------
(* Loading the list.                                                       *)

\* The calls when a load has started for c in slot s, as StartLoad leaves them.
LEMMA StartLoadFacts ==
    ASSUME NEW cs \in [Slots -> Call], NEW s \in Slots, NEW c \in Call, NEW places,
           StartLoad(cs, s, c, places)
    PROVE  /\ calls' \in [Slots -> Call]
           /\ calls'[s].h = c.h /\ calls'[s].row = c.row /\ calls'[s].of = c.of
           /\ calls'[s].live <=> c.live /\ ~(Hides(c.h) /\ c.h.inner)
           /\ calls'[s].does = "load" /\ calls'[s].at = "sent" /\ calls'[s].seen = 0
           /\ calls'[s].alone <=> c.alone /\ \A t \in Slots \ {s} : cs[t].does # "load"
           /\ \A t \in Slots \ {s} :
                /\ calls'[t].h = cs[t].h /\ calls'[t].row = cs[t].row /\ calls'[t].of = cs[t].of
                /\ calls'[t].live <=> cs[t].live /\ ~(Hides(c.h) /\ cs[t].h.inner)
                /\ calls'[t].does = cs[t].does /\ calls'[t].at = cs[t].at
                /\ calls'[t].seen = cs[t].seen
                /\ calls'[t].alone <=> cs[t].alone /\ cs[t].does # "load"
<1> DEFINE w == WithLoad(cs, s, c)
<1>1. /\ w \in [Slots -> Call]
      /\ w[s].h = c.h /\ w[s].row = c.row /\ w[s].of = c.of /\ w[s].live = c.live
      /\ w[s].does = "load" /\ w[s].at = "sent" /\ w[s].seen = 0
      /\ w[s].alone <=> c.alone /\ \A t \in Slots \ {s} : cs[t].does # "load"
      /\ \A t \in Slots \ {s} :
           /\ w[t].h = cs[t].h /\ w[t].row = cs[t].row /\ w[t].of = cs[t].of
           /\ w[t].live = cs[t].live /\ w[t].does = cs[t].does /\ w[t].at = cs[t].at
           /\ w[t].seen = cs[t].seen
           /\ w[t].alone <=> cs[t].alone /\ cs[t].does # "load"
  BY WithLoadFacts
<1>2. calls' = IF Hides(c.h) THEN Orphaned(w) ELSE w
  BY DEF StartLoad
<1> HIDE DEF w
<1>3. CASE Hides(c.h)
  <2>1. /\ calls' \in [Slots -> Call]
        /\ \A t \in Slots :
             /\ calls'[t].h = w[t].h /\ calls'[t].row = w[t].row /\ calls'[t].of = w[t].of
             /\ calls'[t].does = w[t].does /\ calls'[t].at = w[t].at /\ calls'[t].seen = w[t].seen
             /\ calls'[t].alone = w[t].alone
             /\ calls'[t].live <=> w[t].live /\ ~w[t].h.inner
    BY <1>1, <1>2, <1>3, OrphanedFacts
  <2> QED
    BY <1>1, <1>3, <2>1
<1>4. CASE ~Hides(c.h)
  BY <1>1, <1>2, <1>4
<1> QED
  BY <1>3, <1>4

\* A load starts in a free slot: cs are the calls with some loads dropped, if the
\* handler drops them, and those that go on not alone, if the filter is another.
LEMMA LoadForKeeps ==
    ASSUME CallsInv, NEW h, Sound(h), Fits(h), h.reload # {},
           NEW cs \in [Slots -> Call], NEW f \in Filters, NEW b \in [Flags -> SUBSET Targets],
           \A t \in Slots : cs[t].seen <= changes,
           \A t \in Slots : cs[t].does # "nothing" =>
               /\ cs[t].h = calls[t].h /\ cs[t].row = calls[t].row /\ cs[t].does = calls[t].does
               /\ cs[t].at = calls[t].at /\ cs[t].of = calls[t].of
               /\ cs[t].live = calls[t].live
               /\ cs[t].alone => calls[t].alone /\ f = filter,
           \A t \in Slots : UnderWay(t) /\ cs[t].does = "nothing" => IsLoad(t) /\ h.cancels,
           h.appends => cs = calls /\ f = filter,
           \A g \in Flags : \A i \in b[g] : i \in busy[g] \/ (g \in h.flag /\ i = Form),
           LoadFor(h, cs, f, b)
    PROVE  CallsInv'
<1> USE DEF CallsInv
<1> DEFINE s == CHOOSE t \in Free : TRUE
           c == NewCall(h, Form, f)
<1>1. s \in Slots /\ ~UnderWay(s)
  BY DEF LoadFor, Free
<1>2. cs[s].does = "nothing"
  BY <1>1 DEF UnderWay
<1>3. c \in Call /\ c.h = h /\ c.row = Form /\ c.of = f /\ c.alone /\ c.live
  BY NewCallFacts DEF Sound, Targets
<1>4. /\ StartLoad(cs, s, c, h.wipes) /\ filter' = f
      /\ open' = Unmounted(h, open) /\ busy' = LeftBusy(h, b)
      /\ UNCHANGED <<page, uses, changes, told, list, draft>>
  BY DEF LoadFor
<1> HIDE DEF s, c
<1>5. loading' = (loading \/ Spins(h)) /\ error' \in [Places -> Causes]
  BY <1>3, <1>4 DEF StartLoad, Without, TypeOK, Causes
<1>6. /\ calls' \in [Slots -> Call]
      /\ calls'[s].h = h /\ calls'[s].row = Form /\ calls'[s].of = f
      /\ calls'[s].live <=> ~(Hides(h) /\ h.inner)
      /\ calls'[s].does = "load" /\ calls'[s].at = "sent" /\ calls'[s].seen = 0
      /\ calls'[s].alone <=> \A t \in Slots \ {s} : cs[t].does # "load"
      /\ \A t \in Slots \ {s} :
           /\ calls'[t].h = cs[t].h /\ calls'[t].row = cs[t].row /\ calls'[t].of = cs[t].of
           /\ calls'[t].live <=> cs[t].live /\ ~(Hides(h) /\ cs[t].h.inner)
           /\ calls'[t].does = cs[t].does /\ calls'[t].at = cs[t].at
           /\ calls'[t].seen = cs[t].seen
           /\ calls'[t].alone <=> cs[t].alone /\ cs[t].does # "load"
  BY <1>1, <1>3, <1>4, StartLoadFacts
<1>7. TypeOK'
  <2>1. open' \in [Dialogs -> SUBSET Targets]
    BY <1>4 DEF Unmounted, TypeOK
  <2>2. busy' \in [Flags -> SUBSET Targets]
    BY <1>4 DEF LeftBusy, InnerReset
  <2>3. loading' \in BOOLEAN
    BY <1>5 DEF TypeOK
  <2> QED
    BY <1>4, <1>5, <1>6, <2>1, <2>2, <2>3 DEF TypeOK
<1>8. BusyHasCall'
  <2>1. ASSUME NEW g \in Flags, NEW i \in busy'[g]
        PROVE  \E t \in Slots : /\ UnderWay(t)' /\ calls'[t].live
                                /\ g \in calls'[t].h.flag /\ calls'[t].row = i
    <3>1. i \in b[g] /\ (Hides(h) => g \notin InnerFlags)
      BY <1>4, <2>1 DEF LeftBusy, InnerReset
    <3>2. CASE g \in h.flag /\ i = Form
      <4>1. Hides(h) => ~h.inner
        BY <3>1, <3>2 DEF Sound
      <4> QED
        BY <1>1, <1>6, <3>2, <4>1 DEF UnderWay
    <3>3. CASE i \in busy[g]
      <4>1. PICK t \in Slots : UnderWay(t) /\ calls[t].live /\ g \in calls[t].h.flag /\ calls[t].row = i
        BY <3>3 DEF BusyHasCall
      <4>2. cs[t].does # "nothing"
        <5> SUFFICES ASSUME cs[t].does = "nothing" PROVE FALSE
          OBVIOUS
        <5>1. IsLoad(t) /\ page = "node"
          BY <4>1 DEF Sound
        <5>2. calls[t].h.flag = {}
          BY <4>1, <5>1 DEF SoundCalls, Fits
        <5> QED
          BY <4>1, <5>2
      <4>3. Hides(h) => ~calls[t].h.inner
        BY <3>1, <4>1 DEF SoundCalls, Sound
      <4>4. t # s
        BY <1>1, <4>1
      <4> QED
        BY <1>6, <4>1, <4>2, <4>3, <4>4 DEF UnderWay
    <3> QED
      BY <3>1, <3>2, <3>3
  <2>2. ASSUME loading' PROVE \E t \in Slots : calls'[t].does = "load" /\ Stops(calls'[t].h)
    <3>1. CASE Stops(h)
      BY <1>1, <1>6, <3>1
    <3>2. CASE ~Stops(h)
      <4>1. loading /\ ~Spins(h)
        BY <1>5, <2>2, <3>2 DEF Sound
      <4>2. PICK t \in Slots : IsLoad(t) /\ Stops(calls[t].h)
        BY <4>1 DEF BusyHasCall
      <4>3. page # "node"
        BY <3>2 DEF Fits
      <4>4. cs[t].does # "nothing"
        BY <4>2, <4>3 DEF Sound, IsLoad, UnderWay
      <4>5. t # s
        BY <1>1, <4>2 DEF IsLoad, UnderWay
      <4> QED
        BY <1>6, <4>2, <4>4, <4>5 DEF IsLoad
    <3> QED
      BY <3>1, <3>2
  <2> QED
    BY <2>1, <2>2 DEF BusyHasCall, IsLoad, Stops
<1>9. SoundCalls'
  <2> SUFFICES ASSUME NEW t \in Slots, UnderWay(t)'
               PROVE  /\ Sound(calls[t].h)' /\ Fits(calls[t].h)'
                      /\ calls'[t].does = "work" => ~calls'[t].h.appends
                      /\ IsLoad(t)' => calls'[t].h.reload # {}
    BY DEF SoundCalls
  <2>1. CASE t = s
    BY <1>4, <1>6, <2>1 DEF Sound, Fits, Spins, Stops, IsLoad
  <2>2. CASE t # s
    <3>1. cs[t].does # "nothing"
      BY <1>6, <2>2 DEF UnderWay
    <3>2. /\ calls'[t].h = calls[t].h /\ calls'[t].does = calls[t].does /\ UnderWay(t)
      BY <1>6, <2>2, <3>1 DEF UnderWay
    <3> QED
      BY <1>4, <3>2 DEF SoundCalls, Sound, Fits, Spins, Stops, IsLoad
  <2> QED
    BY <2>1, <2>2
<1>10. Past'
  <2>1. \A t \in Slots : calls'[t].seen <= changes
    <3>1. 0 <= changes
      BY ConstantAssumption DEF TypeOK
    <3> QED
      BY <1>6, <3>1
  <2> QED
    BY <1>4, <2>1 DEF Past
<1>11. Alone'
  <2> SUFFICES ASSUME NEW t \in Slots, UnderWay(t)', calls'[t].alone
               PROVE  /\ calls'[t].of = filter'
                      /\ IsLoad(t)' => /\ calls'[t].at = "ok" => told' <= calls'[t].seen
                                       /\ \A u \in Slots \ {t} : ~IsLoad(u)'
    BY DEF Alone
  <2>1. CASE t = s
    BY <1>4, <1>6, <2>1 DEF IsLoad
  <2>2. CASE t # s
    <3>1. cs[t].alone /\ cs[t].does # "load" /\ cs[t].does # "nothing"
      BY <1>6, <2>2 DEF UnderWay
    <3>2. calls[t].alone /\ f = filter /\ UnderWay(t) /\ calls[t].of = cs[t].of
      BY <3>1 DEF UnderWay
    <3>3. calls[t].of = filter
      BY <3>2 DEF Alone
    <3> QED
      BY <1>4, <1>6, <2>2, <3>1, <3>2, <3>3 DEF IsLoad
  <2> QED
    BY <2>1, <2>2
<1>12. Current'
  <2> SUFFICES ASSUME list.sure, calls'[s].alone, h.appends
               PROVE  told <= list.seen /\ list.of = f
    BY <1>1, <1>4, <1>6 DEF Current, IsLoad
  <2>1. \A t \in Slots : calls[t].does # "load"
    BY <1>1, <1>6 DEF UnderWay
  <2> QED
    BY <2>1 DEF Current, IsLoad
<1>13. Hidden'
  BY <1>4, <1>5 DEF Hidden, Fits
<1> QED
  BY <1>7, <1>8, <1>9, <1>10, <1>11, <1>12, <1>13

LEMMA LoadKeeps ==
    ASSUME CallsInv, NEW r \in Refresh, Startable(Bare(r)), Load(r) PROVE CallsInv'
<1> DEFINE h == Bare(r)
<1>1. Sound(h) /\ Fits(h) /\ ~h.appends
  BY DEF Startable
<1>2. h.reload # {}
  BY DEF Bare, Work
<1>3. LoadFor(h, calls, filter, busy)
  BY DEF Load
<1> HIDE DEF h
<1>4. calls \in [Slots -> Call] /\ filter \in Filters /\ busy \in [Flags -> SUBSET Targets]
      /\ \A t \in Slots : calls[t].seen <= changes
  BY DEF CallsInv, TypeOK, Past
<1>5. \A t \in Slots : UnderWay(t) /\ calls[t].does = "nothing" => IsLoad(t) /\ h.cancels
  BY DEF UnderWay
<1> QED
  BY <1>1, <1>2, <1>3, <1>4, <1>5, LoadForKeeps

LEMMA LoadMoreKeeps ==
    ASSUME CallsInv, NEW h, Sound(h), Fits(h), h.reload # {}, LoadMore(h) PROVE CallsInv'
<1>1. calls \in [Slots -> Call] /\ filter \in Filters /\ busy \in [Flags -> SUBSET Targets]
      /\ \A t \in Slots : calls[t].seen <= changes
  BY DEF CallsInv, TypeOK, Past
<1>2. Raised(h, Form) \in [Flags -> SUBSET Targets]
  BY <1>1 DEF Raised, Targets
<1>3. \A g \in Flags : \A i \in Raised(h, Form)[g] : i \in busy[g] \/ (g \in h.flag /\ i = Form)
  BY DEF Raised
<1>4. \A t \in Slots : UnderWay(t) /\ calls[t].does = "nothing" => IsLoad(t) /\ h.cancels
  BY DEF UnderWay
<1>5. LoadFor(h, calls, filter, Raised(h, Form))
  BY DEF LoadMore
<1> HIDE DEF Raised
<1> QED
  BY <1>1, <1>2, <1>3, <1>4, <1>5, LoadForKeeps

LEMMA ChooseKeeps ==
    ASSUME CallsInv, NEW h, Startable(h), h.reload # {}, NEW f \in Filters, Choose(f, h)
    PROVE  CallsInv'
<1> DEFINE cs == [s \in Slots |-> IF h.cancels /\ IsLoad(s) THEN NoCall
                                  ELSE [calls[s] EXCEPT !.alone = FALSE]]
<1>1. calls \in [Slots -> Call] /\ busy \in [Flags -> SUBSET Targets]
      /\ \A t \in Slots : calls[t].seen <= changes
  BY DEF CallsInv, TypeOK, Past
<1>2. \A t \in Slots : LET d == [calls[t] EXCEPT !.alone = FALSE] IN
        d \in Call /\ d.h = calls[t].h /\ d.row = calls[t].row /\ d.of = calls[t].of
        /\ d.does = calls[t].does /\ d.at = calls[t].at /\ d.seen = calls[t].seen
        /\ d.live = calls[t].live /\ ~d.alone
  BY <1>1 DEF Call
<1>3. NoCall \in Call /\ NoCall.does = "nothing" /\ NoCall.seen <= changes
  BY NoCallFacts, ConstantAssumption DEF CallsInv, TypeOK
<1>4. cs \in [Slots -> Call]
  BY <1>2, <1>3
<1>5. \A t \in Slots : cs[t].seen <= changes
  BY <1>1, <1>2, <1>3
<1>6. \A t \in Slots : cs[t].does # "nothing" =>
         /\ cs[t].h = calls[t].h /\ cs[t].row = calls[t].row /\ cs[t].does = calls[t].does
         /\ cs[t].at = calls[t].at /\ cs[t].of = calls[t].of
         /\ cs[t].live = calls[t].live /\ ~cs[t].alone
  BY <1>2, <1>3
<1>7. \A t \in Slots : UnderWay(t) /\ cs[t].does = "nothing" => IsLoad(t) /\ h.cancels
  BY <1>2 DEF UnderWay
<1>8. LoadFor(h, cs, f, busy)
  BY DEF Choose
<1> HIDE DEF cs
<1> QED
  BY <1>1, <1>4, <1>5, <1>6, <1>7, <1>8, LoadForKeeps DEF Startable

-----------------------------------------------------------------------------
(* Answers arrive.                                                         *)

LEMMA Conjunction ==
    ASSUME NEW a \in BOOLEAN, NEW b \in BOOLEAN, NEW c, c = (a /\ b)
    PROVE  c \in BOOLEAN /\ (c <=> a /\ b)
  OBVIOUS

\* A handler ends: the dialog it belongs to is left, or is closed with it.
LEMMA EndKeeps ==
    ASSUME CallsInv, NEW s \in Slots, UnderWay(s),
           NEW cs \in [Slots -> Call], calls' = [cs EXCEPT ![s] = NoCall],
           \/ cs = calls /\ busy' = Lowered(calls[s])
           \/ cs = Orphaned(calls) /\ busy' = InnerReset(busy) /\ calls[s].h.inner,
           UNCHANGED <<page, uses, changes, told, filter>>,
           list' \in List, error' \in [Places -> Causes],
           open' \in [Dialogs -> SUBSET Targets], draft' \in SUBSET Targets,
           \/ ~IsLoad(s) /\ loading' = loading
           \/ IsLoad(s) /\ loading' = (loading /\ ~Stops(calls[s].h)),
           list'.sure /\ (\A t \in Slots \ {s} : IsLoad(t) => calls[t].alone /\ calls[t].h.appends)
               => told <= list'.seen /\ list'.of = filter,
           page \in SpinningPages /\ list'.sure /\ (\E t \in Slots \ {s} : IsLoad(t)) => loading'
    PROVE  CallsInv'
<1> USE DEF CallsInv
<1>1. calls \in [Slots -> Call] /\ busy \in [Flags -> SUBSET Targets]
  BY DEF TypeOK
<1>2. \A t \in Slots :
        /\ cs[t].h = calls[t].h /\ cs[t].row = calls[t].row /\ cs[t].of = calls[t].of
        /\ cs[t].does = calls[t].does /\ cs[t].at = calls[t].at /\ cs[t].seen = calls[t].seen
        /\ cs[t].alone = calls[t].alone
        /\ ~calls[t].h.inner => (cs[t].live <=> calls[t].live)
  <2>1. CASE cs = calls
    BY <2>1
  <2>2. CASE cs = Orphaned(calls)
    <3> DEFINE w == Orphaned(calls)
    <3>1. \A t \in Slots :
            /\ w[t].h = calls[t].h /\ w[t].row = calls[t].row /\ w[t].of = calls[t].of
            /\ w[t].does = calls[t].does /\ w[t].at = calls[t].at /\ w[t].seen = calls[t].seen
            /\ w[t].alone = calls[t].alone
            /\ w[t].live <=> calls[t].live /\ ~calls[t].h.inner
      BY <1>1, OrphanedFacts
    <3> HIDE DEF w
    <3> QED
      BY <2>2, <3>1 DEF w
  <2> QED
    BY <2>1, <2>2
<1>3. NoCall \in Call /\ NoCall.does = "nothing" /\ NoCall.seen = 0
  BY NoCallFacts
<1>4. calls' \in [Slots -> Call] /\ calls'[s] = NoCall /\ \A t \in Slots \ {s} : calls'[t] = cs[t]
  BY <1>3
<1>5. loading' \in BOOLEAN /\ (loading' => loading) /\ (loading' /\ IsLoad(s) => ~Stops(calls[s].h))
  <2>1. loading \in BOOLEAN
    BY DEF TypeOK
  <2>2. CASE ~IsLoad(s) /\ loading' = loading
    BY <2>1, <2>2
  <2>3. CASE IsLoad(s) /\ loading' = (loading /\ ~Stops(calls[s].h))
    <3> DEFINE goes == ~Stops(calls[s].h)
    <3>1. goes \in BOOLEAN /\ loading' = (loading /\ goes)
      BY <2>3 DEF Stops
    <3> HIDE DEF goes
    <3>2. loading' \in BOOLEAN /\ (loading' <=> loading /\ goes)
      BY <2>1, <3>1, Conjunction
    <3> QED
      BY <3>2 DEF goes
  <2> QED
    BY <2>2, <2>3
<1>6. TypeOK'
  <2>1. busy' \in [Flags -> SUBSET Targets]
    BY <1>1 DEF Lowered, InnerReset
  <2> QED
    BY <1>4, <1>5, <2>1 DEF TypeOK
<1>7. BusyHasCall'
  <2>1. ASSUME NEW f \in Flags, NEW i \in busy'[f]
        PROVE  \E t \in Slots : /\ UnderWay(t)' /\ calls'[t].live
                                /\ f \in calls'[t].h.flag /\ calls'[t].row = i
    <3>1. i \in busy[f]
      BY <2>1 DEF Lowered, InnerReset
    <3>2. PICK t \in Slots : UnderWay(t) /\ calls[t].live /\ f \in calls[t].h.flag /\ calls[t].row = i
      BY <3>1 DEF BusyHasCall
    <3>3. CASE cs = calls /\ busy' = Lowered(calls[s])
      <4>1. t # s
        BY <2>1, <3>2, <3>3 DEF Lowered
      <4> QED
        BY <1>4, <3>2, <3>3, <4>1 DEF UnderWay
    <3>4. CASE cs = Orphaned(calls) /\ busy' = InnerReset(busy) /\ calls[s].h.inner
      <4>1. f \notin InnerFlags
        BY <2>1, <3>4 DEF InnerReset
      <4>2. ~calls[t].h.inner
        BY <3>2, <4>1 DEF SoundCalls, Sound
      <4> QED
        BY <1>2, <1>4, <3>2, <3>4, <4>2 DEF UnderWay
    <3> QED
      BY <3>3, <3>4
  <2>2. ASSUME loading' PROVE \E t \in Slots : calls'[t].does = "load" /\ Stops(calls'[t].h)
    <3>1. PICK t \in Slots : IsLoad(t) /\ Stops(calls[t].h)
      BY <1>5, <2>2 DEF BusyHasCall
    <3>2. t # s
      BY <1>5, <2>2, <3>1
    <3> QED
      BY <1>2, <1>4, <3>1, <3>2 DEF IsLoad
  <2> QED
    BY <2>1, <2>2 DEF BusyHasCall, IsLoad, Stops
<1>8. \A t \in Slots : calls'[t].does # "nothing" =>
        /\ t # s /\ calls'[t].h = calls[t].h /\ calls'[t].of = calls[t].of
        /\ calls'[t].does = calls[t].does /\ calls'[t].at = calls[t].at
        /\ calls'[t].seen = calls[t].seen /\ calls'[t].alone = calls[t].alone
  BY <1>2, <1>3, <1>4
<1>9. SoundCalls'
  BY <1>8 DEF SoundCalls, Sound, Fits, Spins, Stops, UnderWay, IsLoad
<1>10. Past'
  <2>1. 0 <= changes /\ told <= changes /\ \A t \in Slots : calls[t].seen <= changes
    BY ConstantAssumption DEF TypeOK, Past
  <2> QED
    BY <1>2, <1>3, <1>4, <2>1 DEF Past
<1>11. Alone'
  BY <1>8 DEF Alone, UnderWay, IsLoad
<1>12. \A t \in Slots \ {s} : /\ calls'[t].does = calls[t].does /\ calls'[t].h = calls[t].h
                              /\ calls'[t].alone = calls[t].alone
  BY <1>2, <1>4
<1>13. Current' /\ Hidden'
  BY <1>3, <1>4, <1>12 DEF Current, Hidden, IsLoad
<1> QED
  BY <1>6, <1>7, <1>9, <1>10, <1>11, <1>13

LEMMA ClosedTyped ==
    ASSUME NEW c, NEW dialogs, NEW o \in [Dialogs -> SUBSET Targets]
    PROVE  Closed(c, dialogs, o) \in [Dialogs -> SUBSET Targets]
  BY DEF Closed

LEMMA WithTyped ==
    ASSUME TypeOK, NEW places
    PROVE  /\ Without(places) \in [Places -> Causes]
           /\ \A cause \in Causes : With(places, cause) \in [Places -> Causes]
  BY DEF With, Without, TypeOK, Causes

LEMMA RejectedKeeps == ASSUME CallsInv, NEW s \in Slots, Rejected(s) PROVE CallsInv'
<1>1. TypeOK /\ calls \in [Slots -> Call] /\ UnderWay(s) /\ ~IsLoad(s)
  BY DEF CallsInv, TypeOK, Rejected, UnderWay, IsLoad
<1>2. /\ calls' = [calls EXCEPT ![s] = NoCall] /\ busy' = Lowered(calls[s])
      /\ UNCHANGED <<page, uses, changes, told, list, filter, loading>>
  BY DEF Rejected, Ends
<1>3. error' \in [Places -> Causes]
  <2>1. calls[s].at \in Causes
    BY DEF Rejected, Causes
  <2> QED
    BY <1>1, <2>1, WithTyped DEF Rejected, TypeOK
<1>4. open' \in [Dialogs -> SUBSET Targets] /\ draft' \in SUBSET Targets
  BY <1>1, ClosedTyped DEF Rejected, Ends, TypeOK
<1>5. list' \in List
  BY <1>1, <1>2 DEF TypeOK
<1>6. list'.sure /\ (\A t \in Slots \ {s} : IsLoad(t) => calls[t].alone /\ calls[t].h.appends)
         => told <= list'.seen /\ list'.of = filter
  BY <1>1, <1>2 DEF CallsInv, Current
<1>7. page \in SpinningPages /\ list'.sure /\ (\E t \in Slots \ {s} : IsLoad(t)) => loading'
  BY <1>2 DEF CallsInv, Hidden
<1> QED
  BY <1>1, <1>2, <1>3, <1>4, <1>5, <1>6, <1>7, EndKeeps

LEMMA LoadEnds ==
    ASSUME CallsInv, NEW s \in Slots, IsLoad(s), Ends(s),
           UNCHANGED <<page, uses, changes, told, filter, draft>>,
           list' \in List, error' \in [Places -> Causes],
           loading' = (loading /\ ~Stops(calls[s].h)),
           list'.sure /\ (\A t \in Slots \ {s} : IsLoad(t) => calls[t].alone /\ calls[t].h.appends)
               => told <= list'.seen /\ list'.of = filter,
           page \in SpinningPages /\ list'.sure => \A t \in Slots \ {s} : ~IsLoad(t)
    PROVE  CallsInv'
<1>1. TypeOK /\ calls \in [Slots -> Call] /\ UnderWay(s)
  BY DEF CallsInv, TypeOK, UnderWay, IsLoad
<1>2. calls' = [calls EXCEPT ![s] = NoCall] /\ busy' = Lowered(calls[s])
  BY DEF Ends
<1>3. open' \in [Dialogs -> SUBSET Targets] /\ draft' \in SUBSET Targets
  BY <1>1, ClosedTyped DEF Ends, TypeOK
<1> QED
  BY <1>1, <1>2, <1>3, EndKeeps

LEMMA LoadedKeeps == ASSUME CallsInv, NEW s \in Slots, Loaded(s) PROVE CallsInv'
<1>1. TypeOK /\ calls[s] \in Call /\ list \in List /\ IsLoad(s) /\ UnderWay(s)
  BY DEF CallsInv, TypeOK, Loaded, UnderWay, IsLoad
<1>2. calls[s].seen \in 0 .. MaxChanges /\ calls[s].of \in Filters /\ calls[s].alone \in BOOLEAN
      /\ list.seen \in 0 .. MaxChanges /\ list.of \in Filters /\ list.sure \in BOOLEAN
  BY <1>1 DEF Call, List
<1>3. Ends(s) /\ UNCHANGED <<page, uses, changes, told, filter, draft>>
      /\ loading' = (loading /\ ~Stops(calls[s].h))
  BY DEF Loaded
<1>4. error' \in [Places -> Causes]
  BY <1>1, WithTyped DEF Loaded, TypeOK
<1>5. calls[s].alone => /\ calls[s].of = filter /\ told <= calls[s].seen
                        /\ \A t \in Slots \ {s} : ~IsLoad(t)
  BY <1>1 DEF CallsInv, Alone, Loaded
<1>6. CASE calls[s].h.appends
  <2> DEFINE b == list.sure /\ calls[s].alone
  <2>1. list' = [list EXCEPT !.sure = b] /\ b \in BOOLEAN
    BY <1>6 DEF Loaded
  <2> HIDE DEF b
  <2>2. list' \in List /\ list'.seen = list.seen /\ list'.of = list.of /\ list'.sure = b
    BY <1>1, <2>1 DEF List
  <2>3. list'.sure => list.sure /\ calls[s].alone
    BY <2>2 DEF b
  <2>4. list'.sure => told <= list.seen /\ list.of = filter
    BY <1>5, <1>6, <2>3 DEF CallsInv, Current
  <2>5. list'.sure => \A t \in Slots \ {s} : ~IsLoad(t)
    BY <1>5, <2>3
  <2> QED
    BY <1>1, <1>3, <1>4, <2>2, <2>4, <2>5, LoadEnds
<1>7. CASE ~calls[s].h.appends
  <2>1. list' = [seen |-> calls[s].seen, of |-> calls[s].of, sure |-> calls[s].alone]
    BY <1>7 DEF Loaded
  <2>2. list' \in List /\ list'.seen = calls[s].seen /\ list'.of = calls[s].of /\ list'.sure = calls[s].alone
    BY <1>2, <2>1 DEF List
  <2>3. list'.sure => told <= list'.seen /\ list'.of = filter /\ \A t \in Slots \ {s} : ~IsLoad(t)
    BY <1>5, <2>2
  <2> QED
    BY <1>1, <1>3, <1>4, <2>2, <2>3, LoadEnds
<1> QED
  BY <1>6, <1>7

LEMMA LoadFailsKeeps == ASSUME CallsInv, NEW s \in Slots, LoadFails(s) PROVE CallsInv'
<1>1. TypeOK /\ IsLoad(s) /\ list \in List
  BY DEF CallsInv, TypeOK, LoadFails
<1>2. Ends(s) /\ UNCHANGED <<page, uses, changes, told, filter, draft>>
      /\ loading' = (loading /\ ~Stops(calls[s].h)) /\ list' = [list EXCEPT !.sure = FALSE]
  BY DEF LoadFails
<1>3. list' \in List /\ ~list'.sure
  BY <1>1, <1>2 DEF List
<1>4. error' \in [Places -> Causes]
  BY <1>1, WithTyped DEF LoadFails, Causes
<1> QED
  BY <1>1, <1>2, <1>3, <1>4, LoadEnds

-----------------------------------------------------------------------------
(* The work of a handler was done.                                         *)

\* A handler that does not wait for the list.
LEMMA FlaglessCall ==
    ASSUME NEW c \in Call
    PROVE  LET d == [c EXCEPT !.h.flag = {}] IN
           /\ d \in Call /\ d.row = c.row /\ d.does = c.does /\ d.at = c.at /\ d.seen = c.seen
           /\ d.of = c.of /\ d.alone = c.alone /\ d.live = c.live
           /\ d.h = [c.h EXCEPT !.flag = {}]
<1>1. [c.h EXCEPT !.flag = {}] \in Handler
  BY DEF Call, Handler
<1> DEFINE h == [c.h EXCEPT !.flag = {}]
<1>2. [c EXCEPT !.h.flag = {}] = [c EXCEPT !.h = h]
  BY DEF Call
<1> HIDE DEF h
<1> QED
  BY <1>1, <1>2 DEF Call, h

LEMMA FlaglessHandler ==
    ASSUME NEW h \in Handler
    PROVE  LET g == [h EXCEPT !.flag = {}] IN
           /\ g \in Handler /\ g.flag = {} /\ g.inner = h.inner /\ g.closes = h.closes
           /\ g.reload = h.reload /\ g.appends = h.appends /\ g.changes = h.changes
           /\ g.cancels = h.cancels /\ g.ends = h.ends /\ g.fills = h.fills /\ g.fetches = h.fetches
  BY DEF Handler

\* The list is loaded for d, which is the call, or what goes on of it when the
\* handler does not wait; cs are the calls, or what is left of them when the
\* handler's modal is closed.
LEMMA WorkLoads ==
    ASSUME CallsInv, NEW s \in Slots, calls[s].does = "work", calls[s].h.reload # {},
           NEW cs \in [Slots -> Call], NEW d \in Call, NEW places, NEW b \in [Flags -> SUBSET Targets],
           \A t \in Slots :
               /\ cs[t].h = calls[t].h /\ cs[t].row = calls[t].row /\ cs[t].of = calls[t].of
               /\ cs[t].does = calls[t].does /\ cs[t].at = calls[t].at
               /\ cs[t].seen = calls[t].seen /\ cs[t].alone = calls[t].alone,
           d.row = calls[s].row /\ d.of = calls[s].of /\ d.alone = calls[s].alone /\ d.live = cs[s].live,
           d.h = calls[s].h \/ d.h = [calls[s].h EXCEPT !.flag = {}],
           \A g \in Flags : \A i \in b[g] :
               /\ i \in busy[g]
               /\ d.h # calls[s].h /\ calls[s].live => g \notin calls[s].h.flag \/ calls[s].row # i
               /\ \A t \in Slots : UnderWay(t) /\ calls[t].live /\ g \in calls[t].h.flag => cs[t].live,
           StartLoad(cs, s, d, places),
           busy' = LeftBusy(calls[s].h, b),
           told' \in 0 .. MaxChanges /\ told' <= changes,
           open' \in [Dialogs -> SUBSET Targets], draft' \in SUBSET Targets,
           UNCHANGED <<page, uses, changes, list, filter>>
    PROVE  CallsInv'
<1> USE DEF CallsInv
<1> DEFINE h == calls[s].h
           g == d.h
<1>1. calls \in [Slots -> Call] /\ calls[s] \in Call /\ busy \in [Flags -> SUBSET Targets]
      /\ UnderWay(s) /\ ~IsLoad(s)
  BY DEF TypeOK, UnderWay, IsLoad
<1>2. Sound(h) /\ Fits(h) /\ ~h.appends /\ h \in Handler
  BY <1>1 DEF SoundCalls, Sound
<1>3. /\ g \in Handler /\ g.inner = h.inner /\ g.closes = h.closes /\ g.reload = h.reload
      /\ g.appends = h.appends /\ g.changes = h.changes /\ g.cancels = h.cancels
      /\ g.ends = h.ends /\ g.fills = h.fills /\ g.fetches = h.fetches
      /\ g.flag = h.flag \/ (g.flag = {} /\ d.h # calls[s].h)
  <2>1. CASE d.h = calls[s].h
    BY <1>2, <2>1
  <2>2. CASE d.h = [h EXCEPT !.flag = {}] /\ d.h # calls[s].h
    BY <1>2, <2>2, FlaglessHandler
  <2> QED
    BY <2>1, <2>2
<1>4. (Spins(g) <=> Spins(h)) /\ (Stops(g) <=> Stops(h)) /\ (Hides(g) <=> Hides(h))
  BY <1>3 DEF Spins, Stops, Hides
<1>5. Sound(g) /\ Fits(g) /\ ~g.appends
  <2>1. Sound(g)
    BY <1>2, <1>3, <1>4 DEF Sound
  <2>2. Fits(g)
    BY <1>2, <1>3, <1>4 DEF Fits
  <2> QED
    BY <1>2, <1>3, <2>1, <2>2
<1>6. /\ calls' \in [Slots -> Call]
      /\ calls'[s].h = g /\ calls'[s].row = calls[s].row /\ calls'[s].of = calls[s].of
      /\ calls'[s].live <=> cs[s].live /\ ~(Hides(h) /\ h.inner)
      /\ calls'[s].does = "load" /\ calls'[s].at = "sent" /\ calls'[s].seen = 0
      /\ calls'[s].alone <=> calls[s].alone /\ \A t \in Slots \ {s} : calls[t].does # "load"
      /\ \A t \in Slots \ {s} :
           /\ calls'[t].h = calls[t].h /\ calls'[t].row = calls[t].row /\ calls'[t].of = calls[t].of
           /\ calls'[t].live <=> cs[t].live /\ ~(Hides(h) /\ calls[t].h.inner)
           /\ calls'[t].does = calls[t].does /\ calls'[t].at = calls[t].at
           /\ calls'[t].seen = calls[t].seen
           /\ calls'[t].alone <=> calls[t].alone /\ calls[t].does # "load"
  <2>1. /\ calls' \in [Slots -> Call]
        /\ calls'[s].h = d.h /\ calls'[s].row = d.row /\ calls'[s].of = d.of
        /\ calls'[s].live <=> d.live /\ ~(Hides(d.h) /\ d.h.inner)
        /\ calls'[s].does = "load" /\ calls'[s].at = "sent" /\ calls'[s].seen = 0
        /\ calls'[s].alone <=> d.alone /\ \A t \in Slots \ {s} : cs[t].does # "load"
        /\ \A t \in Slots \ {s} :
             /\ calls'[t].h = cs[t].h /\ calls'[t].row = cs[t].row /\ calls'[t].of = cs[t].of
             /\ calls'[t].live <=> cs[t].live /\ ~(Hides(d.h) /\ cs[t].h.inner)
             /\ calls'[t].does = cs[t].does /\ calls'[t].at = cs[t].at
             /\ calls'[t].seen = cs[t].seen
             /\ calls'[t].alone <=> cs[t].alone /\ cs[t].does # "load"
    <3> HIDE DEF CallsInv
    <3> QED
      BY StartLoadFacts
  <2> QED
    BY <1>3, <1>4, <2>1
<1>7. loading' = (loading \/ Spins(g)) /\ error' \in [Places -> Causes]
  BY WithTyped DEF StartLoad
<1> HIDE DEF h, g
<1>8. TypeOK'
  <2>1. busy' \in [Flags -> SUBSET Targets]
    BY DEF LeftBusy, InnerReset
  <2>2. loading' \in BOOLEAN
    BY <1>7 DEF TypeOK
  <2> QED
    BY <1>6, <1>7, <2>1, <2>2 DEF TypeOK
<1>9. BusyHasCall'
  <2>1. ASSUME NEW f \in Flags, NEW i \in busy'[f]
        PROVE  \E t \in Slots : /\ UnderWay(t)' /\ calls'[t].live
                                /\ f \in calls'[t].h.flag /\ calls'[t].row = i
    <3>1. i \in b[f] /\ (Hides(h) => f \notin InnerFlags)
      BY <2>1 DEF LeftBusy, InnerReset, h
    <3>2. PICK t \in Slots : UnderWay(t) /\ calls[t].live /\ f \in calls[t].h.flag /\ calls[t].row = i
      BY <3>1 DEF BusyHasCall
    <3>3. cs[t].live
      BY <3>1, <3>2
    <3>4. Hides(h) => ~calls[t].h.inner
      BY <3>1, <3>2 DEF SoundCalls, Sound
    <3>5. CASE t = s
      <4>1. g = h
        BY <3>1, <3>2, <3>5 DEF g, h
      <4> QED
        BY <1>6, <3>2, <3>3, <3>4, <3>5, <4>1 DEF UnderWay, h
    <3>6. CASE t # s
      BY <1>6, <3>2, <3>3, <3>4, <3>6 DEF UnderWay
    <3> QED
      BY <3>5, <3>6
  <2>2. ASSUME loading' PROVE \E t \in Slots : calls'[t].does = "load" /\ Stops(calls'[t].h)
    <3>1. CASE Spins(g)
      BY <1>5, <1>6, <3>1 DEF Sound
    <3>2. CASE ~Spins(g)
      <4>1. PICK t \in Slots : IsLoad(t) /\ Stops(calls[t].h)
        BY <1>7, <2>2, <3>2 DEF BusyHasCall
      <4>2. t # s
        BY <1>1, <4>1
      <4> QED
        BY <1>6, <4>1, <4>2 DEF IsLoad
    <3> QED
      BY <3>1, <3>2
  <2> QED
    BY <2>1, <2>2 DEF BusyHasCall, IsLoad, Stops
<1>10. SoundCalls'
  <2> SUFFICES ASSUME NEW t \in Slots, UnderWay(t)'
               PROVE  /\ Sound(calls[t].h)' /\ Fits(calls[t].h)'
                      /\ calls'[t].does = "work" => ~calls'[t].h.appends
                      /\ IsLoad(t)' => calls'[t].h.reload # {}
    BY DEF SoundCalls
  <2>1. CASE t = s
    BY <1>3, <1>5, <1>6, <2>1 DEF Sound, Fits, Spins, Stops, IsLoad, h
  <2>2. CASE t # s
    BY <1>6, <2>2 DEF SoundCalls, Sound, Fits, Spins, Stops, UnderWay, IsLoad
  <2> QED
    BY <2>1, <2>2
<1>11. Past'
  <2>1. 0 <= changes
    BY ConstantAssumption DEF TypeOK
  <2> QED
    BY <1>6, <2>1 DEF Past
<1>12. Alone'
  <2> SUFFICES ASSUME NEW t \in Slots, UnderWay(t)', calls'[t].alone
               PROVE  /\ calls'[t].of = filter'
                      /\ IsLoad(t)' => /\ calls'[t].at = "ok" => told' <= calls'[t].seen
                                       /\ \A u \in Slots \ {t} : ~IsLoad(u)'
    BY DEF Alone
  <2>1. CASE t = s
    BY <1>1, <1>6, <2>1 DEF IsLoad, Alone
  <2>2. CASE t # s
    BY <1>6, <2>2 DEF IsLoad, Alone, UnderWay
  <2> QED
    BY <2>1, <2>2
<1>13. Current'
  BY <1>5, <1>6 DEF Current, IsLoad
<1>14. Hidden'
  BY <1>3, <1>5, <1>7 DEF Hidden, Fits, h
<1> QED
  BY <1>8, <1>9, <1>10, <1>11, <1>12, <1>13, <1>14

LEMMA WorkedKeeps == ASSUME CallsInv, NEW s \in Slots, Worked(s) PROVE CallsInv'
<1> DEFINE c == calls[s]
           h == calls[s].h
           o == Closed(c, h.closes, open)
           filled == [d \in Dialogs |-> IF d \in h.fills THEN {c.row} ELSE o[d]]
           b == IF ClosesModal(c) THEN InnerReset(busy) ELSE busy
           cs == IF ClosesModal(c) THEN Orphaned(calls) ELSE calls
           lost == IF ClosesModal(c) THEN {"form"} ELSE {}
<1>1. /\ TypeOK /\ calls \in [Slots -> Call] /\ c \in Call /\ c.row \in Targets
      /\ busy \in [Flags -> SUBSET Targets] /\ UnderWay(s) /\ c.does = "work" /\ ~IsLoad(s)
      /\ Sound(h) /\ Fits(h) /\ ~h.appends
  <2>1. TypeOK /\ calls \in [Slots -> Call] /\ c.does = "work" /\ busy \in [Flags -> SUBSET Targets]
    BY DEF CallsInv, TypeOK, Worked
  <2>2. c \in Call /\ c.row \in Targets
    BY <2>1 DEF Call
  <2>3. UnderWay(s) /\ ~IsLoad(s)
    BY <2>1 DEF UnderWay, IsLoad
  <2>4. Sound(h) /\ Fits(h) /\ ~h.appends
    BY <2>1, <2>3 DEF CallsInv, SoundCalls
  <2> QED
    BY <2>1, <2>2, <2>3, <2>4
<1>2. filled \in [Dialogs -> SUBSET Targets]
  <2>1. o \in [Dialogs -> SUBSET Targets]
    BY <1>1, ClosedTyped DEF TypeOK
  <2> HIDE DEF o
  <2> QED
    BY <1>1, <2>1
<1>3. draft' \in SUBSET Targets
  BY <1>1 DEF Worked, TypeOK
<1>4. told' \in 0 .. MaxChanges /\ told' <= changes /\ (~h.changes => told' = told)
  <2>1. c.seen \in 0 .. MaxChanges /\ c.seen <= changes /\ told \in 0 .. MaxChanges /\ told <= changes
    BY <1>1 DEF CallsInv, Past, TypeOK, Call
  <2>2. told' = IF h.changes /\ c.seen > told THEN c.seen ELSE told
    BY DEF Worked
  <2> QED
    BY <2>1, <2>2
<1>5. UNCHANGED <<page, uses, changes, list, filter>>
  BY DEF Worked
<1>6. ClosesModal(c) => h.inner
  BY <1>1 DEF ClosesModal, Sound
<1>7. cs \in [Slots -> Call]
      /\ \A t \in Slots :
               /\ cs[t].h = calls[t].h /\ cs[t].row = calls[t].row /\ cs[t].of = calls[t].of
               /\ cs[t].does = calls[t].does /\ cs[t].at = calls[t].at
               /\ cs[t].seen = calls[t].seen /\ cs[t].alone = calls[t].alone
               /\ calls[t].h.inner \/ (cs[t].live <=> calls[t].live)
  <2>1. CASE ClosesModal(c)
    <3> DEFINE w == Orphaned(calls)
    <3>1. /\ w \in [Slots -> Call]
          /\ \A t \in Slots :
                /\ w[t].h = calls[t].h /\ w[t].row = calls[t].row /\ w[t].of = calls[t].of
                /\ w[t].does = calls[t].does /\ w[t].at = calls[t].at /\ w[t].seen = calls[t].seen
                /\ w[t].alone = calls[t].alone
                /\ w[t].live <=> calls[t].live /\ ~calls[t].h.inner
      BY <1>1, OrphanedFacts
    <3>2. cs = w
      BY <2>1
    <3> HIDE DEF w, cs
    <3> QED
      BY <3>1, <3>2
  <2>2. CASE ~ClosesModal(c)
    BY <1>1, <2>2
  <2> QED
    BY <2>1, <2>2
<1>8. CASE h.reload # {}
  <2> DEFINE d == IF h.awaits THEN cs[s] ELSE [cs[s] EXCEPT !.h.flag = {}]
             e == IF h.awaits \/ ClosesModal(c) THEN b ELSE Lowered(c)
  <2>1. /\ StartLoad(cs, s, d, lost) /\ busy' = LeftBusy(h, e) /\ open' = Unmounted(h, filled)
    BY <1>8 DEF Worked
  <2>2. /\ d \in Call /\ d.row = calls[s].row /\ d.of = calls[s].of /\ d.alone = calls[s].alone
        /\ d.live = cs[s].live
        /\ d.h = calls[s].h \/ (~h.awaits /\ d.h = [calls[s].h EXCEPT !.flag = {}])
        /\ h.awaits => d.h = calls[s].h
    <3> HIDE DEF cs
    <3>1. cs[s] \in Call
      BY <1>7
    <3>2. CASE h.awaits
      BY <1>7, <3>1, <3>2
    <3>3. CASE ~h.awaits
      <4> DEFINE m == cs[s]  n == [m EXCEPT !.h.flag = {}]
      <4>1. /\ n \in Call /\ n.row = m.row /\ n.of = m.of /\ n.alone = m.alone /\ n.live = m.live
            /\ n.h = [m.h EXCEPT !.flag = {}]
        BY <3>1, FlaglessCall
      <4>2. d = n
        BY <3>3
      <4>3. m.h = calls[s].h /\ m.row = calls[s].row /\ m.of = calls[s].of /\ m.alone = calls[s].alone
        BY <1>7
      <4> HIDE DEF n, d
      <4> QED
        BY <3>3, <4>1, <4>2, <4>3
    <3> QED
      BY <3>2, <3>3
  <2>3. e \in [Flags -> SUBSET Targets]
    BY <1>1 DEF InnerReset, Lowered
  <2>4. open' \in [Dialogs -> SUBSET Targets]
    <3> HIDE DEF filled
    <3> QED
      BY <1>2, <2>1 DEF Unmounted
  <2>5. \A g \in Flags : \A i \in e[g] :
               /\ i \in busy[g]
               /\ d.h # calls[s].h /\ calls[s].live => g \notin calls[s].h.flag \/ calls[s].row # i
               /\ \A t \in Slots : UnderWay(t) /\ calls[t].live /\ g \in calls[t].h.flag => cs[t].live
    <3> SUFFICES ASSUME NEW g \in Flags, NEW i \in e[g]
                 PROVE  /\ i \in busy[g]
                        /\ d.h # calls[s].h /\ calls[s].live => g \notin calls[s].h.flag \/ calls[s].row # i
                        /\ \A t \in Slots :
                              UnderWay(t) /\ calls[t].live /\ g \in calls[t].h.flag => cs[t].live
      OBVIOUS
    <3>0. d.h # calls[s].h => ~h.awaits
      BY <2>2
    <3> HIDE DEF d
    <3>1. CASE ClosesModal(c)
      <4>1. i \in busy[g] /\ g \notin InnerFlags
        BY <3>1 DEF InnerReset
      <4>2. g \notin calls[s].h.flag
        BY <1>1, <1>6, <3>1, <4>1 DEF Sound
      <4>3. ASSUME NEW t \in Slots, UnderWay(t), calls[t].live, g \in calls[t].h.flag PROVE cs[t].live
        <5> HIDE DEF cs
        <5>1. ~calls[t].h.inner
          BY <4>1, <4>3 DEF CallsInv, SoundCalls, Sound
        <5> QED
          BY <1>7, <4>3, <5>1
      <4> QED
        BY <4>1, <4>2, <4>3
    <3>2. CASE ~ClosesModal(c) /\ h.awaits
      BY <3>0, <3>2
    <3>3. CASE ~ClosesModal(c) /\ ~h.awaits
      BY <3>3 DEF Lowered
    <3> QED
      BY <3>1, <3>2, <3>3
  <2> HIDE DEF d, e, cs
  <2> QED
    BY <1>1, <1>3, <1>4, <1>5, <1>7, <1>8, <2>1, <2>2, <2>3, <2>4, <2>5, WorkLoads
<1>9. CASE h.reload = {}
  <2>1. /\ calls' = [cs EXCEPT ![s] = NoCall]
        /\ busy' = IF ClosesModal(c) THEN b ELSE Lowered(c)
        /\ open' = Closed(c, h.ends, filled)
        /\ error' = Without(lost) /\ loading' = loading
    BY <1>9 DEF Worked
  <2>2. told' = told
    BY <1>1, <1>4, <1>9 DEF Sound
  <2>3. open' \in [Dialogs -> SUBSET Targets]
    <3> HIDE DEF filled
    <3> QED
      BY <1>2, <2>1, ClosedTyped
  <2>4. error' \in [Places -> Causes]
    BY <1>1, <2>1, WithTyped
  <2>5. list' \in List
    BY <1>1, <1>5 DEF TypeOK
  <2>6. \/ cs = calls /\ busy' = Lowered(calls[s])
        \/ cs = Orphaned(calls) /\ busy' = InnerReset(busy) /\ calls[s].h.inner
    BY <1>6, <2>1
  <2>7. list'.sure /\ (\A t \in Slots \ {s} : IsLoad(t) => calls[t].alone /\ calls[t].h.appends)
           => told <= list'.seen /\ list'.of = filter
    BY <1>1, <1>5 DEF CallsInv, Current
  <2>8. page \in SpinningPages /\ list'.sure /\ (\E t \in Slots \ {s} : IsLoad(t)) => loading'
    BY <1>5, <2>1 DEF CallsInv, Hidden
  <2> HIDE DEF cs
  <2> QED
    BY <1>1, <1>3, <1>5, <1>7, <2>1, <2>2, <2>3, <2>4, <2>5, <2>6, <2>7, <2>8, EndKeeps
<1> QED
  BY <1>8, <1>9

-----------------------------------------------------------------------------
(* What has been fetched.                                                  *)

\* Every draft is shown, every call of the page is of a page that is there, and
\* who asks for something has just been told to or goes on to be shown.
LEMMA FetchedKept ==
    ASSUME Fetched, page' = page,
           page # "cronjobs" => draft' \subseteq Shown',
           \A s \in Slots : UnderWay(s)' /\ ~calls'[s].h.inner =>
               \/ calls'[s].live
               \/ UnderWay(s) /\ ~calls[s].h.inner /\ (calls[s].live => calls'[s].live),
           \A s \in Slots : Asks(s)' =>
               \/ page # "cronjobs" => calls'[s].row \in Shown'
               \/ Asks(s) /\ calls'[s].row = calls[s].row /\ Shown \subseteq Shown'
    PROVE  Fetched'
<1>1. \A s \in Slots : UnderWay(s)' /\ ~calls'[s].h.inner => calls'[s].live
  BY DEF Fetched
<1>2. ASSUME page # "cronjobs", NEW s \in Slots, Asks(s)' PROVE calls'[s].row \in Shown'
  BY <1>2 DEF Fetched
<1> QED
  BY <1>1, <1>2 DEF Fetched

LEMMA ShownGrows ==
    ASSUME page' = page, \A d \in Modals \union {"detail"} : open[d] \subseteq open'[d]
    PROVE  Shown \subseteq Shown'
<1>1. CASE page \in EditorPages
  BY <1>1 DEF Shown
<1>2. CASE page \notin EditorPages
  BY <1>2 DEF Shown
<1> QED
  BY <1>1, <1>2

\* Where no draft comes, and no dialog that shows it goes, the calls go on as
\* they were, or end.
LEMMA FetchedGoesOn ==
    ASSUME Fetched, page' = page, draft' \subseteq draft,
           \A d \in Modals \union {"detail"} : open[d] \subseteq open'[d],
           \A s \in Slots : UnderWay(s)' =>
               /\ UnderWay(s) /\ calls'[s].row = calls[s].row
               /\ calls'[s].h.inner = calls[s].h.inner /\ calls'[s].h.fetches = calls[s].h.fetches
               /\ calls'[s].does = "work" => calls[s].does = "work"
               /\ calls'[s].live => calls[s].live
               /\ calls[s].live /\ ~calls[s].h.inner => calls'[s].live
    PROVE  Fetched'
<1>1. Shown \subseteq Shown'
  BY ShownGrows
<1>2. page # "cronjobs" => draft' \subseteq Shown'
  BY <1>1 DEF Fetched
<1>3. \A s \in Slots : Asks(s)' => UnderWay(s)'
  BY DEF Asks, UnderWay
<1>4. \A s \in Slots : Asks(s)' => Asks(s) /\ calls'[s].row = calls[s].row
  BY <1>3 DEF Asks
<1> QED
  BY <1>1, <1>2, <1>4, FetchedKept

\* The components inside the page are gone, and the drafts that they showed.
LEMMA FetchedUnmounted ==
    ASSUME Fetched, page' = page, draft' = {},
           \A s \in Slots : UnderWay(s)' =>
               /\ UnderWay(s) /\ calls'[s].h.inner = calls[s].h.inner
               /\ calls'[s].live <=> calls[s].live /\ ~calls[s].h.inner
    PROVE  Fetched'
<1>1. \A s \in Slots : Asks(s)' => UnderWay(s)'
  BY DEF Asks, UnderWay
<1>2. \A s \in Slots : ~Asks(s)'
  BY <1>1 DEF Asks
<1> QED
  BY <1>2, FetchedKept

-----------------------------------------------------------------------------
(* The steps of a page.                                                    *)

\* What is shown of every step: it keeps the invariant and the page, and acts on
\* a list that is sure by the filter of that list.
Step == ScreenInv' /\ ActsOnSureList /\ page' = page

LEMMA StepParts == ASSUME CallsInv', Fetched', ActsOnSureList, page' = page PROVE Step
  BY DEF Step, ScreenInv

LEMMA NoNewWork ==
    ASSUME \A s \in Slots : calls'[s].does = "work" => calls[s].does = "work"
    PROVE  ActsOnSureList
  BY DEF ActsOnSureList, UnderWay

\* A dialog that shows what is fetched is a modal that opens, or what is fetched
\* goes with it.
LEMMA DialogStep ==
    ASSUME ScreenInv, NEW d \in Dialogs, NEW i \in Targets,
           Show(d, i) \/ Hide(d) \/ Dismiss(d) \/ Discard(d) \/ Unfold(d, i) \/ Fold(d, i),
           d \in Modals => NoModal /\ Show(d, i),
           d = "detail" /\ page \in EditorPages => Discard(d)
    PROVE  Step
<1>1. CallsInv /\ Fetched /\ TypeOK
  BY DEF ScreenInv, CallsInv
<1>2. /\ UNCHANGED <<page, uses, changes, told, list, filter, loading, busy, calls>>
      /\ open' \in [Dialogs -> SUBSET Targets]
  BY <1>1 DEF TypeOK, Show, Hide, Dismiss, Discard, Unfold, Fold
<1>3. error' \in [Places -> Causes] /\ draft' \in SUBSET Targets
  BY <1>1, WithTyped DEF TypeOK, Show, Hide, Dismiss, Discard, Unfold, Fold
<1>4. CallsInv'
  BY <1>1, <1>2, <1>3, DialogKeeps
<1>5. ActsOnSureList
  BY <1>2, NoNewWork
<1>6. \A e \in Dialogs \ {d} : open'[e] = open[e]
  BY <1>1 DEF TypeOK, Show, Hide, Dismiss, Discard, Unfold, Fold
<1>7. draft' = draft \/ (draft' = {} /\ Discard(d))
  BY DEF Show, Hide, Dismiss, Discard, Unfold, Fold
<1>8. Modals \subseteq Dialogs /\ "detail" \in Dialogs /\ "detail" \notin Modals
  BY DEF Dialogs, Modals
<1>9. CASE Discard(d) /\ d = "detail" /\ page \in EditorPages
  <2>1. draft' = {}
    BY <1>9 DEF Discard
  <2>2. \A s \in Slots : UnderWay(s) => ~calls[s].h.inner
    BY <1>1, <1>9 DEF CallsInv, SoundCalls, Sound
  <2>3. \A s \in Slots : UnderWay(s)' => UnderWay(s) /\ calls'[s] = calls[s]
    BY <1>2 DEF UnderWay
  <2>4. Fetched'
    BY <1>1, <1>2, <2>1, <2>2, <2>3, FetchedUnmounted
  <2> QED
    BY <1>2, <1>4, <1>5, <2>4, StepParts
<1>10. CASE ~(d = "detail" /\ page \in EditorPages)
  <2>1. Shown \subseteq Shown'
    <3>1. CASE d \in Modals
      <4>1. open[d] = {}
        BY <3>1 DEF NoModal
      <4> QED
        BY <1>2, <1>6, <1>8, <4>1, ShownGrows
    <3>2. CASE d \notin Modals
      BY <1>2, <1>6, <1>8, <1>10, <3>2 DEF Shown
    <3> QED
      BY <3>1, <3>2
  <2>2. page # "cronjobs" => draft' \subseteq Shown'
    BY <1>1, <1>7, <2>1 DEF Fetched
  <2>3. \A s \in Slots : (UnderWay(s)' <=> UnderWay(s)) /\ (Asks(s)' <=> Asks(s))
    BY <1>2 DEF UnderWay, Asks
  <2>4. Fetched'
    BY <1>1, <1>2, <2>1, <2>2, <2>3, FetchedKept
  <2> QED
    BY <1>2, <1>4, <1>5, <2>4, StepParts
<1> QED
  BY <1>9, <1>10

LEMMA UnmountStep ==
    ASSUME ScreenInv, NEW d \in Dialogs,
           \/ HideModal(d)
           \/ Cover(d) /\ d \notin InnerDialogs \union Modals /\ page \notin EditorPages
    PROVE  Step
<1>1. CallsInv /\ Fetched /\ TypeOK /\ calls \in [Slots -> Call]
  BY DEF ScreenInv, CallsInv, TypeOK
<1>2. /\ calls' = Orphaned(calls) /\ busy' = InnerReset(busy)
      /\ UNCHANGED <<page, uses, changes, told, list, filter, loading>>
      /\ draft' \in SUBSET Targets
  BY <1>1 DEF HideModal, Cover, TypeOK
<1>3. open' \in [Dialogs -> SUBSET Targets]
  BY <1>1 DEF HideModal, Cover, TypeOK, Targets
<1>4. error' \in [Places -> Causes]
  BY <1>1, WithTyped DEF HideModal, Cover, TypeOK
<1>5. CallsInv'
  BY <1>1, <1>2, <1>3, <1>4, UnmountKeeps
<1>6. \A t \in Slots :
         /\ calls'[t].h = calls[t].h /\ calls'[t].row = calls[t].row
         /\ calls'[t].does = calls[t].does
         /\ calls'[t].live <=> calls[t].live /\ ~calls[t].h.inner
  BY <1>1, <1>2, OrphanedFacts
<1>7. ActsOnSureList
  BY <1>6, NoNewWork
<1>8. \A t \in Slots : (UnderWay(t)' <=> UnderWay(t)) /\ ~Asks(t)'
  BY <1>6 DEF UnderWay, Asks
<1>9. CASE HideModal(d)
  <2>1. draft' = {}
    BY <1>9 DEF HideModal
  <2>2. Fetched'
    BY <1>1, <1>2, <1>6, <1>8, <2>1, FetchedUnmounted
  <2> QED
    BY <1>2, <1>5, <1>7, <2>2, StepParts
<1>10. CASE Cover(d) /\ d \notin InnerDialogs \union Modals /\ page \notin EditorPages
  <2>1. \A e \in Modals : open'[e] = open[e]
    BY <1>10 DEF Cover, Dialogs, Modals, InnerDialogs
  <2>2. Shown' = Shown /\ draft' = draft
    BY <1>2, <1>10, <2>1 DEF Shown, Cover
  <2>3. Fetched'
    BY <1>1, <1>2, <1>6, <1>8, <2>2, FetchedKept DEF Fetched
  <2> QED
    BY <1>2, <1>5, <1>7, <2>3, StepParts
<1> QED
  BY <1>9, <1>10

\* What names a row by the filter is started on a page that spins while it loads,
\* and when it does not; and what fetches for a modal, in a modal.
LEMMA BeginStep ==
    ASSUME ScreenInv, NEW h, Startable(h), NEW i \in Targets,
           NEW o \in [Dialogs -> SUBSET Targets], NEW d \in SUBSET Targets, Begin(h, i, o, d),
           h.scoped => page \in SpinningPages /\ ~loading,
           page # "cronjobs" =>
               /\ d \subseteq draft
               /\ \A e \in Modals \union {"detail"} : open[e] \subseteq o[e]
               /\ h.inner /\ h.fetches => \E e \in Modals : i \in o[e]
    PROVE  Step
<1> DEFINE s == CHOOSE t \in Free : TRUE
           c == NewCall(h, i, filter)
<1>1. CallsInv /\ Fetched /\ TypeOK
  BY DEF ScreenInv, CallsInv
<1>2. CallsInv'
  BY <1>1, BeginKeeps
<1>3. s \in Slots /\ calls' = [calls EXCEPT ![s] = c] /\ calls \in [Slots -> Call]
      /\ open' = o /\ draft' = d /\ page' = page
  BY <1>1 DEF Begin, Free, TypeOK
<1>4. c.h = h /\ c.row = i /\ c.live
  BY <1>1, NewCallFacts DEF TypeOK, Startable, Sound
<1> HIDE DEF s, c
<1>5. ActsOnSureList
  <2>1. CASE h.scoped
    <3>1. list.sure => \A t \in Slots : ~IsLoad(t)
      BY <1>1, <2>1 DEF CallsInv, Hidden
    <3>2. list.sure => list.of = filter
      BY <1>1, <3>1 DEF CallsInv, Current
    <3> QED
      BY <3>2 DEF ActsOnSureList
  <2>2. CASE ~h.scoped
    BY <1>3, <1>4, <2>2 DEF ActsOnSureList, UnderWay
  <2> QED
    BY <2>1, <2>2
<1>6. calls'[s] = c /\ \A t \in Slots \ {s} : calls'[t] = calls[t]
  BY <1>3
<1>7. ASSUME page # "cronjobs" PROVE Shown \subseteq Shown'
  BY <1>3, <1>7, ShownGrows
<1>8. page # "cronjobs" => draft' \subseteq Shown'
  BY <1>1, <1>3, <1>7 DEF Fetched
<1>9. ASSUME NEW t \in Slots, UnderWay(t)', ~calls'[t].h.inner PROVE calls'[t].live
  <2>1. CASE t = s
    BY <1>4, <1>6, <2>1
  <2>2. CASE t # s
    BY <1>1, <1>6, <1>9, <2>2 DEF Fetched, UnderWay
  <2> QED
    BY <2>1, <2>2
<1>10. ASSUME NEW t \in Slots, Asks(t)', page # "cronjobs" PROVE calls'[t].row \in Shown'
  <2>1. CASE t = s
    <3>1. h.inner /\ h.fetches /\ calls'[t].row = i
      BY <1>4, <1>6, <1>10, <2>1 DEF Asks
    <3>2. page \notin EditorPages
      BY <3>1 DEF Startable, Sound
    <3> QED
      BY <1>3, <1>10, <3>1, <3>2 DEF Shown
  <2>2. CASE t # s
    <3>1. Asks(t) /\ calls'[t].row = calls[t].row
      BY <1>6, <1>10, <2>2 DEF Asks
    <3> QED
      BY <1>1, <1>7, <1>10, <3>1 DEF Fetched
  <2> QED
    BY <2>1, <2>2
<1>11. Fetched'
  BY <1>1, <1>3, <1>8, <1>9, <1>10, FetchedKept
<1> QED
  BY <1>2, <1>3, <1>5, <1>11, StepParts

\* A handler that brings no draft into a component.
Clickable(h) == Startable(h) /\ ~(h.inner /\ h.fetches)

LEMMA ClickStep ==
    ASSUME ScreenInv, NEW h, Clickable(h), NEW i \in Targets, Click(h, i),
           h.scoped => page \in SpinningPages /\ ~loading
    PROVE  Step
<1>1. open \in [Dialogs -> SUBSET Targets] /\ draft \in SUBSET Targets
  BY DEF ScreenInv, CallsInv, TypeOK
<1>2. Begin(h, i, open, draft) /\ Startable(h) /\ ~(h.inner /\ h.fetches)
  BY DEF Click, Clickable
<1> QED
  BY <1>1, <1>2, BeginStep

\* ... and one that does, started in a modal, or as it is opened.
LEMMA FetchStep ==
    ASSUME ScreenInv, NEW h, Startable(h), NEW i \in Targets, ~h.scoped,
           \/ Click(h, i) /\ \E d \in Modals : i \in open[d]
           \/ page = "cronjobs" /\ ShowAndFetch("detail", h, i)
           \/ \E d \in Modals : ShowModalAndFetch(d, h, i)
    PROVE  Step
<1>1. open \in [Dialogs -> SUBSET Targets] /\ draft \in SUBSET Targets /\ {} \in SUBSET Targets
      /\ \A d \in Dialogs : [open EXCEPT ![d] = {i}] \in [Dialogs -> SUBSET Targets]
  BY DEF ScreenInv, CallsInv, TypeOK
<1>2. CASE Click(h, i) /\ \E d \in Modals : i \in open[d]
  BY <1>1, <1>2, BeginStep DEF Click
<1>3. CASE page = "cronjobs" /\ ShowAndFetch("detail", h, i)
  BY <1>1, <1>3, BeginStep DEF ShowAndFetch, Dialogs
<1>4. ASSUME NEW d \in Modals, ShowModalAndFetch(d, h, i) PROVE Step
  <2> DEFINE o == [open EXCEPT ![d] = {i}]
  <2>1. d \in Dialogs /\ open[d] = {} /\ Begin(h, i, o, {})
    BY <1>4 DEF ShowModalAndFetch, NoModal, Dialogs
  <2>2. o[d] = {i} /\ \A e \in Dialogs \ {d} : o[e] = open[e]
    BY <1>1, <2>1
  <2>3. Modals \union {"detail"} \subseteq Dialogs
    BY DEF Dialogs
  <2>4. o \in [Dialogs -> SUBSET Targets]
    BY <1>1, <2>1
  <2> HIDE DEF o
  <2>5. \A e \in Modals \union {"detail"} : open[e] \subseteq o[e]
    BY <2>1, <2>2, <2>3
  <2>6. \E e \in Modals : i \in o[e]
    BY <1>4, <2>2
  <2> QED
    BY <1>1, <2>1, <2>4, <2>5, <2>6, BeginStep
<1> QED
  BY <1>2, <1>3, <1>4

\* A load starts: nothing that shows a draft goes, and nothing asks for one.
LEMMA LoadForShows ==
    ASSUME Fetched, NEW h \in Handler, NEW f \in Filters, NEW cs \in [Slots -> Call], NEW b,
           \A t \in Slots : cs[t].does # "nothing" =>
               /\ cs[t].h = calls[t].h /\ cs[t].row = calls[t].row /\ cs[t].does = calls[t].does
               /\ cs[t].live = calls[t].live,
           LoadFor(h, cs, f, b)
    PROVE  ActsOnSureList /\ Fetched' /\ page' = page
<1> DEFINE s == CHOOSE t \in Free : TRUE
           c == NewCall(h, Form, f)
<1>1. s \in Slots /\ StartLoad(cs, s, c, h.wipes) /\ page' = page /\ draft' = draft
      /\ open' = Unmounted(h, open)
  BY DEF LoadFor, Free
<1>2. c \in Call /\ c.h = h /\ c.live
  BY NewCallFacts DEF Targets
<1> HIDE DEF s, c
<1>3. /\ calls'[s].h = h /\ (h.inner \/ calls'[s].live) /\ calls'[s].does = "load"
      /\ \A t \in Slots \ {s} :
           /\ calls'[t].h = cs[t].h /\ calls'[t].row = cs[t].row /\ calls'[t].does = cs[t].does
           /\ calls'[t].live => cs[t].live
           /\ cs[t].live /\ ~cs[t].h.inner => calls'[t].live
  BY <1>1, <1>2, StartLoadFacts
<1>4. \A t \in Slots \ {s} : calls'[t].does # "nothing" =>
           /\ calls'[t].h = calls[t].h /\ calls'[t].row = calls[t].row
           /\ calls'[t].does = calls[t].does /\ (calls'[t].live => calls[t].live)
           /\ calls[t].live /\ ~calls[t].h.inner => calls'[t].live
  BY <1>3
<1>5. ActsOnSureList
  BY <1>3, <1>4, NoNewWork
<1>6. Shown' = Shown
  <2>1. \A d \in Modals \union {"detail"} : open'[d] = open[d]
    BY <1>1 DEF Unmounted, Dialogs, Modals, InnerDialogs
  <2> QED
    BY <1>1, <2>1 DEF Shown
<1>7. page # "cronjobs" => draft' \subseteq Shown'
  BY <1>1, <1>6 DEF Fetched
<1>8. ASSUME NEW t \in Slots, UnderWay(t)', ~calls'[t].h.inner PROVE calls'[t].live
  BY <1>3, <1>4, <1>8 DEF UnderWay, Fetched
<1>9. ASSUME NEW t \in Slots, Asks(t)' PROVE Asks(t) /\ calls'[t].row = calls[t].row
  BY <1>3, <1>4, <1>9 DEF Asks
<1>10. Fetched'
  BY <1>1, <1>6, <1>7, <1>8, <1>9, FetchedKept
<1> QED
  BY <1>1, <1>5, <1>10

LEMMA LoadStep ==
    ASSUME ScreenInv, NEW r \in Refresh, Startable(Bare(r)), Load(r) PROVE Step
<1>1. CallsInv /\ Fetched /\ calls \in [Slots -> Call] /\ filter \in Filters
  BY DEF ScreenInv, CallsInv, TypeOK
<1>2. CallsInv'
  BY <1>1, LoadKeeps
<1>3. ActsOnSureList /\ Fetched' /\ page' = page
  BY <1>1, LoadForShows DEF Load, Startable, Sound
<1> QED
  BY <1>2, <1>3, StepParts

LEMMA LoadMoreStep ==
    ASSUME ScreenInv, NEW h, Sound(h), Fits(h), h.reload # {}, LoadMore(h) PROVE Step
<1>1. CallsInv /\ Fetched /\ calls \in [Slots -> Call] /\ filter \in Filters
  BY DEF ScreenInv, CallsInv, TypeOK
<1>2. CallsInv'
  BY <1>1, LoadMoreKeeps
<1>3. ActsOnSureList /\ Fetched' /\ page' = page
  BY <1>1, LoadForShows DEF LoadMore, Sound
<1> QED
  BY <1>2, <1>3, StepParts

LEMMA ChooseStep ==
    ASSUME ScreenInv, NEW h, Startable(h), h.reload # {}, NEW f \in Filters, Choose(f, h)
    PROVE  Step
<1>1. CallsInv /\ Fetched /\ calls \in [Slots -> Call]
  BY DEF ScreenInv, CallsInv, TypeOK
<1>2. CallsInv'
  BY <1>1, ChooseKeeps
<1> DEFINE cs == [s \in Slots |-> IF h.cancels /\ IsLoad(s) THEN NoCall
                                  ELSE [calls[s] EXCEPT !.alone = FALSE]]
<1>3. \A t \in Slots : LET d == [calls[t] EXCEPT !.alone = FALSE] IN
        /\ d \in Call /\ d.h = calls[t].h /\ d.row = calls[t].row /\ d.does = calls[t].does
        /\ d.live = calls[t].live
  BY <1>1 DEF Call
<1>4. NoCall \in Call /\ NoCall.does = "nothing"
  BY NoCallFacts
<1>5. cs \in [Slots -> Call]
  BY <1>3, <1>4
<1>6. \A t \in Slots : cs[t].does # "nothing" =>
         /\ cs[t].h = calls[t].h /\ cs[t].row = calls[t].row /\ cs[t].does = calls[t].does
         /\ cs[t].live = calls[t].live
  BY <1>3, <1>4
<1>7. LoadFor(h, cs, f, busy)
  BY DEF Choose
<1> HIDE DEF cs
<1>8. ActsOnSureList /\ Fetched' /\ page' = page
  BY <1>1, <1>5, <1>6, <1>7, LoadForShows DEF Startable, Sound
<1> QED
  BY <1>2, <1>8, StepParts

\* A handler ends, with no more than its own dialogs.
LEMMA EndShows ==
    ASSUME ScreenInv, NEW s \in Slots, UnderWay(s), Ends(s), page' = page, draft' \subseteq draft
    PROVE  ActsOnSureList /\ Fetched'
<1>1. Fetched /\ calls \in [Slots -> Call] /\ Sound(calls[s].h)
  BY DEF ScreenInv, CallsInv, TypeOK, SoundCalls
<1>2. NoCall \in Call /\ NoCall.does = "nothing"
  BY NoCallFacts
<1>3. calls' = [calls EXCEPT ![s] = NoCall] /\ open' = Closed(calls[s], calls[s].h.ends, open)
  BY DEF Ends
<1>4. calls'[s].does = "nothing" /\ \A t \in Slots \ {s} : calls'[t] = calls[t]
  BY <1>1, <1>2, <1>3
<1>5. \A d \in Modals \union {"detail"} : open'[d] = open[d]
  BY <1>1, <1>3 DEF Closed, Sound, Dialogs
<1>6. \A t \in Slots : UnderWay(t)' => UnderWay(t) /\ calls'[t] = calls[t]
  BY <1>4 DEF UnderWay
<1>7. ActsOnSureList
  BY <1>4, NoNewWork
<1>8. Fetched'
  BY <1>1, <1>5, <1>6, FetchedGoesOn
<1> QED
  BY <1>7, <1>8

\* The work was done: the calls are those there were, without their modal if that
\* is closed, and the one that has ended or loads the list now.
LEMMA WorkedCalls ==
    ASSUME CallsInv, NEW s \in Slots, Worked(s)
    PROVE  /\ calls'[s].does # "work"
           /\ \A t \in Slots : UnderWay(t)' =>
                /\ UnderWay(t) /\ calls'[t].row = calls[t].row
                /\ calls'[t].h.inner = calls[t].h.inner /\ calls'[t].h.fetches = calls[t].h.fetches
                /\ calls'[t].does = "work" => calls[t].does = "work"
                /\ calls'[t].live => calls[t].live
                /\ calls[t].live /\ ~calls[t].h.inner => calls'[t].live
                /\ ClosesModal(calls[s]) => (calls'[t].live <=> calls[t].live /\ ~calls[t].h.inner)
<1>1. TypeOK /\ calls \in [Slots -> Call] /\ calls[s].does = "work" /\ UnderWay(s)
  BY DEF CallsInv, TypeOK, Worked, UnderWay
<1>2. NoCall \in Call /\ NoCall.does = "nothing"
  BY NoCallFacts
<1> DEFINE cs == IF ClosesModal(calls[s]) THEN Orphaned(calls) ELSE calls
           d  == IF calls[s].h.awaits THEN cs[s] ELSE [cs[s] EXCEPT !.h.flag = {}]
           lost == IF ClosesModal(calls[s]) THEN {"form"} ELSE {}
<1>3. calls' = [cs EXCEPT ![s] = NoCall] \/ StartLoad(cs, s, d, lost)
  BY DEF Worked
<1>4. cs \in [Slots -> Call]
      /\ \A t \in Slots :
            /\ cs[t].h = calls[t].h /\ cs[t].row = calls[t].row /\ cs[t].does = calls[t].does
            /\ cs[t].live => calls[t].live
            /\ calls[t].live /\ ~calls[t].h.inner => cs[t].live
            /\ ClosesModal(calls[s]) => (cs[t].live <=> calls[t].live /\ ~calls[t].h.inner)
  <2>1. /\ Orphaned(calls) \in [Slots -> Call]
        /\ \A t \in Slots :
             LET w == Orphaned(calls) IN
             /\ w[t].h = calls[t].h /\ w[t].row = calls[t].row /\ w[t].does = calls[t].does
             /\ w[t].live <=> calls[t].live /\ ~calls[t].h.inner
    BY <1>1, OrphanedFacts
  <2>2. CASE ClosesModal(calls[s])
    BY <2>1, <2>2
  <2>3. CASE ~ClosesModal(calls[s])
    BY <1>1, <2>3
  <2> QED
    BY <2>2, <2>3
<1> HIDE DEF cs, lost
<1>5. /\ d \in Call /\ d.row = cs[s].row /\ d.live = cs[s].live
      /\ d.h.inner = cs[s].h.inner /\ d.h.fetches = cs[s].h.fetches
  <2>1. cs[s] \in Call /\ cs[s].h \in Handler
    BY <1>4 DEF Call
  <2> DEFINE m == cs[s]  n == [m EXCEPT !.h.flag = {}]
  <2>2. n \in Call /\ n.row = m.row /\ n.live = m.live /\ n.h = [m.h EXCEPT !.flag = {}]
    BY <2>1, FlaglessCall
  <2>3. n.h.inner = m.h.inner /\ n.h.fetches = m.h.fetches
    BY <2>1, <2>2, FlaglessHandler
  <2>4. d = m \/ d = n
    OBVIOUS
  <2> HIDE DEF d, n
  <2> QED
    BY <2>1, <2>2, <2>3, <2>4
<1> HIDE DEF d
<1>6. CASE calls' = [cs EXCEPT ![s] = NoCall]
  <2>1. calls'[s] = NoCall /\ \A t \in Slots \ {s} : calls'[t] = cs[t]
    BY <1>4, <1>6
  <2> QED
    BY <1>2, <1>4, <2>1 DEF UnderWay
<1>7. CASE StartLoad(cs, s, d, lost)
  <2>1. /\ calls'[s].h = d.h /\ calls'[s].row = d.row /\ calls'[s].does = "load"
        /\ calls'[s].live <=> d.live /\ ~(Hides(d.h) /\ d.h.inner)
        /\ \A t \in Slots \ {s} :
             /\ calls'[t].h = cs[t].h /\ calls'[t].row = cs[t].row /\ calls'[t].does = cs[t].does
             /\ calls'[t].live <=> cs[t].live /\ ~(Hides(d.h) /\ cs[t].h.inner)
    BY <1>4, <1>5, <1>7, StartLoadFacts
  <2>2. /\ calls'[s].row = calls[s].row
        /\ calls'[s].h.inner = calls[s].h.inner /\ calls'[s].h.fetches = calls[s].h.fetches
        /\ calls'[s].live => calls[s].live
        /\ calls[s].live /\ ~calls[s].h.inner => calls'[s].live
        /\ ClosesModal(calls[s]) => (calls'[s].live <=> calls[s].live /\ ~calls[s].h.inner)
    BY <1>4, <1>5, <2>1
  <2>3. \A t \in Slots \ {s} :
             /\ calls'[t].h = calls[t].h /\ calls'[t].row = calls[t].row
             /\ calls'[t].does = calls[t].does
             /\ calls'[t].live => calls[t].live
             /\ calls[t].live /\ ~calls[t].h.inner => calls'[t].live
             /\ ClosesModal(calls[s]) => (calls'[t].live <=> calls[t].live /\ ~calls[t].h.inner)
    BY <1>4, <2>1
  <2> QED
    BY <1>1, <2>1, <2>2, <2>3 DEF UnderWay
<1> QED
  BY <1>3, <1>6, <1>7

LEMMA WorkedShows ==
    ASSUME ScreenInv, NEW s \in Slots, Worked(s)
    PROVE  ActsOnSureList /\ Fetched' /\ page' = page
<1> DEFINE c == calls[s]
           h == calls[s].h
           o == Closed(c, h.closes, open)
           filled == [d \in Dialogs |-> IF d \in h.fills THEN {c.row} ELSE o[d]]
<1>1. CallsInv /\ Fetched /\ page' = page /\ c.does = "work" /\ UnderWay(s) /\ Sound(h)
  BY DEF ScreenInv, CallsInv, SoundCalls, Worked, UnderWay
<1>2. /\ calls'[s].does # "work"
      /\ \A t \in Slots : UnderWay(t)' =>
           /\ UnderWay(t) /\ calls'[t].row = calls[t].row
           /\ calls'[t].h.inner = calls[t].h.inner /\ calls'[t].h.fetches = calls[t].h.fetches
           /\ calls'[t].does = "work" => calls[t].does = "work"
           /\ calls'[t].live => calls[t].live
           /\ calls[t].live /\ ~calls[t].h.inner => calls'[t].live
           /\ ClosesModal(c) => (calls'[t].live <=> calls[t].live /\ ~calls[t].h.inner)
  BY <1>1, WorkedCalls
<1>3. ActsOnSureList
  BY <1>2, NoNewWork DEF UnderWay
<1>4. draft' = IF h.fetches /\ c.live THEN {c.row}
               ELSE IF ClosesModal(c) \/ "detail" \in h.closes THEN {} ELSE draft
  BY DEF Worked
<1>5. CASE ClosesModal(c)
  <2>1. draft' = {}
    BY <1>1, <1>4, <1>5 DEF ClosesModal, Sound
  <2>2. Fetched'
    BY <1>1, <1>2, <1>5, <2>1, FetchedUnmounted
  <2> QED
    BY <1>1, <1>3, <2>2
<1>6. CASE ~ClosesModal(c)
  <2>1. \A d \in Modals : open'[d] = IF d \in h.fills THEN {c.row} ELSE open[d]
    <3>1. \A d \in Modals : d \in Dialogs \ InnerDialogs /\ d \notin h.ends
      BY <1>1 DEF Dialogs, Modals, InnerDialogs, Sound
    <3>2. \A d \in Modals : o[d] = open[d]
      BY <1>6, <3>1 DEF Closed, ClosesModal
    <3> HIDE DEF o
    <3>3. \A d \in Modals : filled[d] = IF d \in h.fills THEN {c.row} ELSE open[d]
      BY <3>1, <3>2
    <3>4. open' = Unmounted(h, filled) \/ open' = Closed(c, h.ends, filled)
      BY DEF Worked, o
    <3> HIDE DEF filled
    <3> QED
      BY <3>1, <3>3, <3>4 DEF Unmounted, Closed
  <2>2. open'["detail"] = IF "detail" \in h.fills THEN {c.row}
                          ELSE IF "detail" \in h.closes THEN {} ELSE open["detail"]
    <3>1. "detail" \in Dialogs \ InnerDialogs /\ "detail" \notin h.ends
      BY <1>1 DEF Dialogs, InnerDialogs, Sound
    <3>2. o["detail"] = IF "detail" \in h.closes THEN {} ELSE open["detail"]
      BY <3>1 DEF Closed
    <3> HIDE DEF o
    <3>3. filled["detail"] = IF "detail" \in h.fills THEN {c.row}
                             ELSE IF "detail" \in h.closes THEN {} ELSE open["detail"]
      BY <3>1, <3>2
    <3>4. open' = Unmounted(h, filled) \/ open' = Closed(c, h.ends, filled)
      BY DEF Worked, o
    <3> HIDE DEF filled
    <3> QED
      BY <3>1, <3>3, <3>4 DEF Unmounted, Closed
  <2> HIDE DEF o, filled
  <2>3. \A t \in Slots : Asks(t)' => Asks(t) /\ calls'[t].row = calls[t].row
    BY <1>2 DEF Asks, UnderWay
  <2>4. \A t \in Slots : UnderWay(t)' /\ ~calls'[t].h.inner => calls'[t].live
    BY <1>1, <1>2 DEF Fetched
  <2>5. CASE page \in EditorPages
    <3>1. ~h.inner /\ c.live /\ h.fills = IF h.fetches THEN {"detail"} ELSE {}
      BY <1>1, <2>5 DEF Sound, Fetched
    <3>2. draft' \subseteq Shown'
      <4>1. Shown' = open'["detail"] /\ draft \subseteq open["detail"]
        BY <1>1, <2>5 DEF Shown, Fetched, EditorPages
      <4> QED
        BY <1>4, <1>6, <2>2, <3>1, <4>1
    <3>3. \A t \in Slots : ~Asks(t)
      BY <1>1, <2>5 DEF Asks, UnderWay, CallsInv, SoundCalls, Sound
    <3>4. Fetched'
      BY <1>1, <2>3, <2>4, <3>2, <3>3, FetchedKept
    <3> QED
      BY <1>1, <1>3, <3>4
  <2>6. CASE page \notin EditorPages
    <3>1. h.fills = {} /\ (page # "cronjobs" /\ h.fetches => h.inner)
      BY <1>1, <2>6 DEF Sound
    <3>2. Shown' = Shown
      BY <1>1, <2>1, <2>6, <3>1 DEF Shown
    <3>3. page # "cronjobs" => draft' \subseteq Shown'
      <4>1. page # "cronjobs" /\ h.fetches /\ c.live => Asks(s)
        BY <1>1, <3>1 DEF Asks
      <4> QED
        BY <1>1, <1>4, <3>2, <4>1 DEF Fetched
    <3>4. Fetched'
      BY <1>1, <2>3, <2>4, <3>2, <3>3, FetchedKept
    <3> QED
      BY <1>1, <1>3, <3>4
  <2> QED
    BY <2>5, <2>6
<1> QED
  BY <1>5, <1>6

\* An answer sets one call, or ends it, or goes on from its work to loading.
LEMMA ArriveStep == ASSUME ScreenInv, NEW s \in Slots, Arrive(s) PROVE Step
<1>1. CallsInv
  BY DEF ScreenInv
<1>2. CallsInv'
  BY <1>1, WorkedKeeps, RejectedKeeps, LoadedKeeps, LoadFailsKeeps DEF Arrive
<1>3. CASE Worked(s)
  BY <1>2, <1>3, WorkedShows, StepParts
<1>4. CASE Rejected(s) \/ Loaded(s) \/ LoadFails(s)
  <2>1. Ends(s) /\ page' = page /\ draft' \subseteq draft
    BY <1>4 DEF Rejected, Loaded, LoadFails
  <2>2. UnderWay(s)
    BY <1>4 DEF Rejected, Loaded, LoadFails, IsLoad, UnderWay
  <2> QED
    BY <1>2, <2>1, <2>2, EndShows, StepParts
<1> QED
  BY <1>3, <1>4 DEF Arrive

LEMMA SystemStep == ASSUME ScreenInv, System PROVE Step
<1>1. CallsInv /\ Fetched /\ calls \in [Slots -> Call]
  BY DEF ScreenInv, CallsInv, TypeOK
<1>2. CASE OthersChange
  <2>1. UNCHANGED <<page, open, draft, calls>> /\ CallsInv'
    BY <1>1, <1>2, OthersChangeKeeps DEF OthersChange, screen
  <2>2. Fetched'
    BY <1>1, <2>1 DEF Fetched, Shown, Asks, UnderWay
  <2> QED
    BY <2>1, <2>2, NoNewWork, StepParts
<1>3. ASSUME NEW s \in Slots, Serve(s) \/ Fail(s) PROVE Step
  <2>1. CallsInv'
    BY <1>1, <1>3, ServeKeeps, FailKeeps
  <2>2. (\E ans, seen : Answer(s, ans, seen)) /\ UNCHANGED <<page, open, draft>>
    BY <1>3 DEF Serve, Fail, screen
  <2>3. \A t \in Slots : /\ calls'[t].does = calls[t].does /\ calls'[t].h = calls[t].h
                         /\ calls'[t].row = calls[t].row /\ calls'[t].live = calls[t].live
    BY <1>1, <2>2 DEF Answer, Call
  <2>4. \A t \in Slots : (UnderWay(t)' <=> UnderWay(t)) /\ (Asks(t)' <=> Asks(t))
    BY <2>3 DEF UnderWay, Asks
  <2>5. Shown' = Shown
    BY <2>2 DEF Shown
  <2>6. page # "cronjobs" => draft' \subseteq Shown'
    BY <1>1, <2>2, <2>5 DEF Fetched
  <2>7. Fetched'
    BY <1>1, <2>2, <2>3, <2>4, <2>5, <2>6, FetchedKept
  <2> QED
    BY <2>1, <2>2, <2>3, <2>7, NoNewWork, StepParts
<1> QED
  BY <1>2, <1>3, ArriveStep DEF System

-----------------------------------------------------------------------------
(* The pages.  Ways of loading.                                            *)

\* All that load the list from its start end the spinner.
Ending(r) == r \in Refresh /\ r.stops

LEMMA Refreshes ==
    /\ \A r \in {ConfigMapsRefresh, SecretsRefresh} : Ending(r) /\ r.spins
    /\ \A r \in {NamespacesLoad, StorageRefresh, CronJobsRefresh} : Ending(r)
    /\ \A r \in {UsersRefresh, NotificationsRefresh, AlertRulesRefresh} : Ending(r)
    /\ \A r \in {WorkloadsRefresh, EventsLoad, EventsReload} : Ending(r)
    /\ \A r \in {CapacityLoad, AlertsRefresh, DashboardRefresh, Plain} : Ending(r)
<1>1. Plain \in Refresh /\ Plain.stops
  BY DEF Plain, Refresh
<1>2. \A r \in {ConfigMapsRefresh, SecretsRefresh} : Ending(r) /\ r.spins
  BY <1>1 DEF ConfigMapsRefresh, SecretsRefresh, Refresh, Ending
<1>3. \A r \in {NamespacesLoad, StorageRefresh, CronJobsRefresh} : Ending(r)
  BY <1>1 DEF NamespacesLoad, StorageRefresh, CronJobsRefresh, Refresh, Ending
<1>4. \A r \in {UsersRefresh, NotificationsRefresh, AlertRulesRefresh} : Ending(r)
  BY <1>1 DEF UsersRefresh, NotificationsRefresh, AlertRulesRefresh, Refresh, Ending
<1>5. \A r \in {WorkloadsRefresh, EventsLoad, EventsReload} : Ending(r)
  BY <1>1 DEF WorkloadsRefresh, EventsLoad, EventsReload, Refresh, Ending
<1>6. \A r \in {CapacityLoad, AlertsRefresh, DashboardRefresh, Plain} : Ending(r)
  BY <1>1 DEF CapacityLoad, AlertsRefresh, DashboardRefresh, Refresh, Ending
<1> QED
  BY <1>2, <1>3, <1>4, <1>5, <1>6

-----------------------------------------------------------------------------
(* Handlers.                                                               *)

\* A handler of the page, which loads the list by r if it does.
OfPage(h, r) ==
    /\ h \in Handler /\ h.reload \in {{}, {r}}
    /\ h.changes => h.reload # {}
    /\ ~h.inner /\ h.flag \subseteq PageFlags /\ h.closes \intersect Modals = {}
    /\ ~h.appends /\ ~h.cancels
    /\ h.ends \intersect (Modals \union {"detail"}) = {}
    /\ h.fetches => page \in EditorPages \union {"cronjobs"} /\ h.closes = {}
    /\ h.fills = IF h.fetches /\ page \in EditorPages THEN {"detail"} ELSE {}

\* ... and one of a component inside it.
OfInner(h, r) ==
    /\ h \in Handler /\ h.reload \in {{}, {r}}
    /\ h.changes => h.reload # {}
    /\ h.inner /\ h.flag \subseteq InnerFlags
    /\ ~h.appends /\ ~h.cancels
    /\ h.ends \intersect (Modals \union {"detail"}) = {}
    /\ page \notin EditorPages /\ h.fills = {} /\ (h.fetches => h.closes = {})

\* What most buttons may start.  Below, for each page, a lemma ...Handlers says that
\* its handlers are such, and a lemma ...Step that what it offers keeps the invariant.
Simple(h) == Clickable(h) /\ ~h.scoped

\* ... and what a modal may, that shows what it fetches.
Reader(h) == Startable(h) /\ ~h.scoped

LEMMA PageHandler ==
    ASSUME NEW r, Ending(r), NEW h, OfPage(h, r) \/ OfInner(h, r),
           page # "node", page \in SpinningPages => r.spins
    PROVE  Startable(h) /\ (OfPage(h, r) \/ ~h.fetches => Clickable(h))
<1>1. PageFlags \intersect InnerFlags = {}
  BY DEF PageFlags, InnerFlags
<1>2. Spins(h) => Stops(h)
  BY DEF OfPage, OfInner, EditorPages, Ending, Spins, Stops
<1>3. Fits(h)
  BY DEF OfPage, OfInner, Fits, Spins
<1>4. CASE OfPage(h, r)
  BY <1>1, <1>2, <1>3, <1>4 DEF OfPage, Startable, Sound, Clickable
<1>5. CASE OfInner(h, r)
  BY <1>1, <1>2, <1>3, <1>5 DEF OfInner, OfPage, Startable, Sound, Clickable
<1> QED
  BY <1>4, <1>5

LEMMA BareFacts ==
    ASSUME NEW r \in Refresh
    PROVE  OfPage(Bare(r), r) /\ Bare(r).reload = {r} /\ ~Bare(r).scoped /\ ~Bare(r).cancels
  BY DEF OfPage, Bare, Work, Handler, Places, PageFlags, Flags, Modals, Dialogs

\* A page that loads its list, by a timer, a button or its filter.
LEMMA BareStep ==
    ASSUME ScreenInv, NEW r, Ending(r), page # "node", page \in SpinningPages => r.spins,
           Load(r) \/ \E f \in Filters : Choose(f, Bare(r))
    PROVE  Step
<1>1. Startable(Bare(r)) /\ Bare(r).reload # {} /\ r \in Refresh
  BY BareFacts, PageHandler DEF Ending
<1> QED
  BY <1>1, LoadStep, ChooseStep

LEMMA Names ==
    /\ Rows \subseteq Targets /\ Form \in Targets
    /\ {"form", "confirm", "detail", "paused", "editing", "asking"} \subseteq Dialogs
    /\ Modals \subseteq Dialogs /\ "detail" \notin InnerDialogs
    /\ {"form", "confirm", "detail", "paused", "editing", "asking"} \intersect Modals = {}
  BY DEF Targets, Dialogs, InnerDialogs, Modals

-----------------------------------------------------------------------------
(* The pages of ResourcePages.                                             *)

LEMMA ConfigMapsHandlers ==
    ASSUME page = "configmaps"
    PROVE  /\ Simple(ConfigMapsCreate)
           /\ Simple(ConfigMapsOpenEdit)
           /\ Simple(ConfigMapsSaveEdit)
           /\ Clickable(ConfigMapsDelete)
<1>1. Ending(ConfigMapsRefresh) /\ (page \in SpinningPages => ConfigMapsRefresh.spins) /\ page # "node"
  BY Refreshes DEF SpinningPages
<1>2. OfPage(ConfigMapsCreate, ConfigMapsRefresh) /\ ~ConfigMapsCreate.scoped
  BY <1>1
     DEF ConfigMapsCreate, Work, Handler, Places, Flags, PageFlags, Dialogs, Modals, OfPage,
         Ending
<1>3. OfPage(ConfigMapsOpenEdit, ConfigMapsRefresh) /\ ~ConfigMapsOpenEdit.scoped
  BY <1>1
     DEF ConfigMapsOpenEdit, Read, Work, Handler, Places, Flags, PageFlags, Dialogs, Modals,
         OfPage, EditorPages, Ending
<1>4. OfPage(ConfigMapsSaveEdit, ConfigMapsRefresh) /\ ~ConfigMapsSaveEdit.scoped
  BY <1>1
     DEF ConfigMapsSaveEdit, Work, Handler, Places, Flags, PageFlags, Dialogs, Modals, OfPage,
         Ending
<1>5. OfPage(ConfigMapsDelete, ConfigMapsRefresh)
  BY <1>1
     DEF ConfigMapsDelete, Work, Handler, Places, Flags, PageFlags, Dialogs, Modals, OfPage,
         Ending
<1> QED
  BY <1>1, <1>2, <1>3, <1>4, <1>5, PageHandler DEF Simple

LEMMA ConfigMapsStep ==
    ASSUME ScreenInv, ConfigMapsHeader \/ \E i \in Rows : ConfigMapsRow(i) \/ ConfigMapsEditor(i)
    PROVE  Step
<1>1. CASE ConfigMapsHeader
  <2>1. page = "configmaps" /\ Ending(ConfigMapsRefresh) /\ ConfigMapsRefresh.spins
    BY <1>1, Refreshes DEF ConfigMapsHeader
  <2> QED
    BY <1>1, <2>1, ConfigMapsHandlers, Names, BareStep, ClickStep DEF ConfigMapsHeader, Simple
<1>2. ASSUME NEW i \in Rows, ConfigMapsRow(i) PROVE Step
  <2>1. page \in SpinningPages /\ ~loading
    BY <1>2 DEF ConfigMapsRow, SpinningPages
  <2> QED
    BY <1>2, <2>1, ConfigMapsHandlers, Names, DialogStep, ClickStep DEF ConfigMapsRow, Simple
<1>3. ASSUME NEW i \in Rows, ConfigMapsEditor(i) PROVE Step
  BY <1>3, ConfigMapsHandlers, Names, DialogStep, ClickStep DEF ConfigMapsEditor, Simple
<1> QED
  BY <1>1, <1>2, <1>3

LEMMA SecretsHandlers ==
    ASSUME page = "secrets"
    PROVE  /\ Simple(SecretsCreate)
           /\ Simple(SecretsOpenEdit)
           /\ Simple(SecretsSaveEdit)
           /\ Clickable(SecretsDelete)
<1>1. Ending(SecretsRefresh) /\ (page \in SpinningPages => SecretsRefresh.spins) /\ page # "node"
  BY Refreshes DEF SpinningPages
<1>2. OfPage(SecretsCreate, SecretsRefresh) /\ ~SecretsCreate.scoped
  BY <1>1
     DEF SecretsCreate, Work, Handler, Places, Flags, PageFlags, Dialogs, Modals, OfPage,
         Ending
<1>3. OfPage(SecretsOpenEdit, SecretsRefresh) /\ ~SecretsOpenEdit.scoped
  BY <1>1
     DEF SecretsOpenEdit, Read, Work, Handler, Places, Flags, PageFlags, Dialogs, Modals,
         OfPage, EditorPages, Ending
<1>4. OfPage(SecretsSaveEdit, SecretsRefresh) /\ ~SecretsSaveEdit.scoped
  BY <1>1
     DEF SecretsSaveEdit, Work, Handler, Places, Flags, PageFlags, Dialogs, Modals, OfPage,
         Ending
<1>5. OfPage(SecretsDelete, SecretsRefresh)
  BY <1>1
     DEF SecretsDelete, Work, Handler, Places, Flags, PageFlags, Dialogs, Modals, OfPage,
         Ending
<1> QED
  BY <1>1, <1>2, <1>3, <1>4, <1>5, PageHandler DEF Simple

LEMMA SecretsStep ==
    ASSUME ScreenInv, SecretsHeader \/ \E i \in Rows : SecretsRow(i) \/ SecretsEditor(i)
    PROVE  Step
<1>1. CASE SecretsHeader
  <2>1. page = "secrets" /\ Ending(SecretsRefresh) /\ SecretsRefresh.spins
    BY <1>1, Refreshes DEF SecretsHeader
  <2> QED
    BY <1>1, <2>1, SecretsHandlers, Names, BareStep, ClickStep DEF SecretsHeader, Simple
<1>2. ASSUME NEW i \in Rows, SecretsRow(i) PROVE Step
  <2>1. page \in SpinningPages /\ ~loading
    BY <1>2 DEF SecretsRow, SpinningPages
  <2> QED
    BY <1>2, <2>1, SecretsHandlers, Names, DialogStep, ClickStep DEF SecretsRow, Simple
<1>3. ASSUME NEW i \in Rows, SecretsEditor(i) PROVE Step
  BY <1>3, SecretsHandlers, Names, DialogStep, ClickStep DEF SecretsEditor, Simple
<1> QED
  BY <1>1, <1>2, <1>3

LEMMA NamespacesHandlers ==
    ASSUME page = "namespaces"
    PROVE  /\ Simple(NamespacesCreate)
           /\ Simple(NamespacesDelete)
<1>1. Ending(NamespacesLoad) /\ (page \in SpinningPages => NamespacesLoad.spins) /\ page # "node"
  BY Refreshes DEF SpinningPages
<1>2. OfPage(NamespacesCreate, NamespacesLoad) /\ ~NamespacesCreate.scoped
  BY <1>1
     DEF NamespacesCreate, Work, Handler, Places, Flags, PageFlags, Dialogs, Modals, OfPage,
         Ending
<1>3. OfPage(NamespacesDelete, NamespacesLoad) /\ ~NamespacesDelete.scoped
  BY <1>1
     DEF NamespacesDelete, Work, Handler, Places, Flags, PageFlags, Dialogs, Modals, OfPage,
         Ending
<1> QED
  BY <1>1, <1>2, <1>3, PageHandler DEF Simple

LEMMA NamespacesStep ==
    ASSUME ScreenInv, NamespacesCreateForm \/ \E i \in Rows : NamespacesRow(i)
    PROVE  Step
<1>1. CASE NamespacesCreateForm
  BY <1>1, NamespacesHandlers, Names, DialogStep, ClickStep DEF NamespacesCreateForm, Simple
<1>2. ASSUME NEW i \in Rows, NamespacesRow(i) PROVE Step
  BY <1>2, NamespacesHandlers, Names, DialogStep, ClickStep DEF NamespacesRow, Simple
<1> QED
  BY <1>1, <1>2

LEMMA StorageHandlers ==
    ASSUME page = "storage"
    PROVE  /\ Simple(StorageCreate)
           /\ Simple(StorageDelete)
<1>1. Ending(StorageRefresh) /\ (page \in SpinningPages => StorageRefresh.spins) /\ page # "node"
  BY Refreshes DEF SpinningPages
<1>2. OfPage(StorageCreate, StorageRefresh) /\ ~StorageCreate.scoped
  BY <1>1
     DEF StorageCreate, Work, Handler, Places, Flags, PageFlags, Dialogs, Modals, OfPage,
         Ending
<1>3. OfPage(StorageDelete, StorageRefresh) /\ ~StorageDelete.scoped
  BY <1>1
     DEF StorageDelete, Work, Handler, Places, Flags, PageFlags, Dialogs, Modals, OfPage,
         Ending
<1> QED
  BY <1>1, <1>2, <1>3, PageHandler DEF Simple

LEMMA StorageStep ==
    ASSUME ScreenInv, StorageForm \/ \E i \in Rows : StorageRow(i)
    PROVE  Step
<1>1. CASE StorageForm
  BY <1>1, StorageHandlers, Names, DialogStep, ClickStep DEF StorageForm, Simple
<1>2. ASSUME NEW i \in Rows, StorageRow(i) PROVE Step
  BY <1>2, StorageHandlers, Names, DialogStep, ClickStep DEF StorageRow, Simple
<1> QED
  BY <1>1, <1>2

LEMMA CronJobsHandlers ==
    ASSUME page = "cronjobs"
    PROVE  /\ Simple(CronJobsCreate)
           /\ Simple(CronJobsToggle)
           /\ Simple(CronJobsDelete)
           /\ Simple(CronJobsShowRuns)
<1>1. Ending(CronJobsRefresh) /\ (page \in SpinningPages => CronJobsRefresh.spins) /\ page # "node"
  BY Refreshes DEF SpinningPages
<1>2. OfPage(CronJobsCreate, CronJobsRefresh) /\ ~CronJobsCreate.scoped
  BY <1>1
     DEF CronJobsCreate, Work, Handler, Places, Flags, PageFlags, Dialogs, Modals, OfPage,
         Ending
<1>3. OfPage(CronJobsToggle, CronJobsRefresh) /\ ~CronJobsToggle.scoped
  BY <1>1
     DEF CronJobsToggle, Work, Handler, Places, Flags, PageFlags, Dialogs, Modals, OfPage,
         Ending
<1>4. OfPage(CronJobsDelete, CronJobsRefresh) /\ ~CronJobsDelete.scoped
  BY <1>1
     DEF CronJobsDelete, Work, Handler, Places, Flags, PageFlags, Dialogs, Modals, OfPage,
         Ending
<1>5. OfPage(CronJobsShowRuns, CronJobsRefresh) /\ ~CronJobsShowRuns.scoped
  BY <1>1
     DEF CronJobsShowRuns, Read, Work, Handler, Places, Flags, PageFlags, Dialogs, Modals,
         OfPage, EditorPages, Ending
<1> QED
  BY <1>1, <1>2, <1>3, <1>4, <1>5, PageHandler DEF Simple

LEMMA CronJobsStep ==
    ASSUME ScreenInv,
           \/ CronJobsHeader \/ CronJobsRuns
           \/ \E i \in Rows : CronJobsRow(i)
    PROVE  Step
<1>1. CASE CronJobsHeader
  BY <1>1, CronJobsHandlers, Refreshes, Names, BareStep, ClickStep, DialogStep
     DEF CronJobsHeader, Simple, SpinningPages
<1>2. CASE CronJobsRuns
  BY <1>2, Names, DialogStep DEF CronJobsRuns, EditorPages
<1>3. ASSUME NEW i \in Rows, CronJobsRow(i) PROVE Step
  <2>1. page = "cronjobs" /\ i \in Targets
    BY <1>3, Names DEF CronJobsRow
  <2>2. CASE ShowAndFetch("detail", CronJobsShowRuns, i)
    BY <2>1, <2>2, CronJobsHandlers, FetchStep DEF Simple, Clickable
  <2>3. CASE Click(CronJobsToggle, i) \/ Click(CronJobsDelete, i)
    BY <2>1, <2>3, CronJobsHandlers, ClickStep DEF Simple
  <2>4. CASE Show("confirm", i) \/ Hide("confirm")
    BY <2>1, <2>4, Names, DialogStep
  <2> QED
    BY <1>3, <2>2, <2>3, <2>4 DEF CronJobsRow
<1> QED
  BY <1>1, <1>2, <1>3

-----------------------------------------------------------------------------
(* The pages of AdminPages.                                                *)

LEMMA UsersHandlers ==
    ASSUME page = "users"
    PROVE  /\ Simple(UsersCreate)
           /\ Simple(UsersRoleChange)
           /\ Simple(UsersPasswordSave)
           /\ Simple(UsersDelete)
<1>1. Ending(UsersRefresh) /\ (page \in SpinningPages => UsersRefresh.spins) /\ page # "node"
  BY Refreshes DEF SpinningPages
<1>2. OfPage(UsersCreate, UsersRefresh) /\ ~UsersCreate.scoped
  BY <1>1
     DEF UsersCreate, Work, Handler, Places, Flags, PageFlags, Dialogs, Modals, OfPage, EditorPages, Ending
<1>3. OfPage(UsersRoleChange, UsersRefresh) /\ ~UsersRoleChange.scoped
  BY <1>1
     DEF UsersRoleChange, Work, Handler, Places, Flags, PageFlags, Dialogs, Modals, OfPage,
         Ending
<1>4. OfPage(UsersPasswordSave, UsersRefresh) /\ ~UsersPasswordSave.scoped
  BY <1>1
     DEF UsersPasswordSave, Work, Handler, Places, Flags, PageFlags, Dialogs, Modals, OfPage,
         Ending
<1>5. OfPage(UsersDelete, UsersRefresh) /\ ~UsersDelete.scoped
  BY <1>1
     DEF UsersDelete, Work, Handler, Places, Flags, PageFlags, Dialogs, Modals, OfPage, EditorPages, Ending
<1> QED
  BY <1>1, <1>2, <1>3, <1>4, <1>5, PageHandler DEF Simple

LEMMA UsersStep ==
    ASSUME ScreenInv, UsersCreateForm \/ \E i \in Rows : UsersRow(i)
    PROVE  Step
<1>1. CASE UsersCreateForm
  BY <1>1, UsersHandlers, Names, DialogStep, ClickStep DEF UsersCreateForm, Simple
<1>2. ASSUME NEW i \in Rows, UsersRow(i) PROVE Step
  <2>1. page = "users" /\ i \in Targets /\ page \notin EditorPages
    BY <1>2, Names DEF UsersRow, EditorPages
  <2>2. CASE \E h \in {UsersRoleChange, UsersPasswordSave, UsersDelete} : Click(h, i)
    BY <2>1, <2>2, UsersHandlers, ClickStep DEF Simple
  <2>3. CASE \E d \in {"detail", "confirm"} : Show(d, i) \/ Hide(d)
    BY <2>1, <2>3, Names, DialogStep
  <2> QED
    BY <1>2, <2>2, <2>3 DEF UsersRow
<1> QED
  BY <1>1, <1>2

LEMMA NotificationsHandlers ==
    ASSUME page = "notifications"
    PROVE  /\ Simple(NotificationsCreate)
           /\ Simple(NotificationsSeverity)
           /\ Simple(NotificationsToggle)
           /\ Simple(NotificationsTest)
           /\ Simple(NotificationsDelete)
<1>1. Ending(NotificationsRefresh) /\ (page \in SpinningPages => NotificationsRefresh.spins) /\ page # "node"
  BY Refreshes DEF SpinningPages
<1>2. OfPage(NotificationsCreate, NotificationsRefresh) /\ ~NotificationsCreate.scoped
  BY <1>1
     DEF NotificationsCreate, Work, Handler, Places, Flags, PageFlags, Dialogs, Modals, OfPage,
         Ending
<1>3. OfPage(NotificationsSeverity, NotificationsRefresh) /\ ~NotificationsSeverity.scoped
  BY <1>1
     DEF NotificationsSeverity, Work, Handler, Places, Flags, PageFlags, Dialogs, Modals,
         OfPage, EditorPages, Ending
<1>4. OfPage(NotificationsToggle, NotificationsRefresh) /\ ~NotificationsToggle.scoped
  BY <1>1
     DEF NotificationsToggle, Work, Handler, Places, Flags, PageFlags, Dialogs, Modals, OfPage,
         Ending
<1>5. OfPage(NotificationsTest, NotificationsRefresh) /\ ~NotificationsTest.scoped
  BY <1>1
     DEF NotificationsTest, Work, Handler, Places, Flags, PageFlags, Dialogs, Modals, OfPage,
         Ending
<1>6. OfPage(NotificationsDelete, NotificationsRefresh) /\ ~NotificationsDelete.scoped
  BY <1>1
     DEF NotificationsDelete, Work, Handler, Places, Flags, PageFlags, Dialogs, Modals, OfPage,
         Ending
<1> QED
  BY <1>1, <1>2, <1>3, <1>4, <1>5, <1>6, PageHandler DEF Simple

LEMMA NotificationsStep ==
    ASSUME ScreenInv, NotificationsForm \/ \E i \in Rows : NotificationsRow(i)
    PROVE  Step
<1>1. CASE NotificationsForm
  BY <1>1, NotificationsHandlers, Names, DialogStep, ClickStep DEF NotificationsForm, Simple
<1>2. ASSUME NEW i \in Rows, NotificationsRow(i) PROVE Step
  BY <1>2, NotificationsHandlers, Names, DialogStep, ClickStep DEF NotificationsRow, Simple
<1> QED
  BY <1>1, <1>2

LEMMA AlertRulesHandlers ==
    ASSUME page = "alert-rules"
    PROVE  /\ Simple(AlertRulesCreate)
           /\ Simple(RuleSave)
           /\ Simple(RuleDelete)
<1>1. Ending(AlertRulesRefresh) /\ (page \in SpinningPages => AlertRulesRefresh.spins) /\ page # "node"
  BY Refreshes DEF SpinningPages
<1>2. OfPage(AlertRulesCreate, AlertRulesRefresh) /\ ~AlertRulesCreate.scoped
  BY <1>1
     DEF AlertRulesCreate, Work, Handler, Places, Flags, PageFlags, Dialogs, Modals, OfPage,
         Ending
<1>3. OfInner(RuleSave, AlertRulesRefresh) /\ ~RuleSave.scoped /\ ~RuleSave.fetches
  BY <1>1
     DEF RuleSave, Work, Handler, Places, Flags, InnerFlags, Dialogs, Modals, InnerDialogs,
         OfInner, EditorPages, Ending
<1>4. OfInner(RuleDelete, AlertRulesRefresh) /\ ~RuleDelete.scoped /\ ~RuleDelete.fetches
  BY <1>1
     DEF RuleDelete, Work, Handler, Places, Flags, InnerFlags, Dialogs, Modals, InnerDialogs,
         OfInner, EditorPages, Ending
<1> QED
  BY <1>1, <1>2, <1>3, <1>4, PageHandler DEF Simple

LEMMA AlertRulesStep ==
    ASSUME ScreenInv,
           \/ AlertRulesForm
           \/ \E i \in Rows : RuleControls(i) \/ RuleEditForm(i)
    PROVE  Step
<1>1. CASE AlertRulesForm
  BY <1>1, AlertRulesHandlers, Names, DialogStep, ClickStep DEF AlertRulesForm, Simple
<1>2. ASSUME NEW i \in Rows, RuleControls(i) PROVE Step
  BY <1>2, AlertRulesHandlers, Names, DialogStep, ClickStep DEF RuleControls, Simple
<1>3. ASSUME NEW i \in Rows, RuleEditForm(i) PROVE Step
  BY <1>3, AlertRulesHandlers, Names, DialogStep, ClickStep DEF RuleEditForm, Simple
<1> QED
  BY <1>1, <1>2, <1>3

-----------------------------------------------------------------------------
(* WorkloadsPage.                                                          *)

LEMMA WorkloadsHandlers ==
    ASSUME page = "workloads"
    PROVE  /\ Simple(WorkloadsCreate)
           /\ Simple(WorkloadsDelete)
           /\ Simple(WorkloadsScale)
           /\ Simple(WorkloadsImage)
           /\ Simple(WorkloadsRestart)
           /\ Simple(WorkloadsDrain)
           /\ Simple(WorkloadsCordon)
<1>1. Ending(WorkloadsRefresh) /\ (page \in SpinningPages => WorkloadsRefresh.spins) /\ page # "node"
  BY Refreshes DEF SpinningPages
<1>2. OfPage(WorkloadsCreate, WorkloadsRefresh) /\ ~WorkloadsCreate.scoped
  BY <1>1
     DEF WorkloadsCreate, WorkloadsWork, Work, Handler, Places, Flags, PageFlags, Dialogs,
         Modals, OfPage, EditorPages, Ending
<1>3. OfPage(WorkloadsDelete, WorkloadsRefresh) /\ ~WorkloadsDelete.scoped
  BY <1>1
     DEF WorkloadsDelete, WorkloadsWork, Work, Handler, Places, Flags, PageFlags, Dialogs,
         Modals, OfPage, EditorPages, Ending
<1>4. OfPage(WorkloadsScale, WorkloadsRefresh) /\ ~WorkloadsScale.scoped
  BY <1>1
     DEF WorkloadsScale, WorkloadsWork, Work, Handler, Places, Flags, PageFlags, Dialogs,
         Modals, OfPage, EditorPages, Ending
<1>5. OfPage(WorkloadsImage, WorkloadsRefresh) /\ ~WorkloadsImage.scoped
  BY <1>1
     DEF WorkloadsImage, WorkloadsWork, Work, Handler, Places, Flags, PageFlags, Dialogs,
         Modals, OfPage, EditorPages, Ending
<1>6. OfPage(WorkloadsRestart, WorkloadsRefresh) /\ ~WorkloadsRestart.scoped
  BY <1>1
     DEF WorkloadsRestart, WorkloadsWork, Work, Handler, Places, Flags, PageFlags, Dialogs,
         Modals, OfPage, EditorPages, Ending
<1>7. OfPage(WorkloadsDrain, WorkloadsRefresh) /\ ~WorkloadsDrain.scoped
  BY <1>1
     DEF WorkloadsDrain, WorkloadsWork, Work, Handler, Places, Flags, PageFlags, Dialogs,
         Modals, OfPage, EditorPages, Ending
<1>8. OfPage(WorkloadsCordon, WorkloadsRefresh) /\ ~WorkloadsCordon.scoped
  BY <1>1
     DEF WorkloadsCordon, WorkloadsWork, Work, Handler, Places, Flags, PageFlags, Dialogs,
         Modals, OfPage, EditorPages, Ending
<1> QED
  BY <1>1, <1>2, <1>3, <1>4, <1>5, <1>6, <1>7, <1>8, PageHandler DEF Simple

LEMMA ModalHandlers ==
    ASSUME page = "workloads"
    PROVE  /\ Simple(EnvSave)
           /\ Simple(ResourcesSave)
           /\ Simple(ProbesSave)
           /\ Reader(HpaSave)
           /\ Simple(HpaDelete)
           /\ Simple(Rollback)
           /\ Reader(HpaLoad)
           /\ Reader(RollbackLoad)
           /\ Reader(PodsLoad)
           /\ Reader(EventsModalLoad)
           /\ Reader(MetricsLoad)
<1>1. Ending(WorkloadsRefresh) /\ (page \in SpinningPages => WorkloadsRefresh.spins) /\ page # "node"
  BY Refreshes DEF SpinningPages
<1>2. OfInner(EnvSave, WorkloadsRefresh) /\ ~EnvSave.scoped /\ ~EnvSave.fetches
  BY <1>1
     DEF EnvSave, ModalSave, ModalWork, Work, Handler, Places, Flags, InnerFlags, Dialogs,
         Modals, InnerDialogs, OfInner, EditorPages, Ending
<1>3. OfInner(ResourcesSave, WorkloadsRefresh) /\ ~ResourcesSave.scoped /\ ~ResourcesSave.fetches
  BY <1>1
     DEF ResourcesSave, ModalSave, ModalWork, Work, Handler, Places, Flags, InnerFlags,
         Dialogs, Modals, InnerDialogs, OfInner, EditorPages, Ending
<1>4. OfInner(ProbesSave, WorkloadsRefresh) /\ ~ProbesSave.scoped /\ ~ProbesSave.fetches
  BY <1>1
     DEF ProbesSave, ModalSave, ModalWork, Work, Handler, Places, Flags, InnerFlags, Dialogs,
         Modals, InnerDialogs, OfInner, EditorPages, Ending
<1>5. OfInner(HpaSave, WorkloadsRefresh) /\ ~HpaSave.scoped
  BY <1>1
     DEF HpaSave, ModalSave, ModalWork, Work, Handler, Places, Flags, InnerFlags, Dialogs,
         Modals, InnerDialogs, OfInner, EditorPages, Ending
<1>6. OfInner(HpaDelete, WorkloadsRefresh) /\ ~HpaDelete.scoped /\ ~HpaDelete.fetches
  BY <1>1
     DEF HpaDelete, ModalSave, ModalWork, Work, Handler, Places, Flags, InnerFlags, Dialogs,
         Modals, InnerDialogs, OfInner, EditorPages, Ending
<1>7. OfInner(Rollback, WorkloadsRefresh) /\ ~Rollback.scoped /\ ~Rollback.fetches
  BY <1>1
     DEF Rollback, ModalSave, ModalWork, Work, Handler, Places, Flags, InnerFlags, Dialogs,
         Modals, InnerDialogs, OfInner, EditorPages, Ending
<1>8. OfInner(HpaLoad, WorkloadsRefresh) /\ ~HpaLoad.scoped
  BY <1>1
     DEF HpaLoad, ModalRead, ModalWork, Work, Handler, Places, Flags, InnerFlags, Dialogs,
         Modals, InnerDialogs, OfInner, EditorPages, Ending
<1>9. OfInner(RollbackLoad, WorkloadsRefresh) /\ ~RollbackLoad.scoped
  BY <1>1
     DEF RollbackLoad, ModalRead, ModalWork, Work, Handler, Places, Flags, InnerFlags, Dialogs,
         Modals, InnerDialogs, OfInner, EditorPages, Ending
<1>10. OfInner(PodsLoad, WorkloadsRefresh) /\ ~PodsLoad.scoped
  BY <1>1
     DEF PodsLoad, ModalRead, ModalWork, Work, Handler, Places, Flags, InnerFlags, Dialogs,
         Modals, InnerDialogs, OfInner, EditorPages, Ending
<1>11. OfInner(EventsModalLoad, WorkloadsRefresh) /\ ~EventsModalLoad.scoped
  BY <1>1
     DEF EventsModalLoad, ModalRead, ModalWork, Work, Handler, Places, Flags, InnerFlags,
         Dialogs, Modals, InnerDialogs, OfInner, EditorPages, Ending
<1>12. OfInner(MetricsLoad, WorkloadsRefresh) /\ ~MetricsLoad.scoped
  BY <1>1
     DEF MetricsLoad, ModalRead, ModalWork, Work, Handler, Places, Flags, InnerFlags, Dialogs,
         Modals, InnerDialogs, OfInner, EditorPages, Ending
<1> QED
  BY <1>1, <1>2, <1>3, <1>4, <1>5, <1>6, <1>7, <1>8, <1>9, <1>10, <1>11, <1>12, PageHandler
     DEF Simple, Reader

LEMMA ImageStep == ASSUME ScreenInv, NEW i \in Rows, ImageCell(i) PROVE Step
<1>1. i \in Targets /\ page = "workloads" /\ Startable(WorkloadsImage) /\ ~WorkloadsImage.scoped
      /\ ~(WorkloadsImage.inner /\ WorkloadsImage.fetches)
  BY Names, WorkloadsHandlers DEF ImageCell, Simple, Clickable
<1>2. CASE Unfold("editing", i) \/ Fold("editing", i)
  BY <1>1, <1>2, Names, DialogStep
<1>3. CASE Begin(WorkloadsImage, i, [open EXCEPT !["editing"] = @ \ {i}], draft)
  <2> DEFINE o == [open EXCEPT !["editing"] = @ \ {i}]
  <2>1. o \in [Dialogs -> SUBSET Targets] /\ draft \in SUBSET Targets
    BY Names DEF ScreenInv, CallsInv, TypeOK
  <2>2. \A e \in Modals \union {"detail"} : o[e] = open[e]
    BY Names DEF ScreenInv, CallsInv, TypeOK
  <2> HIDE DEF o
  <2>3. Begin(WorkloadsImage, i, o, draft)
    BY <1>3 DEF o
  <2> QED
    BY <1>1, <2>1, <2>2, <2>3, BeginStep
<1> QED
  BY <1>2, <1>3 DEF ImageCell

LEMMA WorkloadsRowStep ==
    ASSUME ScreenInv, WorkloadsForm \/ \E i \in Rows : WorkloadsRow(i) \/ WorkloadsNodes(i)
    PROVE  Step
<1>1. CASE WorkloadsForm
  BY <1>1, WorkloadsHandlers, Names, ClickStep DEF WorkloadsForm, Simple
<1>2. ASSUME NEW i \in Rows, WorkloadsRow(i) PROVE Step
  BY <1>2, WorkloadsHandlers, Names, ClickStep DEF WorkloadsRow, Simple
<1>3. ASSUME NEW i \in Rows, WorkloadsNodes(i) PROVE Step
  BY <1>3, WorkloadsHandlers, Names, ClickStep DEF WorkloadsNodes, Simple
<1> QED
  BY <1>1, <1>2, <1>3

LEMMA WorkloadsModalsStep == ASSUME ScreenInv, NEW i \in Rows, WorkloadsModals(i) PROVE Step
<1>1. page = "workloads" /\ i \in Targets
  BY Names DEF WorkloadsModals
<1>2. {"env", "resources", "probes", "logs", "terminal", "hpa", "rollback", "pods", "events", "metrics"}
        \subseteq Modals
  BY DEF Modals
<1>3. \A d \in Modals : ShowModal(d, i) => Step
  BY <1>1, Names, DialogStep DEF ShowModal
<1>4. \A d \in Modals : \A h \in {HpaLoad, RollbackLoad, PodsLoad, EventsModalLoad, MetricsLoad} :
        ShowModalAndFetch(d, h, i) => Step
  BY <1>1, ModalHandlers, FetchStep DEF Reader
<1> QED
  BY <1>2, <1>3, <1>4 DEF WorkloadsModals

LEMMA ModalStep ==
    ASSUME ScreenInv, NEW i \in Rows,
           \/ EnvModal(i) \/ ResourcesModal(i) \/ ProbesModal(i) \/ HpaModal(i)
           \/ RollbackModal(i) \/ PodsModal(i) \/ EventsModal(i) \/ MetricsModal(i)
    PROVE  Step
<1>1. page = "workloads" /\ i \in Targets
  BY Names DEF EnvModal, ResourcesModal, ProbesModal, HpaModal, RollbackModal, PodsModal,
               EventsModal, MetricsModal
<1>2. \A h \in {EnvSave, ResourcesSave, ProbesSave, HpaDelete, Rollback} : Click(h, i) => Step
  BY <1>1, ModalHandlers, ClickStep DEF Simple
<1>3. \A h \in {HpaSave, PodsLoad, EventsModalLoad, MetricsLoad} :
        Click(h, i) /\ (\E d \in Modals : i \in open[d]) => Step
  BY <1>1, ModalHandlers, FetchStep DEF Reader
<1>4. {"hpa", "pods", "events", "metrics"} \subseteq Modals
  BY DEF Modals
<1> QED
  BY <1>2, <1>3, <1>4 DEF EnvModal, ResourcesModal, ProbesModal, HpaModal, RollbackModal, PodsModal,
              EventsModal, MetricsModal

LEMMA WorkloadsStep == ASSUME ScreenInv, Workloads \/ WorkloadsPoll PROVE Step
<1>1. ASSUME NEW d \in Modals, ModalCloses(d) PROVE Step
  BY <1>1, Names, UnmountStep DEF ModalCloses
<1>2. CASE WorkloadsPoll
  <2>1. page = "workloads" /\ Ending(WorkloadsRefresh) /\ Load(WorkloadsRefresh)
    BY <1>2, Refreshes DEF WorkloadsPoll
  <2> QED
    BY <2>1, BareStep DEF SpinningPages
<1> QED
  BY <1>1, <1>2, ImageStep, WorkloadsRowStep, WorkloadsModalsStep, ModalStep DEF Workloads

-----------------------------------------------------------------------------
(* The pages of ViewPages.                                                 *)

\* What they load by, where that has no name.
ViewRefreshes ==
    {[Plain EXCEPT !.spins = TRUE, !.wipes = TRUE], [Plain EXCEPT !.spins = TRUE],
     [Plain EXCEPT !.clears = TRUE], [Plain EXCEPT !.spins = TRUE, !.clears = TRUE]}

LEMMA ViewRefreshesEnd == \A r \in ViewRefreshes : Ending(r)
<1>1. Plain \in Refresh /\ Plain.stops
  BY DEF Plain, Refresh
<1> QED
  BY <1>1 DEF ViewRefreshes, Refresh, Ending

\* The page by page ones raise a flag while they load.
LEMMA MoreHandlers ==
    /\ OfPage(HistoryLoad, [Plain EXCEPT !.spins = TRUE, !.clears = TRUE])
    /\ HistoryLoad.reload = {[Plain EXCEPT !.spins = TRUE, !.clears = TRUE]} /\ ~HistoryLoad.scoped
    /\ \A h \in {AuditMore, HistoryMore} :
          /\ h \in Handler /\ h.reload # {} /\ ~Spins(h)
          /\ ~h.inner /\ h.flag \subseteq PageFlags /\ h.closes = {}
          /\ ~h.changes /\ ~h.cancels /\ ~h.fetches /\ h.fills = {} /\ h.ends = {}
<1> DEFINE r == [Plain EXCEPT !.spins = TRUE, !.clears = TRUE]
           m == [Plain EXCEPT !.stops = FALSE, !.wipes = TRUE]
           n == [Plain EXCEPT !.clears = TRUE]
<1>1. r \in Refresh /\ m \in Refresh /\ n \in Refresh /\ ~m.spins /\ ~n.spins
  BY DEF Plain, Refresh
<1> HIDE DEF r, m, n
<1>2. HistoryLoad = [Bare(r) EXCEPT !.flag = {"fetch"}]
  BY DEF HistoryLoad, r
<1>3. AuditMore = [Bare(m) EXCEPT !.flag = {"fetch"}, !.appends = TRUE]
  BY DEF AuditMore, m
<1>4. HistoryMore = [Bare(n) EXCEPT !.flag = {"fetch"}, !.appends = TRUE]
  BY DEF HistoryMore, n
<1>5. OfPage(HistoryLoad, r) /\ HistoryLoad.reload = {r} /\ ~HistoryLoad.scoped
  BY <1>1, <1>2 DEF Bare, Work, Handler, Places, Flags, PageFlags, Dialogs, Modals, OfPage
<1>6. /\ AuditMore \in Handler /\ AuditMore.reload = {m}
      /\ ~AuditMore.inner /\ AuditMore.flag \subseteq PageFlags /\ AuditMore.closes = {}
      /\ ~AuditMore.changes /\ ~AuditMore.cancels
      /\ ~AuditMore.fetches /\ AuditMore.fills = {} /\ AuditMore.ends = {}
  BY <1>1, <1>3 DEF Bare, Work, Handler, Places, Flags, PageFlags, Dialogs, Modals
<1>7. /\ HistoryMore \in Handler /\ HistoryMore.reload = {n}
      /\ ~HistoryMore.inner /\ HistoryMore.flag \subseteq PageFlags /\ HistoryMore.closes = {}
      /\ ~HistoryMore.changes /\ ~HistoryMore.cancels
      /\ ~HistoryMore.fetches /\ HistoryMore.fills = {} /\ HistoryMore.ends = {}
  BY <1>1, <1>4 DEF Bare, Work, Handler, Places, Flags, PageFlags, Dialogs, Modals
<1>8. ~Spins(AuditMore) /\ ~Spins(HistoryMore)
  BY <1>1, <1>6, <1>7 DEF Spins
<1> QED
  BY <1>5, <1>6, <1>7, <1>8 DEF r

LEMMA MoreStep ==
    ASSUME ScreenInv, NEW h \in {AuditMore, HistoryMore}, page \in {"audit", "alert-history"}, LoadMore(h)
    PROVE  Step
<1>1. PageFlags \intersect InnerFlags = {}
  BY DEF PageFlags, InnerFlags
<1>2. Sound(h) /\ Fits(h) /\ h.reload # {}
  BY <1>1, MoreHandlers DEF Sound, Fits, SpinningPages, EditorPages
<1> QED
  BY <1>2, LoadMoreStep

LEMMA ViewStep == ASSUME ScreenInv, ViewPage \/ EventsPoll \/ CapacityPoll \/ AlertsPoll PROVE Step
<1>1. \A r \in ViewRefreshes : Ending(r)
  BY ViewRefreshesEnd
<1>2. CASE ServicesNamespace \/ RBACHideSystem \/ AuditFilters
  <2>1. page # "node" /\ page \notin SpinningPages
    BY <1>2 DEF ServicesNamespace, RBACHideSystem, AuditFilters, SpinningPages
  <2>2. \E r \in ViewRefreshes : \E f \in Filters : Choose(f, Bare(r))
    BY <1>2
       DEF ServicesNamespace, RBACHideSystem, AuditFilters, ServicesRefresh, RBACLoad,
           AuditLoad,
                ViewRefreshes
  <2> QED
    BY <1>1, <2>1, <2>2, BareStep
<1>3. CASE EventsFilters \/ EventsButtons \/ EventsPoll
  <2>1. page = "events" /\ Ending(EventsLoad) /\ Ending(EventsReload)
    BY <1>3, Refreshes DEF EventsFilters, EventsButtons, EventsPoll
  <2>2. CASE EventsButtons
    BY <2>1, <2>2, Names, DialogStep, BareStep DEF EventsButtons, SpinningPages
  <2>3. CASE EventsFilters \/ EventsPoll
    BY <2>1, <2>3, BareStep DEF EventsFilters, EventsPoll, SpinningPages
  <2> QED
    BY <1>3, <2>2, <2>3
<1>4. CASE CapacityPoll \/ AlertsPoll
  <2>1. page # "node" /\ page \notin SpinningPages
    BY <1>4 DEF CapacityPoll, AlertsPoll, SpinningPages
  <2> QED
    BY <1>4, <2>1, Refreshes, BareStep DEF CapacityPoll, AlertsPoll
<1>5. CASE AuditLoadMore \/ HistoryLoadMore
  BY <1>5, MoreStep DEF AuditLoadMore, HistoryLoadMore
<1>6. CASE HistoryFilters
  <2> DEFINE r == [Plain EXCEPT !.spins = TRUE, !.clears = TRUE]
  <2>1. page = "alert-history" /\ Ending(r) /\ OfPage(HistoryLoad, r)
    BY <1>1, <1>6, MoreHandlers DEF HistoryFilters, ViewRefreshes
  <2> HIDE DEF r
  <2>2. Startable(HistoryLoad) /\ HistoryLoad.reload # {}
    BY <2>1, MoreHandlers, PageHandler DEF SpinningPages
  <2> QED
    BY <1>6, <2>2, ChooseStep DEF HistoryFilters
<1> QED
  BY <1>2, <1>3, <1>4, <1>5, <1>6 DEF ViewPage

-----------------------------------------------------------------------------
(* The dashboard, and the view of a node.                                  *)

LEMMA DashboardHandlers ==
    ASSUME page = "dashboard"
    PROVE  /\ Simple(NodePower)
           /\ Simple(ClusterPower)
           /\ Reader(StressTest)
<1>1. Ending(DashboardRefresh) /\ (page \in SpinningPages => DashboardRefresh.spins) /\ page # "node"
  BY Refreshes DEF SpinningPages
<1>2. OfInner(NodePower, DashboardRefresh) /\ ~NodePower.scoped /\ ~NodePower.fetches
  BY <1>1
     DEF NodePower, PowerWork, Work, Handler, Places, Flags, InnerFlags, Dialogs, Modals,
         InnerDialogs, OfInner, EditorPages, Ending
<1>3. OfPage(ClusterPower, DashboardRefresh) /\ ~ClusterPower.scoped
  BY <1>1
     DEF ClusterPower, PowerWork, Work, Handler, Places, Flags, PageFlags, Dialogs, Modals,
         OfPage, EditorPages, Ending
<1>4. OfInner(StressTest, DashboardRefresh) /\ ~StressTest.scoped
  BY <1>1
     DEF StressTest, ModalRead, ModalWork, Work, Handler, Places, Flags, InnerFlags, Dialogs,
         Modals, InnerDialogs, OfInner, EditorPages, Ending
<1> QED
  BY <1>1, <1>2, <1>3, <1>4, PageHandler DEF Simple, Reader

LEMMA DashboardStep ==
    ASSUME ScreenInv,
           \/ Navigate \/ ClusterDialog \/ StressTestModal \/ DashboardPoll
           \/ \E i \in Rows : NodeCard(i)
    PROVE  Step
<1>1. "stress" \in Modals /\ Modals \subseteq Dialogs
  BY DEF Dialogs, Modals
<1>2. CASE Navigate
  <2>1. page \notin EditorPages
    BY <1>2 DEF Navigate, EditorPages
  <2> QED
    BY <1>2, <2>1, Names, UnmountStep, DialogStep DEF Navigate
<1>3. CASE ClusterDialog
  BY <1>3, DashboardHandlers, Names, DialogStep, ClickStep
     DEF ClusterDialog, AtDashboard, Simple
<1>4. CASE StressTestModal
  <2>1. page = "dashboard" /\ page \notin EditorPages
    BY <1>4 DEF StressTestModal, AtDashboard, EditorPages
  <2>2. CASE ShowModal("stress", Form)
    BY <1>1, <2>1, <2>2, Names, DialogStep DEF ShowModal
  <2>3. CASE Form \in open["stress"] /\ Click(StressTest, Form)
    BY <1>1, <2>1, <2>3, DashboardHandlers, Names, FetchStep DEF Reader
  <2>4. CASE HideModal("stress")
    BY <1>1, <2>4, UnmountStep
  <2> QED
    BY <1>4, <2>2, <2>3, <2>4 DEF StressTestModal
<1>5. CASE DashboardPoll
  BY <1>5, Refreshes, BareStep DEF DashboardPoll, SpinningPages
<1>6. ASSUME NEW i \in Rows, NodeCard(i) PROVE Step
  BY <1>6, DashboardHandlers, Names, DialogStep, ClickStep DEF NodeCard, AtDashboard, Simple
<1> QED
  BY <1>2, <1>3, <1>4, <1>5, <1>6

LEMMA NodeHandlers ==
    ASSUME page = "node"
    PROVE  Simple(NodeHistory) /\ NodeHistory.reload # {} /\ Simple(NodeDetailPower)
<1> DEFINE r == [Plain EXCEPT !.spins = TRUE, !.wipes = TRUE]
<1>1. Ending(r)
  BY ViewRefreshesEnd DEF ViewRefreshes
<1> HIDE DEF r
<1>2. NodeHistory = [Bare(r) EXCEPT !.cancels = TRUE]
  BY DEF NodeHistory, r
<1>3. /\ NodeHistory \in Handler /\ NodeHistory.reload = {r} /\ NodeHistory.flag = {}
      /\ NodeHistory.closes = {} /\ ~NodeHistory.inner /\ ~NodeHistory.changes
      /\ ~NodeHistory.appends /\ ~NodeHistory.scoped
      /\ ~NodeHistory.fetches /\ NodeHistory.fills = {} /\ NodeHistory.ends = {}
  BY <1>1, <1>2 DEF Bare, Work, Handler, Places, Ending
<1>4. Stops(NodeHistory)
  BY <1>1, <1>3 DEF Stops, Ending
<1>5. Simple(NodeHistory)
  BY <1>3, <1>4 DEF Simple, Clickable, Startable, Sound, Fits, SpinningPages, EditorPages
<1>6. OfPage(NodeDetailPower, r) /\ ~NodeDetailPower.scoped /\ NodeDetailPower.reload = {}
  BY
     DEF NodeDetailPower, PowerWork, Work, Handler, Places, Flags, PageFlags, Dialogs, Modals,
         OfPage, EditorPages
<1>7. PageFlags \intersect InnerFlags = {}
  BY DEF PageFlags, InnerFlags
<1>8. Simple(NodeDetailPower)
  BY <1>6, <1>7 DEF OfPage, Simple, Clickable, Startable, Sound, Fits, Spins, Stops, EditorPages
<1> QED
  BY <1>3, <1>5, <1>8

LEMMA NodeStep == ASSUME ScreenInv, NodePeriod \/ NodeDetailDialog PROVE Step
<1>1. CASE NodePeriod
  BY <1>1, NodeHandlers, ChooseStep DEF NodePeriod, Simple, Clickable
<1>2. CASE NodeDetailDialog
  BY <1>2, NodeHandlers, Names, DialogStep, ClickStep DEF NodeDetailDialog, Simple
<1> QED
  BY <1>1, <1>2

-----------------------------------------------------------------------------
(* The web interface.                                                      *)

LEMMA FirstLoadSound ==
    ASSUME page \in ListPages
    PROVE  LET h == FirstLoad(page) IN Sound(h) /\ Fits(h) /\ h.reload # {} /\ Stops(h)
<1> DEFINE h == FirstLoad(page)
<1> SUFFICES Sound(h) /\ Fits(h) /\ h.reload # {} /\ Stops(h)
  OBVIOUS
<1>1. ASSUME NEW r, Ending(r), page # "node", page \in SpinningPages => r.spins, h = Bare(r)
      PROVE  Sound(h) /\ Fits(h) /\ h.reload # {} /\ Stops(h)
  <2> HIDE DEF h
  <2>1. OfPage(Bare(r), r) /\ Bare(r).reload = {r}
    BY <1>1, BareFacts DEF Ending
  <2>2. Startable(Bare(r))
    BY <1>1, <2>1, PageHandler
  <2> QED
    BY <1>1, <2>1, <2>2 DEF Startable, Stops, Ending
<1>2. CASE page \in {"configmaps", "secrets"}
  <2>1. h = Bare(IF page = "configmaps" THEN ConfigMapsRefresh ELSE SecretsRefresh)
    BY <1>2 DEF FirstLoad
  <2> QED
    BY <1>1, <1>2, <2>1, Refreshes
<1>3. CASE page \in {"namespaces", "storage", "cronjobs", "users", "notifications", "alert-rules",
                     "workloads"}
  <2>1. \E r \in {NamespacesLoad, StorageRefresh, CronJobsRefresh, UsersRefresh, NotificationsRefresh,
                  AlertRulesRefresh, WorkloadsRefresh} : h = Bare(r)
    BY <1>3 DEF FirstLoad
  <2> HIDE DEF h
  <2> QED
    BY <1>1, <1>3, <2>1, Refreshes DEF SpinningPages
<1>4. CASE page \in {"events", "capacity", "alerts", "dashboard"}
  <2>1. \E r \in {EventsReload, CapacityLoad, AlertsRefresh, DashboardRefresh} : h = Bare(r)
    BY <1>4 DEF FirstLoad
  <2> HIDE DEF h
  <2> QED
    BY <1>1, <1>4, <2>1, Refreshes DEF SpinningPages
<1>5. CASE page \in {"helm", "jobs", "objects", "quotas", "key-vault", "services", "rbac", "audit"}
  <2>1. h \in {HelmLoad, JobsLoad, ObjectsLoad, QuotasLoad, VaultLoad, ServicesRefresh, RBACLoad, AuditLoad}
    BY <1>5 DEF FirstLoad
  <2>2. \E r \in ViewRefreshes \union {Plain} : h = Bare(r)
    <3> HIDE DEF h
    <3> QED
      BY <2>1
         DEF HelmLoad, JobsLoad, ObjectsLoad, QuotasLoad, VaultLoad, ServicesRefresh, RBACLoad,
                  AuditLoad, ViewRefreshes
  <2> HIDE DEF h
  <2> QED
    BY <1>1, <1>5, <2>2, Refreshes, ViewRefreshesEnd DEF SpinningPages
<1>6. CASE page = "alert-history"
  <2> DEFINE r == [Plain EXCEPT !.spins = TRUE, !.clears = TRUE]
  <2>1. Ending(r) /\ OfPage(HistoryLoad, r) /\ HistoryLoad.reload = {r}
    BY MoreHandlers, ViewRefreshesEnd DEF ViewRefreshes
  <2>2. h = HistoryLoad
    BY <1>6 DEF FirstLoad
  <2> HIDE DEF r, h
  <2>3. Startable(HistoryLoad)
    BY <1>6, <2>1, PageHandler DEF SpinningPages
  <2> QED
    BY <2>1, <2>2, <2>3 DEF Startable, Stops, Ending
<1>7. CASE page = "node"
  <2>1. h = NodeHistory
    BY <1>7 DEF FirstLoad
  <2> HIDE DEF h
  <2> QED
    BY <1>7, <2>1, NodeHandlers DEF Simple, Clickable, Startable, Fits
<1> QED
  BY <1>2, <1>3, <1>4, <1>5, <1>6, <1>7 DEF ListPages

LEMMA InitScreen == ASSUME Init PROVE ScreenInv
<1> DEFINE s == CHOOSE t \in Slots : TRUE
           h == FirstLoad(page)
           c == NewCall(h, Form, filter)
           first == [c EXCEPT !.does = "load"]
<1>1. s \in Slots /\ filter \in Filters /\ Form \in Targets /\ 0 \in 0 .. MaxChanges
  BY ConstantAssumption DEF Init, Targets
<1>2. ASSUME page \notin Views
      PROVE  /\ Sound(h) /\ Fits(h) /\ h.reload # {} /\ Stops(h)
             /\ first \in Call /\ first.h = h /\ first.does = "load" /\ first.at = "sent"
             /\ first.seen = 0 /\ first.of = filter /\ first.live
  <2>1. page \in ListPages
    BY <1>2, PagesAssumption DEF Init
  <2>2. Sound(h) /\ Fits(h) /\ h.reload # {} /\ Stops(h)
    BY <2>1, FirstLoadSound
  <2> HIDE DEF h
  <2>3. c \in Call /\ c.h = h /\ c.at = "sent" /\ c.seen = 0 /\ c.of = filter /\ c.live
    BY <1>1, <2>2, NewCallFacts DEF Sound
  <2> HIDE DEF c
  <2>4. first \in Call /\ first.h = h /\ first.does = "load" /\ first.at = "sent"
        /\ first.seen = 0 /\ first.of = filter /\ first.live
    BY <2>3 DEF Call
  <2> QED
    BY <2>2, <2>4
<1>3. NoCall \in Call /\ NoCall.does = "nothing" /\ NoCall.seen = 0
  BY NoCallFacts
<1>4. /\ page \in Pages /\ changes = 0 /\ told = 0
      /\ list = [seen |-> 0, of |-> filter, sure |-> FALSE]
      /\ loading = (page \notin Views)
      /\ error = [p \in Places |-> "none"] /\ busy = [f \in Flags |-> {}]
      /\ open = [d \in Dialogs |-> {}] /\ draft = {}
      /\ calls = [t \in Slots |-> IF page \notin Views /\ t = s THEN first ELSE NoCall]
  BY DEF Init
<1>5. uses \in {{}} \union Offered
  BY DEF Init
<1> HIDE DEF s, h, first
<1>6. calls \in [Slots -> Call]
  BY <1>2, <1>3, <1>4
<1>7. TypeOK
  <2>1. list \in List /\ ~list.sure
    BY <1>1, <1>4 DEF List
  <2>2. error \in [Places -> Causes] /\ busy \in [Flags -> SUBSET Targets]
        /\ open \in [Dialogs -> SUBSET Targets] /\ draft \in SUBSET Targets
    BY <1>4 DEF Causes
  <2>3. loading \in BOOLEAN
    BY <1>4
  <2> QED
    BY <1>1, <1>4, <1>5, <1>6, <2>1, <2>2, <2>3 DEF TypeOK
<1>8. \A t \in Slots : calls[t].does # "nothing" => page \notin Views /\ t = s /\ calls[t] = first
  BY <1>3, <1>4
<1>9. BusyHasCall
  <2>1. ASSUME loading PROVE \E t \in Slots : calls[t].does = "load" /\ Stops(calls[t].h)
    <3>1. page \notin Views
      BY <1>4, <2>1
    <3>2. calls[s] = first
      BY <1>1, <1>4, <3>1
    <3> QED
      BY <1>1, <1>2, <3>1, <3>2
  <2> QED
    BY <1>4, <2>1 DEF BusyHasCall, IsLoad
<1>10. SoundCalls
  BY <1>2, <1>8 DEF SoundCalls, UnderWay
<1>11. Past
  BY <1>2, <1>3, <1>4 DEF Past
<1>12. Alone
  BY <1>2, <1>8 DEF Alone, UnderWay, IsLoad
<1>13. Current /\ Hidden
  BY <1>4 DEF Current, Hidden
<1>14. Fetched
  <2>1. \A t \in Slots : UnderWay(t) => calls[t].live /\ calls[t].does = "load"
    BY <1>2, <1>8 DEF UnderWay
  <2> QED
    BY <1>4, <2>1 DEF Fetched, Asks, UnderWay
<1> QED
  BY <1>7, <1>9, <1>10, <1>11, <1>12, <1>13, <1>14 DEF ScreenInv, CallsInv

LEMMA PageStep ==
    ASSUME ScreenInv, [Next]_<<vars, stream>>
    PROVE  ScreenInv' /\ [ActsOnSureList]_vars /\ page' = page
<1>1. CASE UNCHANGED vars
  <2>1. /\ UNCHANGED <<page, uses, changes, told, list, filter, loading, busy, calls>>
        /\ UNCHANGED <<error, open, draft>>
    BY <1>1 DEF vars, screen
  <2>2. CallsInv'
    BY <2>1, DialogKeeps DEF ScreenInv, CallsInv, TypeOK
  <2>3. Fetched'
    BY <2>1 DEF ScreenInv, Fetched, Shown, Asks, UnderWay
  <2> QED
    BY <1>1, <2>1, <2>2, <2>3 DEF ScreenInv
<1>2. CASE System
  BY <1>2, SystemStep DEF Step
<1>3. CASE ResourcePage
  BY <1>3, ConfigMapsStep, SecretsStep, NamespacesStep, StorageStep, CronJobsStep
     DEF ResourcePage, Step
<1>4. CASE AdminPage
  BY <1>4, UsersStep, NotificationsStep, AlertRulesStep DEF AdminPage, Step
<1>5. CASE Workloads
  BY <1>5, WorkloadsStep DEF Step
<1>6. CASE ViewPage
  BY <1>6, ViewStep DEF Step
<1>7. CASE DashboardPage
  BY <1>7, DashboardStep, NodeStep DEF DashboardPage, Step
<1>8. CASE Poll
  BY <1>8, WorkloadsStep, ViewStep, DashboardStep DEF Poll, Step
<1>9. CASE StreamNext /\ UNCHANGED vars
  BY <1>1, <1>9
<1> QED
  BY <1>1, <1>2, <1>3, <1>4, <1>5, <1>6, <1>7, <1>8, <1>9 DEF Next

-----------------------------------------------------------------------------
(* The view of a node.                                                     *)

LEMMA NodeHandlersAre ==
    /\ Spins(NodeHistory) /\ ~NodeHistory.appends /\ NodeHistory.cancels /\ NodeHistory \in Handler
    /\ NodeDetailPower.reload = {} /\ NodeDetailPower.closes = {} /\ NodeDetailPower.shows = {}
    /\ NodeDetailPower.wipes = {} /\ NodeDetailPower \in Handler
<1> DEFINE r == [Plain EXCEPT !.spins = TRUE, !.wipes = TRUE]
<1>1. r \in Refresh /\ r.spins
  BY DEF Plain, Refresh
<1> HIDE DEF r
<1>2. NodeHistory = [Bare(r) EXCEPT !.cancels = TRUE]
  BY DEF NodeHistory, r
<1>3. NodeHistory \in Handler /\ NodeHistory.reload = {r} /\ ~NodeHistory.appends /\ NodeHistory.cancels
  BY <1>1, <1>2 DEF Bare, Work, Handler, Places
<1>4. Spins(NodeHistory)
  BY <1>1, <1>3 DEF Spins
<1>5. /\ NodeDetailPower.reload = {} /\ NodeDetailPower.closes = {} /\ NodeDetailPower.shows = {}
      /\ NodeDetailPower.wipes = {} /\ NodeDetailPower \in Handler
  BY DEF NodeDetailPower, PowerWork, Work, Handler, Places, Flags, PageFlags, Dialogs
<1> QED
  BY <1>3, <1>4, <1>5

\* There are no other steps.
LEMMA NodeSteps ==
    ASSUME page = "node", [Next]_<<vars, stream>>
    PROVE  UNCHANGED vars \/ System \/ NodePeriod \/ NodeDetailDialog
<1>1. ~ResourcePage
  BY DEF ResourcePage, ConfigMapsHeader, ConfigMapsRow, ConfigMapsEditor, SecretsHeader,
         SecretsRow, SecretsEditor, CronJobsHeader, CronJobsRow, CronJobsRuns,
         NamespacesCreateForm, NamespacesRow, StorageForm, StorageRow
<1>2. ~AdminPage
  BY DEF AdminPage, UsersCreateForm, UsersRow, NotificationsForm, NotificationsRow,
         AlertRulesForm, RuleControls, RuleEditForm
<1>3. ~Workloads
  BY DEF Workloads, WorkloadsForm, ModalCloses, ImageCell, WorkloadsRow, WorkloadsNodes,
         WorkloadsModals, EnvModal, ResourcesModal, ProbesModal, HpaModal, RollbackModal,
         PodsModal, EventsModal, MetricsModal
<1>4. ~ViewPage
  BY DEF ViewPage, ServicesNamespace, RBACHideSystem, EventsFilters, EventsButtons,
         AuditFilters, AuditLoadMore, HistoryFilters, HistoryLoadMore
<1>5. DashboardPage => NodePeriod \/ NodeDetailDialog
  BY DEF DashboardPage, Navigate, ClusterDialog, StressTestModal, NodeCard, AtDashboard
<1>6. ~Poll
  BY DEF Poll, WorkloadsPoll, EventsPoll, CapacityPoll, AlertsPoll, DashboardPoll
<1> QED
  BY <1>1, <1>2, <1>3, <1>4, <1>5, <1>6 DEF Next

\* What such a step keeps, where p says that the charts are of the period.
LEMMA PeriodGoesOn ==
    ASSUME PeriodLoads, ChartsOfPeriod, page = "node",
           UNCHANGED <<page, list, filter, loading>>, error'["page"] = error["page"],
           \A s \in Slots : calls'[s].does # "nothing" =>
               \/ /\ calls'[s].does = calls[s].does /\ calls'[s].h = calls[s].h
                  /\ calls'[s].of = calls[s].of
               \/ calls'[s].does = "work" /\ calls'[s].h = NodeDetailPower
    PROVE  PeriodLoads' /\ ChartsOfPeriod'
<1>1. ChartsOfPeriod'
  BY DEF ChartsOfPeriod
<1>2. PeriodLoads'
  BY DEF PeriodLoads
<1> QED
  BY <1>1, <1>2

LEMMA PeriodAnswered ==
    ASSUME ScreenInv, PeriodLoads, ChartsOfPeriod, page = "node", System
    PROVE  PeriodLoads' /\ ChartsOfPeriod'
<1>1. calls \in [Slots -> Call] /\ TypeOK
  BY DEF ScreenInv, CallsInv, TypeOK
<1>2. NoCall \in Call /\ NoCall.does = "nothing"
  BY NoCallFacts
<1>3. "page" \in Places
  BY DEF Places
<1>4. CASE OthersChange
  BY <1>4, PeriodGoesOn DEF OthersChange, screen
<1>5. ASSUME NEW s \in Slots, Serve(s) \/ Fail(s) PROVE PeriodLoads' /\ ChartsOfPeriod'
  <2>1. (\E ans, seen : Answer(s, ans, seen)) /\ UNCHANGED <<page, list, filter, loading, error>>
    BY <1>5 DEF Serve, Fail, screen
  <2>2. \A t \in Slots : /\ calls'[t].does = calls[t].does /\ calls'[t].h = calls[t].h
                         /\ calls'[t].of = calls[t].of
    BY <1>1, <2>1 DEF Answer, Call
  <2> QED
    BY <2>1, <2>2, PeriodGoesOn
<1>6. ASSUME NEW s \in Slots, calls' = [calls EXCEPT ![s] = NoCall]
      PROVE  \A t \in Slots : calls'[t].does # "nothing" => calls'[t] = calls[t]
  BY <1>1, <1>2, <1>6
<1>7. ASSUME NEW s \in Slots, Worked(s) PROVE PeriodLoads' /\ ChartsOfPeriod'
  <2>1. calls[s].h = NodeDetailPower
    BY <1>7 DEF Worked, PeriodLoads
  <2>2. calls[s].h.reload = {} /\ ~ClosesModal(calls[s])
    BY <2>1, NodeHandlersAre DEF ClosesModal
  <2>3. calls' = [calls EXCEPT ![s] = NoCall] /\ error' = Without({})
        /\ UNCHANGED <<page, list, filter, loading>>
    BY <1>7, <2>2 DEF Worked
  <2>4. error'["page"] = error["page"]
    BY <1>3, <2>3 DEF Without
  <2> QED
    BY <1>6, <2>3, <2>4, PeriodGoesOn
<1>8. ASSUME NEW s \in Slots, Rejected(s) PROVE PeriodLoads' /\ ChartsOfPeriod'
  <2>1. calls[s].h = NodeDetailPower
    BY <1>8 DEF Rejected, PeriodLoads
  <2>2. calls[s].h.shows = {}
    BY <2>1, NodeHandlersAre
  <2>3. calls' = [calls EXCEPT ![s] = NoCall] /\ UNCHANGED <<page, list, filter, loading>>
        /\ (error' = With({}, calls[s].at) \/ error' = error)
    BY <1>8, <2>2 DEF Rejected, Ends
  <2>4. error'["page"] = error["page"]
    BY <1>3, <2>3 DEF With
  <2> QED
    BY <1>6, <2>3, <2>4, PeriodGoesOn
<1>9. ASSUME NEW s \in Slots, Loaded(s) \/ LoadFails(s) PROVE PeriodLoads' /\ ChartsOfPeriod'
  <2>1. calls[s].h = NodeHistory /\ calls[s].of = filter
    BY <1>9 DEF Loaded, LoadFails, IsLoad, PeriodLoads
  <2>2. calls' = [calls EXCEPT ![s] = NoCall] /\ UNCHANGED <<page, filter>>
    BY <1>9 DEF Loaded, LoadFails, Ends
  <2>3. PeriodLoads'
    BY <1>6, <2>2 DEF PeriodLoads
  <2>4. CASE Loaded(s)
    <3>1. list'.of = filter
      BY <2>1, <2>4, NodeHandlersAre DEF Loaded
    <3> QED
      BY <2>2, <2>3, <3>1 DEF ChartsOfPeriod
  <2>5. CASE LoadFails(s)
    <3>1. error'["page"] = "failed"
      BY <1>3, <2>5 DEF LoadFails, With
    <3> QED
      BY <2>3, <3>1 DEF ChartsOfPeriod
  <2> QED
    BY <1>9, <2>4, <2>5
<1> QED
  BY <1>4, <1>5, <1>7, <1>8, <1>9 DEF System, Arrive

LEMMA PeriodChosen ==
    ASSUME ScreenInv, PeriodLoads, NEW f \in Filters, page = "node", Choose(f, NodeHistory)
    PROVE  PeriodLoads' /\ ChartsOfPeriod'
<1> DEFINE h  == NodeHistory
           cs == [s \in Slots |-> IF h.cancels /\ IsLoad(s) THEN NoCall
                                  ELSE [calls[s] EXCEPT !.alone = FALSE]]
           s  == CHOOSE t \in Free : TRUE
           c  == NewCall(h, Form, f)
<1>1. calls \in [Slots -> Call] /\ LoadFor(h, cs, f, busy)
  BY DEF ScreenInv, CallsInv, TypeOK, Choose
<1>2. \A t \in Slots : LET d == [calls[t] EXCEPT !.alone = FALSE] IN
        d \in Call /\ d.h = calls[t].h /\ d.does = calls[t].does
  BY <1>1 DEF Call
<1>3. NoCall \in Call /\ NoCall.does = "nothing"
  BY NoCallFacts
<1>4. Spins(h) /\ h.cancels /\ h \in Handler
  BY NodeHandlersAre
<1> HIDE DEF h
<1>5. cs \in [Slots -> Call]
  BY <1>2, <1>3
<1>6. \A t \in Slots : cs[t].does # "nothing" =>
         calls[t].does # "load" /\ cs[t].does = calls[t].does /\ cs[t].h = calls[t].h
  BY <1>2, <1>3, <1>4 DEF IsLoad
<1> HIDE DEF cs
<1>7. c \in Call /\ c.h = h /\ c.of = f
  BY <1>4, NewCallFacts DEF Targets
<1>8. s \in Slots /\ StartLoad(cs, s, c, h.wipes) /\ filter' = f /\ page' = page
  BY <1>1 DEF LoadFor, Free
<1> HIDE DEF s, c
<1>9. /\ calls'[s].h = h /\ calls'[s].of = f /\ calls'[s].does = "load"
      /\ \A t \in Slots \ {s} : calls'[t].h = cs[t].h /\ calls'[t].does = cs[t].does
  BY <1>5, <1>7, <1>8, StartLoadFacts
<1>10. loading'
  BY <1>4, <1>7, <1>8 DEF StartLoad
<1>11. \A t \in Slots \ {s} : calls'[t].does # "nothing" =>
          calls'[t].does = "work" /\ calls'[t].h = NodeDetailPower
  BY <1>6, <1>9 DEF PeriodLoads
<1>12. PeriodLoads'
  BY <1>8, <1>9, <1>11 DEF PeriodLoads, h
<1> QED
  BY <1>10, <1>12 DEF ChartsOfPeriod

LEMMA PeriodStep ==
    ASSUME ScreenInv, PeriodLoads, ChartsOfPeriod, [Next]_<<vars, stream>>, page' = page
    PROVE  PeriodLoads' /\ ChartsOfPeriod'
<1> SUFFICES ASSUME page = "node" PROVE PeriodLoads' /\ ChartsOfPeriod'
  BY DEF PeriodLoads, ChartsOfPeriod
<1>1. CASE UNCHANGED vars
  BY <1>1, PeriodGoesOn DEF vars, screen
<1>2. CASE NodePeriod
  BY <1>2, PeriodChosen DEF NodePeriod
<1>3. CASE NodeDetailDialog
  <2>1. CASE Click(NodeDetailPower, Form)
    <3> DEFINE s == CHOOSE t \in Free : TRUE
               c == NewCall(NodeDetailPower, Form, filter)
    <3>1. s \in Slots /\ calls' = [calls EXCEPT ![s] = c] /\ calls \in [Slots -> Call]
          /\ error' = Without({}) /\ UNCHANGED <<page, list, filter, loading>>
      BY <2>1, NodeHandlersAre DEF Click, Begin, Free, ScreenInv, CallsInv, TypeOK
    <3>2. c.h = NodeDetailPower /\ c.does = "work"
      BY DEF NewCall
    <3> HIDE DEF s, c
    <3>3. calls'[s] = c /\ \A t \in Slots \ {s} : calls'[t] = calls[t]
      BY <3>1
    <3>4. error'["page"] = error["page"]
      BY <3>1 DEF Without, Places
    <3>5. \A t \in Slots : \/ calls'[t] = calls[t]
                           \/ calls'[t].does = "work" /\ calls'[t].h = NodeDetailPower
      BY <3>2, <3>3
    <3> QED
      BY <3>1, <3>4, <3>5, PeriodGoesOn
  <2>2. CASE Show("confirm", Form) \/ Hide("confirm")
    BY <2>2, PeriodGoesOn DEF Show, Hide
  <2> QED
    BY <1>3, <2>1, <2>2 DEF NodeDetailDialog
<1>4. CASE System
  BY <1>4, PeriodAnswered
<1> QED
  BY <1>1, <1>2, <1>3, <1>4, NodeSteps

-----------------------------------------------------------------------------
(* The theorems.                                                           *)

LEMMA InitPeriod == ASSUME Init PROVE PeriodLoads /\ ChartsOfPeriod
<1>1. NoCall.does = "nothing"
  BY NoCallFacts
<1>2. list.of = filter
  BY DEF Init
<1>3. ASSUME page = "node" PROVE FirstLoad(page) = NodeHistory
  BY <1>3 DEF FirstLoad
<1> DEFINE first == [NewCall(FirstLoad(page), Form, filter) EXCEPT !.does = "load"]
<1>4. first.does = "load" /\ first.h = FirstLoad(page) /\ first.of = filter
  BY DEF NewCall
<1> HIDE DEF first
<1>5. \A s \in Slots : calls[s] = first \/ calls[s] = NoCall
  BY DEF Init, first
<1>6. PeriodLoads
  BY <1>1, <1>3, <1>4, <1>5 DEF PeriodLoads
<1> QED
  BY <1>2, <1>6 DEF ChartsOfPeriod

\* The invariant of the pages: what is busy, hidden, current or to be shown is so
\* because of the handlers that are under way.
THEOREM PagesInvariant == Spec => []PagesInv
<1>1. Init => PagesInv /\ ChartsOfPeriod
  BY InitScreen, InitPeriod DEF PagesInv
<1>2. PagesInv /\ ChartsOfPeriod /\ [Next]_<<vars, stream>> => (PagesInv /\ ChartsOfPeriod)'
  BY PageStep, PeriodStep DEF PagesInv
<1> QED
  BY <1>1, <1>2, PTL DEF Spec

\* The view of a node shows charts of the period that is chosen, or spins, or has
\* failed: the load that was under way for another period was dropped.
THEOREM ViewShowsItsPeriod == Spec => []ChartsOfPeriod
<1>1. Init => PagesInv /\ ChartsOfPeriod
  BY InitScreen, InitPeriod DEF PagesInv
<1>2. PagesInv /\ ChartsOfPeriod /\ [Next]_<<vars, stream>> => (PagesInv /\ ChartsOfPeriod)'
  BY PageStep, PeriodStep DEF PagesInv
<1> QED
  BY <1>1, <1>2, PTL DEF Spec

\* What was fetched for a dialog is there only while the dialog is open: an answer
\* that comes when its modal has gone finds nobody (Fetched).
THEOREM DraftsAreShown == Spec => []DraftBelongs
<1>1. PagesInv => DraftBelongs
  BY DEF PagesInv, ScreenInv, Fetched, Shown, DraftBelongs
<1> QED
  BY <1>1, PagesInvariant, PTL

\* A page that is not loading shows what was done on it (Current, where nothing
\* is under way that loads).
THEOREM PagesShowTheirWrites == Spec => []ReadsOwnWrites
<1>1. PagesInv => ReadsOwnWrites
  BY DEF PagesInv, ScreenInv, CallsInv, Current, ReadsOwnWrites
<1> QED
  BY <1>1, PagesInvariant, PTL

\* handleDelete of Secrets and ConfigMaps: a row of a list that was loaded by a
\* call that overlapped no other, with no failed load since, is deleted in the
\* namespace that the list is of; while that of another one loads, the spinner
\* hides the rows (Hidden).  Nothing is said of the other lists.
THEOREM SureListsAreActedOn == Spec => NamesOfSureList
<1>1. PagesInv /\ [Next]_<<vars, stream>> => [ActsOnSureList]_vars
  BY PageStep DEF PagesInv
<1> QED
  BY <1>1, PagesInvariant, PTL DEF Spec, NamesOfSureList

-----------------------------------------------------------------------------
(* The views of streams.                                                   *)

\* Where a view has a connection, the lines are of that one; and a page that is
\* no such view claims none.
StreamInv ==
    /\ StreamTypeOK
    /\ OneStream
    /\ current # NoSocket => shown \subseteq {current}
    /\ connected => page \in Views

LEMMA ClosingFacts ==
    ASSUME StreamInv
    PROVE  /\ Closing \in [Sockets -> States]
           /\ \A s \in Sockets : Closing[s] \notin {"connecting", "open"}
  BY DEF StreamInv, StreamTypeOK, OneStream, Closing, States

LEMMA ReopenKeeps ==
    ASSUME StreamInv, Reopen, mounted, mounted' = mounted, page' = page, page \in Views,
           connected' \in BOOLEAN, connecting' \in BOOLEAN, page = "logs" \/ ~connected'
    PROVE  StreamInv'
<1> DEFINE s == CHOOSE t \in Fresh : TRUE
<1>1. s \in Sockets /\ at' = [Closing EXCEPT ![s] = "connecting"] /\ current' = s
      /\ shown' = {} /\ broken' = FALSE
  BY DEF Reopen, Fresh
<1> HIDE DEF s
<1>2. at' \in [Sockets -> States] /\ \A t \in Sockets : at'[t] \in {"connecting", "open"} => t = s
  BY <1>1, ClosingFacts DEF States
<1> QED
  BY <1>1, <1>2 DEF StreamInv, StreamTypeOK, OneStream

LEMMA StreamStep == ASSUME StreamInv, StreamNext, UNCHANGED vars PROVE StreamInv'
<1> USE DEF StreamInv, StreamTypeOK
<1>1. page' = page /\ page \in Views
  BY DEF vars, StreamNext
<1>2. CASE Connect
  BY <1>1, <1>2, ReopenKeeps DEF Connect
<1>3. CASE Reconnect
  BY <1>1, <1>3, ReopenKeeps DEF Reconnect
<1>4. CASE Disconnect
  BY <1>1, <1>4, ClosingFacts DEF Disconnect, OneStream
<1>5. CASE Clear
  BY <1>1, <1>5 DEF Clear, OneStream
<1>6. CASE Leave
  BY <1>1, <1>6, ClosingFacts DEF Leave, OneStream
<1>7. ASSUME NEW s \in Sockets, Opened(s) PROVE StreamInv'
  BY <1>1, <1>7, SocketsAssumption DEF Opened, OneStream, Shows, States
<1>8. ASSUME NEW s \in Sockets, Message(s) PROVE StreamInv'
  BY <1>1, <1>8, SocketsAssumption DEF Message, OneStream
<1>9. ASSUME NEW s \in Sockets, Lost(s) PROVE StreamInv'
  BY <1>1, <1>9, SocketsAssumption DEF Lost, OneStream, States
<1>10. ASSUME NEW s \in Sockets, Errored(s) PROVE StreamInv'
  BY <1>1, <1>10, SocketsAssumption DEF Errored, OneStream, Shows, States
<1>11. ASSUME NEW s \in Sockets, Ended(s) PROVE StreamInv'
  BY <1>1, <1>11, SocketsAssumption DEF Ended, OneStream, Shows, States
<1> QED
  BY <1>2, <1>3, <1>4, <1>5, <1>6, <1>7, <1>8, <1>9, <1>10, <1>11 DEF StreamNext, StreamEvent

\* A view has one connection, and the lines of one.
THEOREM ViewsHaveOneStream == Spec => []OneStream
<1>1. Init => StreamInv
  BY SocketsAssumption DEF Init, StreamInit, StreamInv, StreamTypeOK, OneStream, States
<1>2. StreamInv /\ [Next]_<<vars, stream>> => StreamInv'
  <2> SUFFICES ASSUME StreamInv, [Next]_<<vars, stream>> PROVE StreamInv'
    OBVIOUS
  <2>1. CASE StreamNext /\ UNCHANGED vars
    BY <2>1, StreamStep
  <2>2. CASE page \notin Views /\ UNCHANGED stream
    BY <2>2 DEF StreamInv, StreamTypeOK, OneStream, stream
  <2>3. CASE UNCHANGED <<vars, stream>>
    BY <2>3 DEF StreamInv, StreamTypeOK, OneStream, stream, vars
  <2> QED
    BY <2>1, <2>2, <2>3 DEF Next
<1>3. StreamInv => OneStream
  BY DEF StreamInv
<1> QED
  BY <1>1, <1>2, <1>3, PTL DEF Spec
=============================================================================
