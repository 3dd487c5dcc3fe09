----------------------------- MODULE RulesProofs -----------------------------
(***************************************************************************)
(* Proofs about AlertRules.  Whatever overlaps and whatever fails, no      *)
(* commit of origin/master is taken away.  While edits and builds take     *)
(* turns, the clone, the working tree and origin/master implement          *)
(* RuleBook, and a success is answered once Prometheus was started on the  *)
(* published book.                                                         *)
(***************************************************************************)
EXTENDS AlertRules, SequenceTheorems, FiniteSetTheorems, TLAPS

Request == [pc: Steps, book: Books, reply: Reply]

-----------------------------------------------------------------------------
(* The inductive invariant.                                                *)

\* One request or one build is under way.
OneAtATime ==
    /\ \A e, f \in Editing : e = f
    /\ Building => Editing = {}

\* How far a request is, and what it was answered: a success has been published,
\* and only it and a failure may have been.
Answered(e) ==
    /\ At(e, "idle") <=> edit[e].op = "none"
    /\ ~At(e, "idle") => edit[e] \in Wanted
    /\ At(e, "idle") => ed[e].reply = "none"
    /\ At(e, "done") => ed[e].reply # "none"
    /\ ed[e].reply \in {"ok", "refused"} => At(e, "done")
    /\ ed[e].reply = "ok" => e \in published
    /\ ed[e].reply = "refused" => e \notin published
    /\ e \in published => ed[e].pc \in {"recreate", "done"}

\* What a request has made of the clone: its edit is of the book HEAD was reset
\* to, and nothing else is in the tree or ahead of that book.
Prepared(e) ==
    /\ e \in Editing /\ ~At(e, "chown") => ~rootOwned
    /\ ed[e].pc \in {"read", "write", "commit"} => ahead = <<>>
    /\ ed[e].pc \in {"read", "write"} => tree = origin[base]
    /\ ed[e].pc \in {"write", "commit", "push"} =>
          Applies(edit[e], origin[base]) /\ ed[e].book = Edited(edit[e], origin[base])
    /\ ed[e].pc \in {"commit", "push"} => tree = ed[e].book
    /\ At(e, "push") => ahead = <<[by |-> e, book |-> ed[e].book]>>
    /\ At(e, "recreate") =>
          e \in published /\ tree = origin[base] /\ tree[edit[e].rule] = edit[e].body

RulesInv ==
    /\ TypeOK
    /\ OneAtATime
    /\ \A e \in Editors : Answered(e) /\ Prepared(e)

-----------------------------------------------------------------------------
(* Types.                                                                  *)

LEMMA OriginTypes ==
    ASSUME TypeOK
    PROVE  /\ Len(origin) \in Nat \ {0} /\ DOMAIN origin = 1 .. Len(origin)
           /\ Len(origin) \in DOMAIN origin
           /\ \A i \in DOMAIN origin : origin[i] \in Books
           /\ Tip \in Books
<1>1. /\ Len(origin) \in Nat /\ DOMAIN origin = 1 .. Len(origin)
      /\ \A i \in DOMAIN origin : origin[i] \in Books
  BY LenProperties DEF TypeOK
<1>2. base \in 1 .. Len(origin)
  BY <1>1 DEF TypeOK
<1> QED
  BY <1>1, <1>2 DEF Tip

\* The request e after a step: the others are where they were.
Moved(e, pc, book, reply) ==
    /\ ed' \in [Editors -> Request]
    /\ \A f \in Editors \ {e} : ed'[f] = ed[f]
    /\ ed'[e].pc = pc /\ ed'[e].book = book /\ ed'[e].reply = reply

LEMMA Changes ==
    ASSUME TypeOK, NEW e \in Editors, NEW p \in Steps, NEW b \in Books, NEW a \in Reply
    PROVE  /\ ed' = [ed EXCEPT ![e] = [@ EXCEPT !.pc = p, !.reply = a]] => Moved(e, p, ed[e].book, a)
           /\ ed' = [ed EXCEPT ![e] = [@ EXCEPT !.pc = p, !.book = b]] => Moved(e, p, b, ed[e].reply)
           /\ ed' = [ed EXCEPT ![e] = [@ EXCEPT !.pc = p]] => Moved(e, p, ed[e].book, ed[e].reply)
           /\ ed' = [ed EXCEPT ![e] = [@ EXCEPT !.reply = a]] => Moved(e, ed[e].pc, ed[e].book, a)
<1>1. ed \in [Editors -> Request] /\ ed[e] \in Request
  BY DEF TypeOK, Request
<1>2. ASSUME NEW r \in Request, ed' = [ed EXCEPT ![e] = r]
      PROVE  Moved(e, r.pc, r.book, r.reply)
  BY <1>1, <1>2 DEF Moved
<1>3. ASSUME NEW r \in Request
      PROVE  /\ LET m == [r EXCEPT !.pc = p, !.reply = a]
                IN  m \in Request /\ m.pc = p /\ m.book = r.book /\ m.reply = a
             /\ LET m == [r EXCEPT !.pc = p, !.book = b]
                IN  m \in Request /\ m.pc = p /\ m.book = b /\ m.reply = r.reply
             /\ LET m == [r EXCEPT !.pc = p]
                IN  m \in Request /\ m.pc = p /\ m.book = r.book /\ m.reply = r.reply
             /\ LET m == [r EXCEPT !.reply = a]
                IN  m \in Request /\ m.pc = r.pc /\ m.book = r.book /\ m.reply = a
  BY DEF Request
<1> DEFINE m1 == [ed[e] EXCEPT !.pc = p, !.reply = a]
           m2 == [ed[e] EXCEPT !.pc = p, !.book = b]
           m3 == [ed[e] EXCEPT !.pc = p]
           m4 == [ed[e] EXCEPT !.reply = a]
<1>4. /\ m1 \in Request /\ m1.pc = p /\ m1.book = ed[e].book /\ m1.reply = a
      /\ m2 \in Request /\ m2.pc = p /\ m2.book = b /\ m2.reply = ed[e].reply
      /\ m3 \in Request /\ m3.pc = p /\ m3.book = ed[e].book /\ m3.reply = ed[e].reply
      /\ m4 \in Request /\ m4.pc = ed[e].pc /\ m4.book = ed[e].book /\ m4.reply = a
  BY <1>1, <1>3
<1>5. /\ ed' = [ed EXCEPT ![e] = m1] => Moved(e, p, ed[e].book, a)
      /\ ed' = [ed EXCEPT ![e] = m2] => Moved(e, p, b, ed[e].reply)
      /\ ed' = [ed EXCEPT ![e] = m3] => Moved(e, p, ed[e].book, ed[e].reply)
      /\ ed' = [ed EXCEPT ![e] = m4] => Moved(e, ed[e].pc, ed[e].book, a)
  <2> HIDE DEF m1, m2, m3, m4
  <2> QED
    BY <1>2, <1>4
<1> QED
  BY <1>5, Zenon

\* Where Advance takes a request, and with which answer.
Onward(e)  == IF ed[e].reply = "none" \/ ed[e].pc \in {"fetch", "commit"} THEN Follows(e) ELSE "done"
Outcome(e) == IF ed[e].reply = "none" /\ At(e, "recreate") THEN "ok" ELSE ed[e].reply
Kept(e, answer) == IF ed[e].reply = "none" THEN answer ELSE ed[e].reply

LEMMA RequestSteps ==
    ASSUME TypeOK, NEW e \in Editors
    PROVE  /\ Advance(e) => Moved(e, Onward(e), ed[e].book, Outcome(e))
           /\ \A answer \in Reply : Finish(e, answer) => Moved(e, "done", ed[e].book, Kept(e, answer))
<1>0. ed[e].book \in Books
  BY DEF TypeOK
<1>1. /\ Onward(e) \in Steps /\ Outcome(e) \in Reply
      /\ \A answer \in Reply : Kept(e, answer) \in Reply
      /\ "done" \in Steps
  BY DEF TypeOK, Onward, Outcome, Kept, Follows, Steps, Reply
<1>2. Advance(e) => ed' = [ed EXCEPT ![e] = [@ EXCEPT !.pc = Onward(e), !.reply = Outcome(e)]]
  BY Zenon DEF Advance, At, Onward, Outcome
<1>3. ASSUME NEW answer \in Reply, Finish(e, answer)
      PROVE  ed' = [ed EXCEPT ![e] = [@ EXCEPT !.pc = "done", !.reply = Kept(e, answer)]]
  BY <1>3, Zenon DEF Finish, Kept
<1>4. Advance(e) => Moved(e, Onward(e), ed[e].book, Outcome(e))
  BY <1>0, <1>1, <1>2, Changes, Zenon
<1>5. ASSUME NEW answer \in Reply, Finish(e, answer)
      PROVE  Moved(e, "done", ed[e].book, Kept(e, answer))
  BY <1>0, <1>1, <1>3, <1>5, Changes, Zenon
<1> QED
  BY <1>4, <1>5

\* What may be asked for is an edit, and does something.
LEMMA AskedFor ==
    \A w \in Asks :
        w \in Wanted /\ w \in Edit /\ w.op # "none" /\ (w.op = "delete" => w.body = 0)
<1>1. 0 \in Bodies /\ \A w \in Asks : w \in Wanted
  BY ConstantAssumption DEF Bodies
<1>2. ASSUME NEW w \in [op: {"create", "update"}, rule: Rules, body: Bodies \ {0}]
      PROVE  w \in Edit /\ w.op # "none" /\ w.op # "delete"
  BY <1>2 DEF Edit
<1>3. ASSUME NEW w \in [op: {"delete"}, rule: Rules, body: {0}]
      PROVE  w \in Edit /\ w.op # "none" /\ w.body = 0
  BY <1>1, <1>3 DEF Edit
<1> QED
  BY <1>1, <1>2, <1>3 DEF Wanted

LEMMA EditedTypes ==
    ASSUME NEW w \in Edit, NEW b \in Books
    PROVE  /\ Edited(w, b) \in Books
           /\ Edited(w, b)[w.rule] = IF w.op = "delete" THEN 0 ELSE w.body
<1>1. w.rule \in Rules /\ w.body \in Bodies /\ 0 \in Bodies /\ b \in [Rules -> Bodies]
  BY ConstantAssumption DEF Edit, Bodies, Books
<1>2. (IF w.op = "delete" THEN 0 ELSE w.body) \in Bodies
  BY <1>1
<1> QED
  BY <1>1, <1>2 DEF Edited, Books

\* What a push of the local commits makes of origin.
LEMMA PushTypes ==
    ASSUME TypeOK, NEW e \in Editors, Push(e)
    PROVE  /\ origin' \in Seq(Books) /\ Len(origin') = Len(origin) + Len(ahead) /\ Len(ahead) \in Nat
           /\ \A i \in DOMAIN origin : origin'[i] = origin[i]
           /\ \A i \in 1 .. Len(ahead) : origin'[Len(origin) + i] = ahead[i].book
           /\ base' \in DOMAIN origin' /\ DOMAIN origin \subseteq DOMAIN origin'
           /\ published' \subseteq Editors
<1> DEFINE new == [i \in DOMAIN ahead |-> ahead[i].book]
<1>1. Len(ahead) \in Nat /\ DOMAIN ahead = 1 .. Len(ahead) /\ \A i \in DOMAIN ahead : ahead[i] \in LocalCommit
  BY LenProperties DEF TypeOK
<1>2. \A i \in DOMAIN ahead : ahead[i].book \in Books /\ ahead[i].by \in Editors
  BY <1>1 DEF LocalCommit
<1>3. new \in Seq(Books) /\ Len(new) = Len(ahead)
  BY <1>1, <1>2
<1>4. \A i \in 1 .. Len(ahead) : new[i] = ahead[i].book
  BY <1>1
<1>5. origin' = origin \o new /\ base = Len(origin) /\ base' = base + Len(ahead)
      /\ published' = published \union {ahead[i].by : i \in DOMAIN ahead}
  BY DEF Push
<1> HIDE DEF new
<1>6. /\ origin' \in Seq(Books) /\ Len(origin') = Len(origin) + Len(ahead)
      /\ \A i \in 1 .. Len(origin) : origin'[i] = origin[i]
      /\ \A i \in 1 .. Len(origin) + Len(ahead) : i > Len(origin) => origin'[i] = new[i - Len(origin)]
  <2>1. origin \in Seq(Books) /\ Len(origin) \in Nat
    BY OriginTypes DEF TypeOK
  <2> QED
    BY <1>1, <1>3, <1>5, <2>1, ConcatProperties
<1>7. DOMAIN origin' = 1 .. Len(origin) + Len(ahead)
  BY <1>6, LenProperties
<1>8. published' \subseteq Editors
  BY <1>2, <1>5 DEF TypeOK
<1>9. \A i \in 1 .. Len(ahead) : origin'[Len(origin) + i] = ahead[i].book
  BY <1>1, <1>4, <1>6, OriginTypes
<1> QED
  BY <1>1, <1>5, <1>6, <1>7, <1>8, <1>9, OriginTypes

LEMMA DevPushTypes ==
    ASSUME TypeOK, NEW b \in Drafts, DevPush(b)
    PROVE  /\ origin' \in Seq(Books) /\ Len(origin') = Len(origin) + 1
           /\ \A i \in DOMAIN origin : origin'[i] = origin[i]
           /\ DOMAIN origin \subseteq DOMAIN origin' /\ Tip' = b
<1>1. b \in Books /\ origin' = Append(origin, b) /\ origin \in Seq(Books)
  BY ConstantAssumption DEF DevPush, TypeOK
<1> QED
  BY <1>1, AppendProperties, LenProperties, OriginTypes DEF Tip

LEMMA ReadMoves ==
    ASSUME TypeOK, NEW e \in Editors, Read(e)
    PROVE  \/ /\ Applies(edit[e], tree) /\ Edited(edit[e], tree) \in Books
              /\ Moved(e, "write", Edited(edit[e], tree), ed[e].reply)
           \/ Moved(e, "done", ed[e].book, Kept(e, "refused"))
<1>1. CASE Finish(e, "refused")
  BY <1>1, RequestSteps DEF Reply
<1>2. CASE Applies(edit[e], tree) /\ ed' = [ed EXCEPT ![e].pc = "write", ![e].book = Edited(edit[e], tree)]
  <2>1. Edited(edit[e], tree) \in Books /\ "write" \in Steps /\ "none" \in Reply
    BY EditedTypes DEF TypeOK, Steps, Reply
  <2>2. ed' = [ed EXCEPT ![e] = [@ EXCEPT !.pc = "write", !.book = Edited(edit[e], tree)]]
    BY <1>2, Zenon
  <2> QED
    BY <1>2, <2>1, <2>2, Changes
<1> QED
  BY <1>1, <1>2 DEF Read

LEMMA TimeoutMoves ==
    ASSUME TypeOK, NEW e \in Editors, TimesOut(e)
    PROVE  Moved(e, ed[e].pc, ed[e].book, "failed")
<1>1. ed' = [ed EXCEPT ![e] = [@ EXCEPT !.reply = "failed"]]
  BY Zenon DEF TimesOut
<1>2. "failed" \in Reply /\ "done" \in Steps /\ ed[e].book \in Books
  BY DEF TypeOK, Reply, Steps
<1> QED
  BY <1>1, <1>2, Changes, Zenon

\* Who is being served is lost to a crash, the others are not touched by it.
LEMMA CrashMoves ==
    ASSUME TypeOK, Crash
    PROVE  /\ ed' \in [Editors -> Request]
           /\ \A f \in Editors :
                 IF f \in Editing /\ ed[f].reply = "none"
                   THEN /\ ed'[f].reply = "lost" /\ ed'[f].book = ed[f].book
                        /\ ed'[f].pc = IF At(f, "read") THEN "done" ELSE ed[f].pc
                   ELSE ed'[f] = ed[f]
<1>1. \A f \in Editors : ed[f] \in Request
  BY DEF TypeOK, Request
<1>2. ASSUME NEW r \in Request
      PROVE  LET m == [r EXCEPT !.reply = "lost", !.pc = IF @ = "read" THEN "done" ELSE @]
             IN  /\ m \in Request /\ m.reply = "lost" /\ m.book = r.book
                 /\ m.pc = IF r.pc = "read" THEN "done" ELSE r.pc
  BY DEF Request, Steps, Reply
<1>3. ASSUME NEW f \in Editors
      PROVE  /\ ed'[f] \in Request
             /\ IF f \in Editing /\ ed[f].reply = "none"
                  THEN /\ ed'[f].reply = "lost" /\ ed'[f].book = ed[f].book
                       /\ ed'[f].pc = IF At(f, "read") THEN "done" ELSE ed[f].pc
                  ELSE ed'[f] = ed[f]
  <2> DEFINE m == [ed[f] EXCEPT !.reply = "lost", !.pc = IF @ = "read" THEN "done" ELSE @]
  <2>1. /\ m \in Request /\ m.reply = "lost" /\ m.book = ed[f].book
        /\ m.pc = IF ed[f].pc = "read" THEN "done" ELSE ed[f].pc
    BY <1>1, <1>2
  <2>2. ed'[f] = IF f \in Editing /\ ed[f].reply = "none" THEN m ELSE ed[f]
    BY DEF Crash
  <2> HIDE DEF m
  <2> QED
    BY <1>1, <2>1, <2>2 DEF At
<1>4. ed' \in [Editors -> Request]
  BY <1>3 DEF Crash
<1> QED
  BY <1>3, <1>4

LEMMA ServeTypes ==
    ASSUME TypeOK, NEW e \in Editors, Serve(e)
    PROVE  ed' \in [Editors -> Request] /\ UNCHANGED <<edit, build, pushes>>
<1>1. CASE Chown(e) \/ Fetch(e) \/ Reset(e) \/ Write(e) \/ GitCommit(e) \/ Push(e) \/ Recreate(e)
  <2>1. Advance(e) /\ UNCHANGED <<edit, build, pushes>>
    BY <1>1 DEF Chown, Fetch, Reset, Write, GitCommit, Push, Recreate
  <2> QED
    BY <2>1, RequestSteps DEF Moved
<1>2. CASE CommandFails(e)
  BY <1>2, RequestSteps DEF CommandFails, Reply, Moved
<1>3. CASE Read(e)
  BY <1>3, ReadMoves DEF Read, Moved
<1>4. CASE TimesOut(e)
  BY <1>4, TimeoutMoves DEF TimesOut, Moved
<1> QED
  BY <1>1, <1>2, <1>3, <1>4 DEF Serve

LEMMA ServeMoves ==
    ASSUME TypeOK, NEW e \in Editors, Serve(e)
    PROVE  /\ \A f \in Editors \ {e} : ed'[f] = ed[f]
           /\ ed'[e].pc # "idle"
<1> USE DEF Moved
<1>1. CASE Chown(e) \/ Fetch(e) \/ Reset(e) \/ Write(e) \/ GitCommit(e) \/ Push(e) \/ Recreate(e)
  <2>1. Advance(e)
    BY <1>1 DEF Chown, Fetch, Reset, Write, GitCommit, Push, Recreate
  <2>2. Onward(e) # "idle"
    BY DEF Onward, Follows
  <2> QED
    BY <2>1, <2>2, RequestSteps
<1>2. CASE CommandFails(e)
  BY <1>2, RequestSteps DEF CommandFails, Reply
<1>3. CASE Read(e)
  BY <1>3, ReadMoves DEF Reply
<1>4. CASE TimesOut(e)
  <2>1. ed[e].pc # "idle"
    BY <1>4 DEF TimesOut, Editing
  <2> QED
    BY <1>4, <2>1, TimeoutMoves
<1> QED
  BY <1>1, <1>2, <1>3, <1>4 DEF Serve

\* The clone and the history of origin after a step: positions stay positions,
\* and what is at them stays.
LEMMA OriginStep ==
    ASSUME TypeOK, [Next]_vars
    PROVE  /\ origin' \in Seq(Books)
           /\ DOMAIN origin \subseteq DOMAIN origin'
           /\ \A i \in DOMAIN origin : origin'[i] = origin[i]
<1>1. CASE UNCHANGED origin
  BY <1>1 DEF TypeOK
<1>2. ASSUME NEW e \in Editors, Push(e)
      PROVE  /\ origin' \in Seq(Books)
             /\ DOMAIN origin \subseteq DOMAIN origin'
             /\ \A i \in DOMAIN origin : origin'[i] = origin[i]
  BY <1>2, PushTypes
<1>3. ASSUME NEW b \in Drafts, DevPush(b)
      PROVE  /\ origin' \in Seq(Books)
             /\ DOMAIN origin \subseteq DOMAIN origin'
             /\ \A i \in DOMAIN origin : origin'[i] = origin[i]
  BY <1>3, DevPushTypes
<1>4. UNCHANGED origin \/ (\E e \in Editors : Push(e)) \/ (\E b \in Drafts : DevPush(b))
  <2>1. ASSUME NEW e \in Editors, Serve(e) PROVE UNCHANGED origin \/ Push(e)
    BY <2>1 DEF Serve, Chown, Fetch, Reset, Read, Write, GitCommit, Recreate, CommandFails, TimesOut
  <2>2. ASSUME NEW e \in Editors, NEW w \in Asks, Ask(e, w) PROVE UNCHANGED origin
    BY <2>2 DEF Ask
  <2>3. CASE Crash \/ Checkout \/ Sync \/ Deploy \/ Restart \/ Succeed \/ BuildFails \/ UNCHANGED vars
    BY <2>3 DEF Crash, Checkout, Sync, Deploy, Restart, Succeed, BuildFails, vars
  <2> QED
    BY <2>1, <2>2, <2>3 DEF Next
<1> QED
  BY <1>1, <1>2, <1>3, <1>4

LEMMA CloneTypes ==
    ASSUME TypeOK, NEW e \in Editors, Serve(e)
    PROVE  /\ base' \in DOMAIN origin' /\ tracking' \in DOMAIN origin'
           /\ ahead' \in Seq(LocalCommit)
           /\ tree' \in Books /\ prom' \in Books /\ rootOwned' \in BOOLEAN
           /\ published' \subseteq Editors
<1>1. Serve(e) => Next
  BY DEF Next
<1>2. /\ DOMAIN origin \subseteq DOMAIN origin'
      /\ base \in DOMAIN origin /\ tracking \in DOMAIN origin /\ Len(origin) \in DOMAIN origin
      /\ \A i \in DOMAIN origin : origin[i] \in Books
      /\ ahead \in Seq(LocalCommit) /\ tree \in Books /\ prom \in Books /\ rootOwned \in BOOLEAN
      /\ published \subseteq Editors /\ ed[e].book \in Books
  BY <1>1, OriginStep, OriginTypes DEF TypeOK
<1>3. CASE Chown(e)
  BY <1>2, <1>3 DEF Chown
<1>4. CASE Fetch(e)
  BY <1>2, <1>4 DEF Fetch
<1>5. CASE Reset(e)
  <2>1. <<>> \in Seq(LocalCommit)
    BY EmptySeq
  <2> QED
    BY <1>2, <1>5, <2>1 DEF Reset
<1>6. CASE Read(e) \/ CommandFails(e) \/ TimesOut(e)
  BY <1>2, <1>6 DEF Read, CommandFails, TimesOut, clone
<1>7. CASE Write(e)
  BY <1>2, <1>7 DEF Write
<1>8. CASE GitCommit(e)
  <2>1. [by |-> e, book |-> tree] \in LocalCommit
    BY <1>2 DEF LocalCommit
  <2>2. Append(ahead, [by |-> e, book |-> tree]) \in Seq(LocalCommit)
    BY <1>2, <2>1, AppendProperties
  <2>3. ahead' = Append(ahead, [by |-> e, book |-> tree])
    BY <1>8 DEF GitCommit
  <2>4. UNCHANGED <<origin, tracking, base, tree, rootOwned, prom, published>>
    BY <1>8 DEF GitCommit
  <2> QED
    BY <1>2, <2>2, <2>3, <2>4
<1>9. CASE Push(e)
  <2>1. <<>> \in Seq(LocalCommit) /\ base' \in DOMAIN origin' /\ published' \subseteq Editors
    BY <1>9, EmptySeq, PushTypes
  <2>2. ahead' = <<>> /\ UNCHANGED <<tracking, tree, rootOwned, prom>>
    BY <1>9 DEF Push
  <2> QED
    BY <1>2, <2>1, <2>2
<1>10. CASE Recreate(e)
  BY <1>2, <1>10 DEF Recreate, clone
<1> QED
  BY <1>3, <1>4, <1>5, <1>6, <1>7, <1>8, <1>9, <1>10 DEF Serve

\* A build has its position, and the flag, whatever is recorded of it.
LEMMA BuildTypes ==
    ASSUME TypeOK, Checkout \/ Sync \/ Deploy \/ Restart \/ Succeed \/ BuildFails
    PROVE  build' \in [pc: {"idle", "sync", "test", "after"}, changed: BOOLEAN,
                       src: DOMAIN origin, good: DOMAIN origin]
<1>1. /\ Len(origin) \in DOMAIN origin
      /\ build \in [pc: {"idle", "sync", "test", "after"}, changed: BOOLEAN,
                    src: DOMAIN origin, good: DOMAIN origin]
  BY OriginTypes DEF TypeOK
<1> HIDE DEF TypeOK
<1>2. CASE Checkout
  <2>1. (origin[build.good] # Tip) \in BOOLEAN
    OBVIOUS
  <2> QED
    BY <1>1, <1>2, <2>1 DEF Checkout
<1>3. CASE Sync \/ Deploy \/ Restart \/ Succeed \/ BuildFails
  BY <1>1, <1>3 DEF Sync, Deploy, Restart, Succeed, BuildFails
<1> QED
  BY <1>2, <1>3

LEMMA TypesStep ==
    ASSUME TypeOK, [Next]_vars
    PROVE  TypeOK'
<1> DEFINE B(D) == [pc: {"idle", "sync", "test", "after"}, changed: BOOLEAN, src: D, good: D]
<1>1. /\ origin' \in Seq(Books) /\ DOMAIN origin \subseteq DOMAIN origin'
      /\ base \in DOMAIN origin' /\ tracking \in DOMAIN origin'
      /\ B(DOMAIN origin) \subseteq B(DOMAIN origin')
  BY OriginStep DEF TypeOK
<1>2. ASSUME NEW e \in Editors, Serve(e)
      PROVE  TypeOK'
  <2>1. /\ ed' \in [Editors -> Request] /\ UNCHANGED <<edit, build, pushes>>
    BY <1>2, ServeTypes
  <2>2. build' \in B(DOMAIN origin')
    BY <1>1, <2>1 DEF TypeOK
  <2> HIDE DEF B
  <2> QED
    BY <1>1, <1>2, <2>1, <2>2, CloneTypes DEF TypeOK, Request, B
<1>3. ASSUME NEW e \in Editors, NEW w \in Asks, Ask(e, w)
      PROVE  TypeOK'
  <2>1. ed' = [ed EXCEPT ![e] = [@ EXCEPT !.pc = "chown"]]
    BY <1>3, Zenon DEF Ask
  <2>2. "chown" \in Steps /\ "none" \in Reply /\ ed[e].book \in Books
    BY DEF Steps, Reply, TypeOK
  <2>3. ed' \in [Editors -> Request]
    BY <2>1, <2>2, Changes, Zenon DEF Moved
  <2>4. w \in Edit
    BY AskedFor
  <2>5. edit' \in [Editors -> Edit] /\ UNCHANGED <<origin, clone, prom, published, build, pushes>>
    BY <1>3, <2>4 DEF Ask, TypeOK
  <2> QED
    BY <2>3, <2>5 DEF TypeOK, Request, clone
<1>4. CASE Crash
  <2>1. ed' \in [Editors -> Request]
    BY <1>4, CrashMoves
  <2>2. UNCHANGED <<origin, clone, prom, edit, published, build, pushes>>
    BY <1>4 DEF Crash
  <2> QED
    BY <2>1, <2>2 DEF TypeOK, Request, clone
<1>5. ASSUME NEW b \in Drafts, DevPush(b)
      PROVE  TypeOK'
  <2>1. pushes' \in 0 .. MaxPushes /\ UNCHANGED <<clone, prom, edit, ed, published, build>>
    BY <1>5, ConstantAssumption DEF DevPush, TypeOK
  <2>2. build' \in B(DOMAIN origin')
    BY <1>1, <2>1 DEF TypeOK
  <2> QED
    BY <1>1, <2>1, <2>2 DEF TypeOK, clone
<1>6. CASE Checkout \/ Sync \/ Deploy \/ Restart \/ Succeed \/ BuildFails
  <2>1. /\ UNCHANGED <<origin, tracking, base, ahead, edit, ed, published, pushes>>
        /\ tree' \in Books /\ prom' \in Books /\ rootOwned' \in BOOLEAN
    BY <1>6, OriginTypes DEF Checkout, Sync, Deploy, Restart, Succeed, BuildFails, TypeOK, clone
  <2>2. build' \in B(DOMAIN origin)
    BY <1>6, BuildTypes
  <2> HIDE DEF B
  <2> QED
    BY <2>1, <2>2 DEF TypeOK, B
<1>7. CASE UNCHANGED vars
  BY <1>7 DEF vars, clone, TypeOK
<1> QED
  BY <1>2, <1>3, <1>4, <1>5, <1>6, <1>7 DEF Next

LEMMA InitTypes == Init => TypeOK
<1> SUFFICES ASSUME NEW b \in Drafts,
                    /\ origin = <<b>> /\ tree = b /\ prom = b
                    /\ base = 1 /\ tracking = 1 /\ ahead = <<>>
                    /\ rootOwned = TRUE /\ published = {} /\ pushes = 0
                    /\ edit = [e \in Editors |-> [op |-> "none", rule |-> CHOOSE r \in Rules : TRUE,
                                                  body |-> 0]]
                    /\ ed = [e \in Editors |-> [pc |-> "idle", book |-> b, reply |-> "none"]]
                    /\ build = [pc |-> "idle", changed |-> FALSE, src |-> 1, good |-> 1]
             PROVE  TypeOK
  BY DEF Init
<1>1. b \in Books /\ (CHOOSE r \in Rules : TRUE) \in Rules /\ 0 \in Bodies /\ 0 \in 0 .. MaxPushes
  BY ConstantAssumption DEF Bodies
<1>2. origin \in Seq(Books) /\ DOMAIN origin = {1} /\ ahead \in Seq(LocalCommit)
  <2>1. <<b>> \in Seq(Books) /\ DOMAIN <<b>> = {1}
    BY <1>1
  <2> QED
    BY <2>1, EmptySeq
<1>3. edit \in [Editors -> Edit]
  BY <1>1 DEF Edit
<1>4. ed \in [Editors -> [pc: Steps, book: Books, reply: Reply]]
  BY <1>1 DEF Steps, Reply
<1> QED
  BY <1>1, <1>2, <1>3, <1>4 DEF TypeOK

-----------------------------------------------------------------------------
(* Whatever overlaps and whatever fails.                                   *)

\* However edits, builds and pushes overlap, the types hold: no position of the
\* clone or of a build is beyond the history of origin.
THEOREM TypeCorrect == Spec => []TypeOK
  BY InitTypes, TypesStep, PTL DEF Spec

\* git push of the service is a fast-forward: what is once in origin/master, of
\* the page or of a developer, stays, at its place.
NoneTakenAway ==
    /\ DOMAIN origin \subseteq DOMAIN origin'
    /\ \A i \in DOMAIN origin : origin'[i] = origin[i]

THEOREM CommitsKept == Spec => [][NoneTakenAway]_vars
<1>1. TypeOK /\ [Next]_vars => [NoneTakenAway]_vars
  BY OriginStep DEF NoneTakenAway
<1> QED
  BY <1>1, TypeCorrect, PTL DEF Spec

\* An edit that was refused (404, 409) is not in origin, and not in the clone's
\* local commits, which a later push of anybody would publish.
Committed(e) == e \in published \/ \E i \in DOMAIN ahead : ahead[i].by = e

RefusalsKept ==
    \A e \in Editors :
        /\ ed[e].reply = "refused" => At(e, "done")
        /\ Committed(e) => ed[e].pc \in {"push", "recreate", "done"} /\ ed[e].reply # "refused"

\* A commit is made by the request that is at it, and published from the clone.
LEMMA CommitsStep ==
    ASSUME TypeOK, [Next]_vars
    PROVE  \A f \in Editors :
               Committed(f)' => Committed(f) \/ (GitCommit(f) /\ At(f, "commit"))
<1>1. CASE UNCHANGED <<published, ahead>>
  BY <1>1 DEF Committed
<1>2. ASSUME NEW e \in Editors, Serve(e)
      PROVE  \A f \in Editors : Committed(f)' => Committed(f) \/ (GitCommit(f) /\ At(f, "commit"))
  <2>1. CASE Chown(e) \/ Fetch(e) \/ Read(e) \/ Write(e) \/ Recreate(e) \/ CommandFails(e) \/ TimesOut(e)
    BY <1>1, <2>1 DEF Chown, Fetch, Read, Write, Recreate, CommandFails, TimesOut, clone
  <2>2. CASE Reset(e)
    <3>1. published' = published /\ DOMAIN ahead' = {}
      BY <2>2 DEF Reset
    <3> QED
      BY <3>1 DEF Committed
  <2>3. CASE GitCommit(e)
    <3>1. /\ At(e, "commit") /\ published' = published
          /\ ahead' = Append(ahead, [by |-> e, book |-> tree])
      BY <2>3 DEF GitCommit
    <3>2. [by |-> e, book |-> tree] \in LocalCommit /\ ahead \in Seq(LocalCommit)
      BY DEF LocalCommit, TypeOK
    <3>3. /\ Len(ahead) \in Nat /\ DOMAIN ahead = 1 .. Len(ahead) /\ DOMAIN ahead' = 1 .. Len(ahead) + 1
          /\ \A i \in 1 .. Len(ahead) : ahead'[i] = ahead[i]
          /\ ahead'[Len(ahead) + 1] = [by |-> e, book |-> tree]
      BY <3>1, <3>2, AppendProperties, LenProperties
    <3>4. \A i \in DOMAIN ahead' : ahead'[i].by = e \/ (i \in DOMAIN ahead /\ ahead'[i].by = ahead[i].by)
      BY <3>3
    <3> QED
      BY <2>3, <3>1, <3>4 DEF Committed
  <2>4. CASE Push(e)
    <3>1. /\ published' = published \union {ahead[i].by : i \in DOMAIN ahead}
          /\ DOMAIN ahead' = {}
      BY <2>4 DEF Push
    <3> QED
      BY <3>1 DEF Committed
  <2> QED
    BY <1>2, <2>1, <2>2, <2>3, <2>4 DEF Serve
<1>3. ASSUME NEW e \in Editors, NEW w \in Asks, Ask(e, w)
      PROVE  UNCHANGED <<published, ahead>>
  BY <1>3 DEF Ask, clone
<1>4. CASE Crash \/ Checkout \/ Sync \/ Deploy \/ Restart \/ Succeed \/ BuildFails \/ UNCHANGED vars \/ \E b \in Drafts : DevPush(b)
  BY <1>1, <1>4 DEF Crash, Checkout, Sync, Deploy, Restart, Succeed, BuildFails, DevPush, vars, clone
<1> QED
  BY <1>1, <1>2, <1>3, <1>4 DEF Next

LEMMA RefusalsStep ==
    ASSUME TypeOK, RefusalsKept, [Next]_vars
    PROVE  RefusalsKept'
<1> USE DEF At
<1> SUFFICES ASSUME NEW f \in Editors
             PROVE  /\ ed'[f].reply = "refused" => ed'[f].pc = "done"
                    /\ Committed(f)' => ed'[f].pc \in {"push", "recreate", "done"} /\ ed'[f].reply # "refused"
  BY DEF RefusalsKept
<1>1. /\ ed[f].reply = "refused" => ed[f].pc = "done"
      /\ Committed(f) => ed[f].pc \in {"push", "recreate", "done"} /\ ed[f].reply # "refused"
      /\ Committed(f)' => Committed(f) \/ GitCommit(f)
  BY CommitsStep DEF RefusalsKept
<1>2. CASE ed'[f] = ed[f] /\ ~GitCommit(f)
  BY <1>1, <1>2
<1>3. CASE Serve(f)
  <2>1. CASE Chown(f) \/ Fetch(f) \/ Reset(f) \/ Write(f) \/ GitCommit(f) \/ Push(f) \/ Recreate(f)
    <3>1. ed'[f].pc = Onward(f) /\ ed'[f].reply = Outcome(f)
      BY <2>1, RequestSteps DEF Chown, Fetch, Reset, Write, GitCommit, Push, Recreate, Moved
    <3>2. /\ ed[f].pc \in {"chown", "fetch", "reset", "write", "commit", "push", "recreate"}
          /\ GitCommit(f) => ed[f].pc = "commit"
      BY <2>1 DEF Chown, Fetch, Reset, Write, GitCommit, Push, Recreate
    <3>3. ed'[f].reply # "refused"
      BY <1>1, <3>1, <3>2 DEF Outcome
    <3>4. Committed(f)' => ed'[f].pc \in {"push", "recreate", "done"}
      BY <1>1, <3>1, <3>2 DEF Onward, Follows
    <3> QED
      BY <3>3, <3>4
  <2>2. CASE CommandFails(f) /\ ~GitCommit(f)
    BY <1>1, <2>2, RequestSteps DEF CommandFails, Moved, Kept, Reply
  <2>3. CASE Read(f)
    <3>1. ed[f].pc = "read" /\ ~GitCommit(f)
      BY <2>3 DEF Read, GitCommit
    <3> QED
      BY <1>1, <2>3, <3>1, ReadMoves DEF Moved, Kept
  <2>4. CASE TimesOut(f) /\ ~GitCommit(f)
    BY <1>1, <2>4, TimeoutMoves DEF TimesOut, Moved
  <2> QED
    BY <1>3, <2>1, <2>2, <2>3, <2>4 DEF Serve
<1>4. ASSUME NEW e \in Editors \ {f}, Serve(e), ~Serve(f)
      PROVE  ed'[f] = ed[f] /\ ~GitCommit(f)
  BY <1>4, ServeMoves DEF Serve
<1>5. ASSUME NEW e \in Editors, NEW w \in Asks, Ask(e, w), ~GitCommit(f)
      PROVE  /\ ed'[f].reply = "refused" => ed'[f].pc = "done"
             /\ Committed(f)' => ed'[f].pc \in {"push", "recreate", "done"} /\ ed'[f].reply # "refused"
  <2>1. ed[e].pc = "idle" /\ (f # e => ed'[f] = ed[f]) /\ ed'[f].reply = ed[f].reply
    BY <1>5 DEF Ask, TypeOK
  <2> QED
    BY <1>1, <1>5, <2>1
<1>6. CASE Crash /\ ~GitCommit(f)
  BY <1>1, <1>6, CrashMoves DEF Editing
<1>7. CASE Checkout \/ Sync \/ Deploy \/ Restart \/ Succeed \/ BuildFails \/ UNCHANGED vars \/ \E b \in Drafts : DevPush(b)
  <2>1. UNCHANGED <<ed, ahead, published>>
    BY <1>7 DEF Checkout, Sync, Deploy, Restart, Succeed, BuildFails, vars, DevPush, clone
  <2> QED
    BY <1>1, <2>1 DEF Committed
<1>8. GitCommit(f) => Serve(f)
  BY DEF Serve
<1> QED
  BY <1>2, <1>3, <1>4, <1>5, <1>6, <1>7, <1>8 DEF Next

\* However edits overlap: what was refused is not published, not even by another.
THEOREM RefusedStaysOut == Spec => []RefusalsKept
<1>1. Init => RefusalsKept
  <2>1. Init => \A e \in Editors : ed[e].reply = "none" /\ ~Committed(e)
    BY DEF Init, Committed
  <2> QED
    BY <2>1 DEF RefusalsKept
<1>2. TypeOK /\ RefusalsKept /\ [Next]_vars => RefusalsKept'
  BY RefusalsStep
<1> QED
  BY <1>1, <1>2, TypeCorrect, PTL DEF Spec

-----------------------------------------------------------------------------
(* Turns.                                                                  *)

\* As in the run rules_turns.
TakeTurns == MaxWorking = 1

LEMMA NobodyWorks ==
    ASSUME TakeTurns, Working < MaxWorking
    PROVE  Editing = {} /\ ~Building
<1>1. IsFiniteSet(Editing)
  <2>1. Editing \subseteq Editors
    BY DEF Editing
  <2> QED
    BY <2>1, ConstantAssumption, FS_Subset
<1>2. Cardinality(Editing) \in Nat /\ (Cardinality(Editing) = 0 <=> Editing = {})
  BY <1>1, FS_CardinalityType, FS_EmptySet
<1> QED
  BY <1>2 DEF TakeTurns, Working

\* Who is served is under way, and nobody else is.
LEMMA ServedAlone ==
    ASSUME OneAtATime, NEW e \in Editors, Serve(e)
    PROVE  /\ e \in Editing /\ ~Building
           /\ \A f \in Editors \ {e} : ed[f].pc \in {"idle", "done"}
<1>1. e \in Editing
  BY DEF Serve, Chown, Fetch, Reset, Read, Write, GitCommit, Push, Recreate,
         CommandFails, TimesOut, At, Editing
<1> QED
  BY <1>1 DEF OneAtATime, Editing

LEMMA OneAtATimeStep ==
    ASSUME TakeTurns, TypeOK, OneAtATime, [Next]_vars
    PROVE  OneAtATime'
<1>1. ASSUME NEW e \in Editors, Serve(e)
      PROVE  OneAtATime'
  <2>1. UNCHANGED build
    BY <1>1, ServeTypes
  <2> QED
    BY <1>1, <2>1, ServedAlone, ServeMoves DEF OneAtATime, Editing, Building
<1>2. ASSUME NEW e \in Editors, NEW w \in Asks, Ask(e, w)
      PROVE  OneAtATime'
  <2>1. Editing = {} /\ ~Building /\ UNCHANGED build
    BY <1>2, NobodyWorks DEF Ask
  <2>2. \A f \in Editors \ {e} : ed'[f] = ed[f]
    BY <1>2 DEF Ask, TypeOK
  <2> QED
    BY <2>1, <2>2 DEF OneAtATime, Editing, Building
<1>3. CASE Crash
  <2>1. Editing' \subseteq Editing /\ UNCHANGED build
    BY <1>3, CrashMoves DEF Crash, Editing
  <2> QED
    BY <2>1 DEF OneAtATime, Building
<1>4. CASE Checkout
  <2>1. Editing = {} /\ UNCHANGED ed
    BY <1>4, NobodyWorks DEF Checkout
  <2> QED
    BY <2>1 DEF OneAtATime, Editing
<1>5. CASE Sync \/ Deploy \/ Succeed \/ BuildFails
  <2>1. Editing = {} /\ UNCHANGED ed
    BY <1>5 DEF Sync, Deploy, Succeed, BuildFails, OneAtATime, Building
  <2> QED
    BY <2>1 DEF OneAtATime, Editing
<1>6. ASSUME NEW b \in Drafts, DevPush(b)
      PROVE  OneAtATime'
  BY <1>6 DEF DevPush, OneAtATime, Editing, Building
<1>7. CASE Restart \/ UNCHANGED vars
  BY <1>7 DEF Restart, vars, OneAtATime, Editing, Building
<1> QED
  BY <1>1, <1>2, <1>3, <1>4, <1>5, <1>6, <1>7 DEF Next

\* The commands of a request, and what they find: the invariant of the request.
LEMMA CommandStep ==
    ASSUME TypeOK, NEW e \in Editors, Answered(e), Prepared(e), e \in Editing,
           Chown(e) \/ Fetch(e) \/ Reset(e) \/ Write(e) \/ GitCommit(e) \/ Recreate(e)
    PROVE  Answered(e)' /\ Prepared(e)'
<1> USE DEF At
<1>1. /\ Advance(e) /\ UNCHANGED <<edit, published, origin>>
      /\ ed[e].pc \in {"chown", "fetch", "reset", "write", "commit", "recreate"}
  BY DEF Chown, Fetch, Reset, Write, GitCommit, Recreate
<1>2. ed'[e].pc = Onward(e) /\ ed'[e].book = ed[e].book /\ ed'[e].reply = Outcome(e)
  BY <1>1, RequestSteps DEF Moved
<1>3. Answered(e)'
  BY <1>1, <1>2 DEF Answered, Prepared, Onward, Follows, Outcome
<1>4. CASE Chown(e)
  <2>1. At(e, "chown") /\ rootOwned' = FALSE
    BY <1>4 DEF Chown
  <2> QED
    BY <1>2, <1>3, <2>1 DEF Prepared, Onward, Follows
<1>5. CASE Fetch(e)
  <2>1. At(e, "fetch") /\ UNCHANGED rootOwned
    BY <1>5 DEF Fetch
  <2> QED
    BY <1>2, <1>3, <2>1 DEF Prepared, Onward, Follows
<1>6. CASE Reset(e)
  <2>1. /\ At(e, "reset") /\ UNCHANGED <<origin, rootOwned>>
        /\ base' = tracking /\ ahead' = <<>> /\ tree' = origin[tracking]
    BY <1>6 DEF Reset
  <2>2. ed'[e].pc \in {"read", "done"} /\ ~rootOwned
    BY <1>2, <2>1 DEF Prepared, Onward, Follows
  <2> QED
    BY <1>3, <2>1, <2>2 DEF Prepared
<1>7. CASE Write(e)
  <2>1. At(e, "write") /\ UNCHANGED <<origin, base, ahead, rootOwned>> /\ tree' = ed[e].book
    BY <1>7 DEF Write
  <2>2. ed'[e].pc \in {"commit", "done"}
    BY <1>2, <2>1 DEF Onward, Follows
  <2>3. /\ ahead = <<>> /\ ~rootOwned
        /\ Applies(edit[e], origin[base]) /\ ed[e].book = Edited(edit[e], origin[base])
    BY <2>1 DEF Prepared
  <2>4. Applies(edit[e], origin[base])' /\ ed'[e].book = Edited(edit[e], origin[base])'
    BY <1>1, <1>2, <2>1, <2>3 DEF Applies, Edited
  <2> QED
    BY <1>2, <1>3, <2>1, <2>2, <2>3, <2>4 DEF Prepared
<1>8. CASE GitCommit(e)
  <2>1. /\ At(e, "commit") /\ UNCHANGED <<origin, base, tree, rootOwned>>
        /\ ahead' = Append(ahead, [by |-> e, book |-> tree])
    BY <1>8 DEF GitCommit
  <2>2. ed'[e].pc = "push"
    BY <1>2, <2>1 DEF Onward, Follows
  <2>3. /\ ahead = <<>> /\ ~rootOwned /\ tree = ed[e].book
        /\ Applies(edit[e], origin[base]) /\ ed[e].book = Edited(edit[e], origin[base])
    BY <2>1 DEF Prepared
  <2>4. Applies(edit[e], origin[base])' /\ ed'[e].book = Edited(edit[e], origin[base])'
    BY <1>1, <1>2, <2>1, <2>3 DEF Applies, Edited
  <2>5. ahead' = <<[by |-> e, book |-> ed'[e].book]>>
    BY <1>2, <2>1, <2>3
  <2> QED
    BY <1>2, <1>3, <2>1, <2>2, <2>3, <2>4, <2>5 DEF Prepared
<1>9. CASE Recreate(e)
  <2>1. At(e, "recreate")
    BY <1>9 DEF Recreate
  <2>2. ed'[e].pc = "done"
    BY <1>2, <2>1 DEF Onward, Follows
  <2> QED
    BY <1>3, <2>2 DEF Prepared, Editing
<1> QED
  BY <1>4, <1>5, <1>6, <1>7, <1>8, <1>9

\* The push takes the one commit that is ahead, which is the request's edit of
\* the newest book.
LEMMA PushedEdit ==
    ASSUME TypeOK, NEW e \in Editors, Answered(e), Prepared(e), Push(e)
    PROVE  /\ Tip' = ed[e].book /\ Tip' = tree /\ origin'[base'] = tree /\ Tip' = Edited(edit[e], Tip) /\ Applies(edit[e], Tip)
           /\ tree[edit[e].rule] = edit[e].body
           /\ published' = published \union {e} /\ e \notin published
           /\ ed'[e].pc \in {"recreate", "done"} /\ ed'[e].book = ed[e].book /\ ed'[e].reply = ed[e].reply
           /\ ed'[e].pc = "done" => ed[e].reply # "none"
<1>1. /\ ed[e].pc = "push" /\ base = Len(origin) /\ Advance(e)
      /\ published' = published \union {ahead[i].by : i \in DOMAIN ahead}
  BY DEF Push, At
<1>2. /\ ahead = <<[by |-> e, book |-> ed[e].book]>> /\ tree = ed[e].book
      /\ Applies(edit[e], Tip) /\ ed[e].book = Edited(edit[e], Tip)
  BY <1>1 DEF Prepared, At, Tip
<1>3. DOMAIN ahead = {1} /\ Len(ahead) = 1 /\ ahead[1].by = e /\ ahead[1].book = ed[e].book
  BY <1>2
<1>4. published' = published \union {e}
  BY <1>1, <1>3
<1>5. Tip' = ed[e].book /\ origin'[base'] = ed[e].book
  <2>1. base' = Len(origin) + 1 /\ Len(origin') = Len(origin) + 1
    BY <1>1, <1>3, PushTypes DEF Push
  <2>2. origin'[Len(origin) + 1] = ed[e].book
    BY <1>3, PushTypes
  <2> QED
    BY <2>1, <2>2 DEF Tip
<1>6. edit[e] \in Edit /\ (edit[e].op = "delete" => edit[e].body = 0) /\ Tip \in Books
  <2>1. edit[e] \in Wanted
    BY <1>1 DEF Answered, At
  <2>2. edit[e].op = "delete" => edit[e].body = 0
    BY <2>1 DEF Wanted
  <2> QED
    BY <2>2, OriginTypes DEF TypeOK
<1>7. tree[edit[e].rule] = edit[e].body
  BY <1>2, <1>6, EditedTypes
<1>8. /\ ed'[e].pc = Onward(e) /\ ed'[e].book = ed[e].book /\ ed'[e].reply = Outcome(e)
  BY <1>1, RequestSteps DEF Moved
<1>9. e \notin published
  BY <1>1 DEF Answered
<1> QED
  BY <1>1, <1>2, <1>4, <1>5, <1>7, <1>8, <1>9 DEF Onward, Outcome, Follows, At

LEMMA PushStep ==
    ASSUME TypeOK, NEW e \in Editors, Answered(e), Prepared(e), Push(e)
    PROVE  Answered(e)' /\ Prepared(e)'
<1>1. /\ ed[e].pc = "push" /\ UNCHANGED <<edit, tree, rootOwned>>
  BY DEF Push, At
<1>2. Answered(e)'
  BY <1>1, PushedEdit DEF Answered, At
<1>3. /\ ~rootOwned
      /\ ed'[e].pc = "recreate" =>
            e \in published' /\ tree = origin'[base'] /\ tree[edit[e].rule] = edit[e].body
  BY <1>1, PushedEdit DEF Prepared, Editing, At
<1>4. ed'[e].pc \in {"recreate", "done"}
  BY PushedEdit
<1> QED
  BY <1>1, <1>2, <1>3, <1>4 DEF Prepared, At

LEMMA OwnStep ==
    ASSUME TypeOK, NEW e \in Editors, Answered(e), Prepared(e), e \in Editing, Serve(e)
    PROVE  Answered(e)' /\ Prepared(e)'
<1>1. CASE Read(e)
  <2>1. At(e, "read") /\ UNCHANGED <<origin, clone, edit, published>>
    BY <1>1 DEF Read
  <2>2. ahead = <<>> /\ tree = origin[base] /\ ~rootOwned
    BY <2>1 DEF Prepared, Editing, At
  <2>3. CASE /\ Applies(edit[e], tree) /\ Moved(e, "write", Edited(edit[e], tree), ed[e].reply)
    <3>1. Answered(e)'
      BY <2>1, <2>3 DEF Answered, Moved, At
    <3>2. Applies(edit[e], origin[base])' /\ ed'[e].book = Edited(edit[e], origin[base])'
      BY <2>1, <2>2, <2>3 DEF Applies, Edited, Moved, clone
    <3> QED
      BY <2>1, <2>2, <2>3, <3>1, <3>2 DEF Prepared, Moved, At, clone
  <2>4. CASE Moved(e, "done", ed[e].book, Kept(e, "refused"))
    BY <2>1, <2>4 DEF Answered, Prepared, Moved, Kept, At, Editing
  <2> QED
    BY <1>1, <2>3, <2>4, ReadMoves
<1>2. CASE CommandFails(e)
  <2>1. /\ ed'[e].pc = "done" /\ ed'[e].reply = Kept(e, "failed")
        /\ UNCHANGED <<edit, published>>
    BY <1>2, RequestSteps DEF CommandFails, Moved, Reply
  <2> QED
    BY <2>1 DEF Answered, Prepared, Kept, At, Editing
<1>3. CASE TimesOut(e)
  <2>1. /\ ed'[e].pc = ed[e].pc /\ ed'[e].book = ed[e].book /\ ed'[e].reply = "failed"
        /\ UNCHANGED <<origin, clone, edit, published>> /\ ed[e].reply = "none"
    BY <1>3, TimeoutMoves DEF TimesOut, Moved
  <2>2. Answered(e)'
    BY <2>1 DEF Answered, At, Editing
  <2> QED
    BY <2>1, <2>2 DEF Prepared, At, Editing, Applies, Edited, clone
<1> QED
  BY <1>1, <1>2, <1>3, CommandStep, PushStep DEF Serve

\* Nobody else is under way, so what one request does to the clone is no other's.
LEMMA OthersStep ==
    ASSUME TypeOK, OneAtATime, NEW e \in Editors, Answered(e), Prepared(e), Serve(e),
           NEW f \in Editors \ {e}, Answered(f)
    PROVE  Answered(f)' /\ Prepared(f)'
<1>1. ed'[f] = ed[f] /\ ed[f].pc \in {"idle", "done"} /\ UNCHANGED edit
  BY ServedAlone, ServeMoves, ServeTypes
<1>2. published' = published \/ published' = published \union {e}
  BY PushedEdit DEF Serve, Chown, Fetch, Reset, Read, Write, GitCommit, Recreate, CommandFails, TimesOut
<1> QED
  BY <1>1, <1>2 DEF Answered, Prepared, Editing, At

LEMMA RulesInvStep ==
    ASSUME TakeTurns, RulesInv, [Next]_vars
    PROVE  RulesInv'
<1> USE DEF At
<1>1. TypeOK /\ OneAtATime /\ \A e \in Editors : Answered(e) /\ Prepared(e)
  BY DEF RulesInv
<1>2. TypeOK' /\ OneAtATime'
  BY <1>1, TypesStep, OneAtATimeStep
<1> SUFFICES ASSUME NEW f \in Editors
             PROVE  Answered(f)' /\ Prepared(f)'
  BY <1>2 DEF RulesInv
<1>3. ASSUME NEW e \in Editors, Serve(e)
      PROVE  Answered(f)' /\ Prepared(f)'
  <2>1. e \in Editing
    BY <1>1, <1>3, ServedAlone
  <2> QED
    BY <1>1, <1>3, <2>1, OwnStep, OthersStep
<1>4. ASSUME NEW e \in Editors, NEW w \in Asks, Ask(e, w)
      PROVE  Answered(f)' /\ Prepared(f)'
  <2>1. /\ ed[e].pc = "idle" /\ UNCHANGED <<origin, clone, published>>
        /\ edit' = [edit EXCEPT ![e] = w]
    BY <1>4 DEF Ask
  <2>2. Moved(e, "chown", ed[e].book, ed[e].reply)
    <3>1. ed' = [ed EXCEPT ![e] = [@ EXCEPT !.pc = "chown"]]
      BY <1>4, Zenon DEF Ask
    <3>2. "chown" \in Steps /\ "none" \in Reply /\ ed[e].book \in Books
      BY <1>1 DEF Steps, Reply, TypeOK
    <3> QED
      BY <1>1, <3>1, <3>2, Changes, Zenon
  <2>3. CASE f = e
    <3>1. edit'[f] = w
      BY <1>1, <2>1, <2>3 DEF TypeOK
    <3> QED
      BY <1>1, <2>1, <2>2, <2>3, <3>1, AskedFor DEF Answered, Prepared, Moved, Editing
  <2>4. CASE f # e
    <3>1. Editing = {}
      BY <1>4, NobodyWorks DEF Ask
    <3>2. ed'[f] = ed[f] /\ edit'[f] = edit[f] /\ ed[f].pc \in {"idle", "done"}
      BY <1>1, <2>1, <2>2, <2>4, <3>1 DEF TypeOK, Moved, Editing
    <3> QED
      BY <1>1, <2>1, <3>2 DEF Answered, Prepared, Editing
  <2> QED
    BY <2>3, <2>4
<1>5. CASE Crash
  <2>1. UNCHANGED <<origin, clone, edit, published>>
    BY <1>5 DEF Crash
  <2>2. \/ ed'[f] = ed[f]
        \/ /\ f \in Editing /\ ed[f].reply = "none" /\ ed'[f].reply = "lost" /\ ed'[f].book = ed[f].book
           /\ ed'[f].pc = ed[f].pc \/ ed'[f].pc = "done"
    BY <1>1, <1>5, CrashMoves
  <2>3. Answered(f)'
    BY <1>1, <2>1, <2>2 DEF Answered, Editing
  <2>4. CASE ed'[f].pc = ed[f].pc /\ ed'[f].book = ed[f].book
    BY <1>1, <2>1, <2>3, <2>4 DEF Prepared, Editing, Applies, Edited, clone
  <2>5. CASE ed'[f].pc = "done"
    BY <2>3, <2>5 DEF Prepared, Editing
  <2> QED
    BY <2>2, <2>3, <2>4, <2>5
<1>6. ASSUME NEW b \in Drafts, DevPush(b)
      PROVE  Answered(f)' /\ Prepared(f)'
  <2>1. UNCHANGED <<clone, edit, ed, published>>
    BY <1>6 DEF DevPush
  <2>2. origin'[base] = origin[base]
    BY <1>1, <1>6, DevPushTypes DEF TypeOK
  <2> QED
    BY <1>1, <2>1, <2>2 DEF Answered, Prepared, Editing, Applies, Edited, clone
<1>7. CASE Sync
  <2>1. Editing = {} /\ UNCHANGED <<edit, ed, published>>
    BY <1>1, <1>7 DEF Sync, OneAtATime, Building
  <2>2. ed[f].pc \in {"idle", "done"}
    BY <2>1 DEF Editing
  <2> QED
    BY <1>1, <2>1, <2>2 DEF Answered, Prepared, Editing
<1>8. CASE Checkout \/ Deploy \/ Restart \/ Succeed \/ BuildFails \/ UNCHANGED vars
  <2>1. UNCHANGED <<origin, clone, edit, ed, published>>
    BY <1>8 DEF Checkout, Deploy, Restart, Succeed, BuildFails, vars
  <2> QED
    BY <1>1, <2>1 DEF Answered, Prepared, Editing, Applies, Edited, clone
<1> QED
  BY <1>3, <1>4, <1>5, <1>6, <1>7, <1>8 DEF Next

LEMMA RulesInvInit == Init => RulesInv
<1> SUFFICES ASSUME Init
             PROVE  RulesInv
  OBVIOUS
<1>1. \A e \in Editors : edit[e].op = "none" /\ ed[e].pc = "idle" /\ ed[e].reply = "none"
  BY DEF Init
<1>2. build.pc = "idle" /\ published = {}
  BY DEF Init
<1> QED
  BY <1>1, <1>2, InitTypes DEF RulesInv, OneAtATime, Answered, Prepared, Editing, Building, At

\* While edits and builds take turns: the clone holds nothing but the edit under
\* way, made of the book it was reset to, and every answer given is true.
THEOREM TurnsInvariance ==
    ASSUME TakeTurns
    PROVE  Spec => []RulesInv
<1>1. Init => RulesInv
  BY RulesInvInit
<1>2. RulesInv /\ [Next]_vars => RulesInv'
  BY RulesInvStep
<1> QED
  BY <1>1, <1>2, PTL DEF Spec

-----------------------------------------------------------------------------
(* The edit that is published is the one that is loaded.                   *)

LEMMA LoadedStep ==
    ASSUME TakeTurns, RulesInv, [Next]_vars, NEW e \in Editors,
           ed[e].reply # "ok", ed'[e].reply = "ok"
    PROVE  LET book == origin'[base'] IN
           /\ prom' = book /\ book[edit[e].rule] = edit[e].body /\ ~rootOwned'
           /\ Evaluated' = book \/ \E r \in Rules : book[r] \in Invalid
<1>1. TypeOK /\ OneAtATime /\ \A f \in Editors : Answered(f) /\ Prepared(f)
  BY DEF RulesInv
<1>2. Recreate(e)
  <2>1. ASSUME NEW f \in Editors, Serve(f) PROVE f = e
    BY <1>1, <2>1, ServeMoves
  <2>2. CASE Serve(e)
    <3>1. CASE Chown(e) \/ Fetch(e) \/ Reset(e) \/ Write(e) \/ GitCommit(e) \/ Push(e)
      <4>1. Advance(e) /\ ~At(e, "recreate")
        BY <3>1 DEF Chown, Fetch, Reset, Write, GitCommit, Push, At
      <4> QED
        BY <1>1, <4>1, RequestSteps DEF Moved, Outcome
    <3>2. CASE CommandFails(e)
      BY <1>1, <3>2, RequestSteps DEF CommandFails, Moved, Kept, Reply
    <3>3. CASE Read(e)
      BY <1>1, <3>3, ReadMoves DEF Moved, Kept
    <3>4. CASE TimesOut(e)
      BY <1>1, <3>4, TimeoutMoves DEF Moved
    <3> QED
      BY <2>2, <3>1, <3>2, <3>3, <3>4 DEF Serve
  <2>3. ASSUME NEW f \in Editors, NEW w \in Asks, Ask(f, w) PROVE FALSE
    <3>1. ed'[e].reply = ed[e].reply
      BY <1>1, <2>3 DEF Ask, TypeOK
    <3> QED
      BY <3>1
  <2>4. CASE Crash
    BY <1>1, <2>4, CrashMoves
  <2>5. CASE Checkout \/ Sync \/ Deploy \/ Restart \/ Succeed \/ BuildFails \/ UNCHANGED vars \/ \E b \in Drafts : DevPush(b)
    BY <2>5 DEF Checkout, Sync, Deploy, Restart, Succeed, BuildFails, vars, DevPush
  <2> QED
    BY <2>1, <2>2, <2>3, <2>4, <2>5 DEF Next
<1>3. At(e, "recreate") /\ prom' = tree /\ UNCHANGED <<origin, base, rootOwned>>
  BY <1>2 DEF Recreate, clone
<1>4. prom' = origin'[base'] /\ prom'[edit[e].rule] = edit[e].body /\ ~rootOwned'
  BY <1>1, <1>3 DEF Prepared, Editing, At
<1>5. Evaluated' = prom' \/ \E r \in Rules : prom'[r] \in Invalid
  BY DEF Evaluated, Accepted
<1> QED
  BY <1>4, <1>5

\* "Rule created and published": when edits and builds take turns, Prometheus is
\* started on the published book before the success is answered, and evaluates
\* that book unless it has a rule Prometheus refuses.
THEOREM SuccessIsLoaded ==
    ASSUME TakeTurns
    PROVE  Spec => LoadedOnSuccess
<1>1. RulesInv /\ [Next]_vars =>
          [\A e \in Editors :
              ed[e].reply # "ok" /\ ed'[e].reply = "ok"
              => LET book == origin'[base'] IN
                 /\ prom' = book /\ book[edit[e].rule] = edit[e].body /\ ~rootOwned'
                 /\ Evaluated' = book \/ \E r \in Rules : book[r] \in Invalid]_vars
  BY LoadedStep
<1> QED
  BY <1>1, TurnsInvariance, PTL DEF Spec, LoadedOnSuccess

-----------------------------------------------------------------------------
(* The page implements RuleBook.                                           *)

Replies == [e \in Editors |-> ed[e].reply]

\* The answers after a step that touches one request.
LEMMA RepliesMove ==
    ASSUME TypeOK, NEW e \in Editors, \A f \in Editors \ {e} : ed'[f] = ed[f]
    PROVE  /\ Replies' = [Replies EXCEPT ![e] = ed'[e].reply]
           /\ ed'[e].reply = ed[e].reply => Replies' = Replies
  BY DEF Replies

LEMMA RefinesInit == Init => PublishesAtomically!Init
<1> SUFFICES ASSUME Init
             PROVE  PublishesAtomically!Init
  OBVIOUS
<1>1. Tip \in Books
  BY InitTypes, OriginTypes
<1>2. edit \in [Editors -> [op: {"none"}, rule: Rules, body: {0}]]
  <2>1. (CHOOSE r \in Rules : TRUE) \in Rules
    BY ConstantAssumption
  <2> QED
    BY <2>1 DEF Init
<1>3. published = {} /\ [e \in Editors |-> ed[e].reply] = [e \in Editors |-> "none"]
  BY DEF Init
<1> QED
  BY <1>1, <1>2, <1>3 DEF PublishesAtomically!Init, PublishesAtomically!Books, PublishesAtomically!Bodies,
                          Books, Bodies

\* What a request gets to know in one step, it is answered once, and truly.
LEMMA AnswerStep ==
    ASSUME RulesInv, NEW e \in Editors, Serve(e), ~Push(e)
    PROVE  /\ UNCHANGED <<origin, published, edit>>
           /\ \/ Replies' = Replies
              \/ \E answer \in {"ok", "refused", "failed", "lost"} :
                    /\ ed[e].reply = "none" /\ edit[e].op # "none"
                    /\ answer = "ok" => e \in published
                    /\ answer = "refused" => e \notin published
                    /\ Replies' = [Replies EXCEPT ![e] = answer]
<1>1. TypeOK /\ OneAtATime /\ Answered(e) /\ Prepared(e) /\ e \in Editing
  BY ServedAlone DEF RulesInv
<1>2. UNCHANGED <<origin, published, edit>>
  BY DEF Serve, Chown, Fetch, Reset, Read, Write, GitCommit, Recreate, CommandFails, TimesOut
<1>3. /\ Replies' = [Replies EXCEPT ![e] = ed'[e].reply]
      /\ ed'[e].reply = ed[e].reply => Replies' = Replies
  BY <1>1, ServeMoves, RepliesMove
<1>4. edit[e].op # "none"
  BY <1>1 DEF Answered, At, Editing
<1>5. CASE Chown(e) \/ Fetch(e) \/ Reset(e) \/ Write(e) \/ GitCommit(e) \/ Recreate(e)
  <2>1. ed'[e].reply = Outcome(e)
    BY <1>1, <1>5, RequestSteps DEF Chown, Fetch, Reset, Write, GitCommit, Recreate, Moved
  <2>2. ed'[e].reply # ed[e].reply => ed[e].reply = "none" /\ ed'[e].reply = "ok" /\ e \in published
    BY <1>1, <2>1 DEF Outcome, Prepared
  <2> QED
    BY <1>2, <1>3, <1>4, <2>2
<1>6. CASE Read(e)
  <2>1. e \notin published
    BY <1>1, <1>6 DEF Read, Answered, At
  <2>2. ed'[e].reply # ed[e].reply => ed[e].reply = "none" /\ ed'[e].reply = "refused"
    BY <1>1, <1>6, ReadMoves DEF Moved, Kept
  <2> QED
    BY <1>2, <1>3, <1>4, <2>1, <2>2
<1>7. CASE CommandFails(e)
  <2>1. ed'[e].reply # ed[e].reply => ed[e].reply = "none" /\ ed'[e].reply = "failed"
    BY <1>1, <1>7, RequestSteps DEF CommandFails, Moved, Kept, Reply
  <2> QED
    BY <1>2, <1>3, <1>4, <2>1
<1>8. CASE TimesOut(e)
  <2>1. ed[e].reply = "none" /\ ed'[e].reply = "failed"
    BY <1>1, <1>8, TimeoutMoves DEF TimesOut, Moved
  <2> QED
    BY <1>2, <1>3, <1>4, <2>1
<1> QED
  BY <1>5, <1>6, <1>7, <1>8 DEF Serve

LEMMA RefinesNext ==
    ASSUME TakeTurns, RulesInv, [Next]_vars
    PROVE  [PublishesAtomically!Next]_<<Tip, edit, published, Replies>>
<1>1. TypeOK /\ OneAtATime /\ \A f \in Editors : Answered(f) /\ Prepared(f)
  BY DEF RulesInv
<1>2. ASSUME NEW e \in Editors, Push(e)
      PROVE  PublishesAtomically!Act(e)
  <2>1. /\ Applies(edit[e], Tip) /\ Tip' = Edited(edit[e], Tip)
        /\ published' = published \union {e} /\ e \notin published
        /\ ed'[e].reply = ed[e].reply
    BY <1>1, <1>2, PushedEdit
  <2>2. edit[e].op # "none" /\ ed[e].reply \in {"none", "failed", "lost"} /\ UNCHANGED edit
    BY <1>1, <1>2 DEF Push, Answered, At, TypeOK, Reply
  <2>3. Replies' = Replies /\ Replies[e] = ed[e].reply
    <3>1. \A f \in Editors \ {e} : ed'[f] = ed[f]
      BY <1>1, <1>2, ServeMoves DEF Serve
    <3> QED
      BY <1>1, <2>1, <3>1, RepliesMove DEF Replies
  <2> QED
    BY <2>1, <2>2, <2>3 DEF PublishesAtomically!Act, PublishesAtomically!Applies, PublishesAtomically!Edited,
                            PublishesAtomically!Failed, Applies, Edited, Replies
<1>3. ASSUME NEW e \in Editors, Serve(e), ~Push(e)
      PROVE  \/ UNCHANGED <<Tip, edit, published, Replies>>
             \/ \E answer \in {"ok", "refused"} \union PublishesAtomically!Failed :
                    PublishesAtomically!Reply(e, answer)
  <2>1. UNCHANGED <<Tip, edit, published>>
    BY <1>3, AnswerStep DEF Tip
  <2>2. Replies[e] = ed[e].reply
    BY DEF Replies
  <2> QED
    BY <1>3, <2>1, <2>2, AnswerStep DEF PublishesAtomically!Failed, PublishesAtomically!Reply, Replies
<1>4. ASSUME NEW e \in Editors, NEW w \in Asks, Ask(e, w)
      PROVE  PublishesAtomically!Ask(e, w) /\ w \in PublishesAtomically!Edit
  <2>1. /\ edit[e].op = "none" /\ w.op # "none" /\ w \in Edit
        /\ edit' = [edit EXCEPT ![e] = w] /\ UNCHANGED <<Tip, published>>
    BY <1>1, <1>4, AskedFor DEF Ask, Answered, At, Tip
  <2>2. Replies' = Replies
    <3>1. \A f \in Editors : ed'[f].reply = ed[f].reply
      BY <1>1, <1>4 DEF Ask, TypeOK
    <3> QED
      BY <3>1 DEF Replies
  <2> QED
    BY <2>1, <2>2 DEF PublishesAtomically!Ask, PublishesAtomically!Edit, PublishesAtomically!Bodies,
                      Edit, Bodies, Replies
<1>5. CASE Crash
  <2>1. UNCHANGED <<Tip, edit, published>>
    BY <1>5 DEF Crash, Tip
  <2>2. \A f \in Editors :
            ed'[f].reply = IF edit[f].op # "none" /\ ed[f].reply = "none" THEN "lost" ELSE ed[f].reply
    BY <1>1, <1>5, CrashMoves DEF Answered, Editing, At
  <2>3. /\ \A f \in Editors : Replies[f] = ed[f].reply
        /\ Replies' = [f \in Editors |->
                         IF edit[f].op # "none" /\ Replies[f] = "none" THEN "lost" ELSE Replies[f]]
    BY <2>2 DEF Replies
  <2>4. PublishesAtomically!LoseAll
    BY <2>1, <2>3 DEF PublishesAtomically!LoseAll, Replies
  <2> QED
    BY <2>4 DEF PublishesAtomically!Next
<1>6. ASSUME NEW b \in Drafts, DevPush(b)
      PROVE  PublishesAtomically!Develop
  <2>1. Tip' \in Books
    BY <1>1, <1>6, DevPushTypes, ConstantAssumption
  <2>2. UNCHANGED <<edit, published, Replies>>
    BY <1>6 DEF DevPush, Replies
  <2> QED
    BY <2>1, <2>2 DEF PublishesAtomically!Develop, PublishesAtomically!Books, PublishesAtomically!Bodies,
                      Books, Bodies, Replies
<1>7. CASE Checkout \/ Sync \/ Deploy \/ Restart \/ Succeed \/ BuildFails \/ UNCHANGED vars
  BY <1>7 DEF Checkout, Sync, Deploy, Restart, Succeed, BuildFails, vars, Tip, Replies
<1> QED
  BY <1>2, <1>3, <1>4, <1>5, <1>6, <1>7 DEF Next, PublishesAtomically!Next

\* While edits and builds take turns, and whatever fails: every edit acts once
\* and all at once on the newest book of origin/master, and every answer is true.
THEOREM Implements ==
    ASSUME TakeTurns
    PROVE  Spec => PublishesOneEdit
<1>1. Init => PublishesAtomically!Init
  BY RefinesInit
<1>2. RulesInv /\ [Next]_vars => [PublishesAtomically!Next]_<<Tip, edit, published, Replies>>
  BY RefinesNext
<1> QED
  BY <1>1, <1>2, TurnsInvariance, PTL DEF Spec, PublishesOneEdit, PublishesAtomically!Spec, Replies

=============================================================================
