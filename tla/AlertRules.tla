----------------------------- MODULE AlertRules -----------------------------
(***************************************************************************)
(* The Alert Rules page: AlertRulesService edits prometheus/alerts.yml in  *)
(* a git clone on pi-node1, one SSH command after another, pushes it to    *)
(* origin/master and recreates Prometheus.  Developers push to the same    *)
(* branch, and Jenkins builds it: its rsync writes into the same clone, as *)
(* root, and its Deploy stage may recreate Prometheus too.                 *)
(*                                                                         *)
(* The page checks no expression: Prometheus may refuse a rule, and then   *)
(* the whole file.  Its container exits, and docker starts it again.       *)
(*                                                                         *)
(* The rules file is a book: a body per rule, 0 for no rule.  A rule is    *)
(* its group and alert name; the YAML round trip keeps what it does not    *)
(* edit.  No lock covers the clone: commands of several editors and the    *)
(* stages of a build interleave.                                           *)
(***************************************************************************)
EXTENDS Naturals, Sequences, FiniteSets

CONSTANTS
    Editors,     \* requests to edit a rule, each used once
    Rules,       \* (group, alert) pairs
    MaxBody,     \* a rule's body (expression, for, labels) is in 1..MaxBody
    Invalid,     \* the bodies Prometheus cannot parse
    Asks,        \* the edits editors may ask for, a subset of Wanted
    Drafts,      \* the books there may be at first and developers may push
    MaxPushes,   \* bound on the pushes of developers
    MaxWorking,  \* bound on the edits and builds under way at the same time
    Faults       \* what may go wrong: "ssh", "timeout", "crash", "test", "deploy"

VARIABLES
    origin,      \* the books of origin/master's commits, oldest first
    tracking,    \* the clone's origin/master: a position in origin
    base, ahead, \* the clone's HEAD: a position in origin, local commits on it
    tree,        \* the book in the working tree
    rootOwned,   \* the tree belongs to root since Jenkins' rsync
    prom,        \* the book the Prometheus container was last started on
    edit, ed,    \* what each editor asks for, and where its request is
    published,   \* history: editors whose commit is in origin
    build,       \* the Jenkins build, under way or last done
    pushes       \* how many pushes developers made

clone == <<tracking, base, ahead, tree, rootOwned>>
vars  == <<origin, clone, prom, edit, ed, published, build, pushes>>

Bodies == 0 .. MaxBody
Books  == [Rules -> Bodies]
Edit   == [op: {"none", "create", "update", "delete"}, rule: Rules, body: Bodies]
Wanted == [op: {"create", "update"}, rule: Rules, body: Bodies \ {0}]
            \union [op: {"delete"}, rule: Rules, body: {0}]
LocalCommit == [by: Editors, book: Books]
Steps  == {"idle", "chown", "fetch", "reset", "read", "write", "commit",
           "push", "recreate", "done"}
Reply  == {"none", "ok", "refused", "failed", "lost"}

ASSUME ConstantAssumption ==
    /\ IsFiniteSet(Editors)
    /\ Rules # {} /\ MaxBody \in Nat \ {0} /\ MaxPushes \in Nat
    /\ Invalid \subseteq Bodies \ {0}
    /\ Asks \subseteq Wanted
    /\ Drafts \subseteq Books

TypeOK ==
    /\ origin \in Seq(Books)
    /\ base \in DOMAIN origin /\ tracking \in DOMAIN origin
    /\ ahead \in Seq(LocalCommit)
    /\ tree \in Books /\ prom \in Books
    /\ rootOwned \in BOOLEAN
    /\ edit \in [Editors -> Edit]
    /\ ed \in [Editors -> [pc: Steps, book: Books, reply: Reply]]
    /\ published \subseteq Editors
    /\ build \in [pc: {"idle", "sync", "test", "after"}, changed: BOOLEAN,
                  src: DOMAIN origin, good: DOMAIN origin]
    /\ pushes \in 0 .. MaxPushes

-----------------------------------------------------------------------------
Tip  == origin[Len(origin)]
LocalTip == IF ahead = <<>> THEN origin[base] ELSE ahead[Len(ahead)].book

Applies(w, b) ==
    IF w.op = "create" THEN b[w.rule] = 0 ELSE b[w.rule] # 0

Edited(w, b) == [b EXCEPT ![w.rule] = IF w.op = "delete" THEN 0 ELSE w.body]

\* Prometheus evaluates the rules of a file it takes, and none of a file it
\* refuses, since it does not come up.
Accepted(b) == \A r \in Rules : b[r] \notin Invalid
Evaluated   == IF Accepted(prom) THEN prom ELSE [r \in Rules |-> 0]

\* Replacing a file of a tree that belongs to root is refused to admin; a
\* file that is already as wanted is not replaced.
CanReset == ~rootOwned \/ tree = origin[tracking]

Editing  == {e \in Editors : ed[e].pc \notin {"idle", "done"}}
Building == build.pc # "idle"
Working  == Cardinality(Editing) + (IF Building THEN 1 ELSE 0)

Init ==
    \E b \in Drafts :
        /\ origin = <<b>> /\ tree = b /\ prom = b
        /\ base = 1 /\ tracking = 1 /\ ahead = <<>>
        /\ rootOwned = TRUE
        /\ edit = [e \in Editors |-> [op |-> "none", rule |-> CHOOSE r \in Rules : TRUE,
                                      body |-> 0]]
        /\ ed = [e \in Editors |-> [pc |-> "idle", book |-> b, reply |-> "none"]]
        /\ published = {}
        /\ build = [pc |-> "idle", changed |-> FALSE, src |-> 1, good |-> 1]
        /\ pushes = 0

-----------------------------------------------------------------------------
(* The editor's request.                                                   *)

At(e, p) == ed[e].pc = p

\* What follows a command.  A request that was answered runs no further SSH
\* command, but the shell on the node goes on to the end of the one it runs:
\* fetch and reset are one, and so are commit and push.
Follows(e) ==
    LET p == ed[e].pc IN
    CASE p = "chown"  -> "fetch"
      [] p = "fetch"  -> "reset"
      [] p = "reset"  -> "read"
      [] p = "write"  -> "commit"
      [] p = "commit" -> "push"
      [] p = "push"   -> "recreate"
      [] OTHER        -> "done"

Advance(e) ==
    LET goes == ed[e].reply = "none" \/ ed[e].pc \in {"fetch", "commit"} IN
    ed' = [ed EXCEPT ![e].pc = IF goes THEN Follows(e) ELSE "done",
                     ![e].reply = IF @ = "none" /\ At(e, "recreate") THEN "ok" ELSE @]

Finish(e, answer) ==
    ed' = [ed EXCEPT ![e].pc = "done",
                     ![e].reply = IF @ = "none" THEN answer ELSE @]

Ask(e, w) ==
    /\ At(e, "idle") /\ Working < MaxWorking
    /\ edit' = [edit EXCEPT ![e] = w]
    /\ ed' = [ed EXCEPT ![e].pc = "chown"]
    /\ UNCHANGED <<origin, clone, prom, published, build, pushes>>

Chown(e) ==
    /\ At(e, "chown")
    /\ rootOwned' = FALSE
    /\ Advance(e)
    /\ UNCHANGED <<origin, tracking, base, ahead, tree, prom, edit, published, build, pushes>>

Fetch(e) ==
    /\ At(e, "fetch")
    /\ tracking' = Len(origin)
    /\ Advance(e)
    /\ UNCHANGED <<origin, base, ahead, tree, rootOwned, prom, edit, published, build, pushes>>

\* git reset --hard origin/master: it drops the local commits and whatever
\* another editor or Jenkins has written to the tree.
Reset(e) ==
    /\ At(e, "reset") /\ CanReset
    /\ base' = tracking /\ ahead' = <<>> /\ tree' = origin[tracking]
    /\ Advance(e)
    /\ UNCHANGED <<origin, tracking, rootOwned, prom, edit, published, build, pushes>>

\* The file is read, and the edit computed from it or refused (404, 409).
Read(e) ==
    /\ At(e, "read")
    /\ IF Applies(edit[e], tree)
         THEN ed' = [ed EXCEPT ![e].pc = "write", ![e].book = Edited(edit[e], tree)]
         ELSE Finish(e, "refused")
    /\ UNCHANGED <<origin, clone, prom, edit, published, build, pushes>>

Write(e) ==
    /\ At(e, "write") /\ ~rootOwned
    /\ tree' = ed[e].book
    /\ Advance(e)
    /\ UNCHANGED <<origin, tracking, base, ahead, rootOwned, prom, edit, published, build, pushes>>

\* git commit, which has nothing to commit when the tree is what HEAD has.
GitCommit(e) ==
    /\ At(e, "commit") /\ tree # LocalTip
    /\ ahead' = Append(ahead, [by |-> e, book |-> tree])
    /\ Advance(e)
    /\ UNCHANGED <<origin, tracking, base, tree, rootOwned, prom, edit, published, build, pushes>>

\* Mutant of Push: git push --force.
PushForced(e) ==
    /\ At(e, "push")
    /\ origin' = SubSeq(origin, 1, base) \o [i \in DOMAIN ahead |-> ahead[i].book]
    /\ base' = base + Len(ahead) /\ ahead' = <<>>
    /\ published' = published \union {ahead[i].by : i \in DOMAIN ahead}
    /\ Advance(e)
    /\ UNCHANGED <<tracking, tree, rootOwned, prom, edit, build, pushes>>

\* git push of the local master: a fast-forward or nothing.  With no local
\* commit it reports "Everything up-to-date", which is a success.
Push(e) ==
    /\ At(e, "push") /\ base = Len(origin)
    /\ origin' = origin \o [i \in DOMAIN ahead |-> ahead[i].book]
    /\ base' = base + Len(ahead) /\ ahead' = <<>>
    /\ published' = published \union {ahead[i].by : i \in DOMAIN ahead}
    /\ Advance(e)
    /\ UNCHANGED <<tracking, tree, rootOwned, prom, edit, build, pushes>>

\* Mutant of Recreate: the container is only told to reload, and goes on
\* reading the file it had mounted.
RecreateReloads(e) ==
    /\ At(e, "recreate")
    /\ Advance(e)
    /\ UNCHANGED <<origin, clone, prom, edit, published, build, pushes>>

\* docker compose up -d --force-recreate: a success once the container is
\* started, whether or not Prometheus takes the file.
Recreate(e) ==
    /\ At(e, "recreate")
    /\ prom' = tree
    /\ Advance(e)
    /\ UNCHANGED <<origin, clone, edit, published, build, pushes>>

\* The command fails, for a reason of its own or because the node, GitHub or
\* Docker does.  A step of the service then answers 502, a read 500.
CommandFails(e) ==
    /\ \/ At(e, "reset") /\ ~CanReset
       \/ At(e, "write") /\ rootOwned
       \/ At(e, "commit") /\ tree = LocalTip
       \/ At(e, "push") /\ base # Len(origin)
       \/ "ssh" \in Faults /\ e \in Editing
    /\ Finish(e, "failed")
    /\ UNCHANGED <<origin, clone, prom, edit, published, build, pushes>>

\* No output within ssh_command_timeout: the marker is missing, the request
\* fails, and the command runs on.
TimesOut(e) ==
    /\ "timeout" \in Faults /\ e \in Editing
    /\ ~At(e, "read") /\ ed[e].reply = "none"
    /\ ed' = [ed EXCEPT ![e].reply = "failed"]
    /\ UNCHANGED <<origin, clone, prom, edit, published, build, pushes>>

\* The backend dies, the commands it had started run on.
Crash ==
    /\ "crash" \in Faults
    /\ \E e \in Editing : ed[e].reply = "none"
    /\ ed' = [e \in Editors |->
                IF e \in Editing /\ ed[e].reply = "none"
                  THEN [ed[e] EXCEPT !.reply = "lost", !.pc = IF @ = "read" THEN "done" ELSE @]
                  ELSE ed[e]]
    /\ UNCHANGED <<origin, clone, prom, edit, published, build, pushes>>

-----------------------------------------------------------------------------
(* Developers and Jenkins.                                                 *)

DevPush(b) ==
    /\ pushes < MaxPushes
    /\ pushes' = pushes + 1
    /\ origin' = Append(origin, b)
    /\ UNCHANGED <<clone, prom, edit, ed, published, build>>

\* pollSCM sees a commit it has not built.  Prometheus is to be recreated when
\* prometheus/ differs from the last commit that was built with success.
Checkout ==
    /\ ~Building /\ Working < MaxWorking
    /\ build.src # Len(origin)
    /\ build' = [build EXCEPT !.pc = "sync", !.src = Len(origin),
                              !.changed = origin[build.good] # Tip]
    /\ UNCHANGED <<origin, clone, prom, edit, ed, published, pushes>>

\* rsync as root, leaving .git alone.
Sync ==
    /\ build.pc = "sync"
    /\ tree' = origin[build.src] /\ rootOwned' = TRUE
    /\ build' = [build EXCEPT !.pc = "test"]
    /\ UNCHANGED <<origin, tracking, base, ahead, prom, edit, ed, published, pushes>>

\* Build and Test have passed; Deploy mounts what the tree has by now.
Deploy ==
    /\ build.pc = "test"
    /\ prom' = IF build.changed THEN tree ELSE prom
    /\ build' = [build EXCEPT !.pc = "after"]
    /\ UNCHANGED <<origin, clone, edit, ed, published, pushes>>

\* Migrate, Health Check and Push to Registry have passed too.
Succeed ==
    /\ build.pc = "after"
    /\ build' = [build EXCEPT !.pc = "idle", !.good = build.src]
    /\ UNCHANGED <<origin, clone, prom, edit, ed, published, pushes>>

BuildFails ==
    /\ \/ "test" \in Faults /\ build.pc \in {"sync", "test"}
       \/ "deploy" \in Faults /\ build.pc = "after"
    /\ build' = [build EXCEPT !.pc = "idle"]
    /\ UNCHANGED <<origin, clone, prom, edit, ed, published, pushes>>

\* restart: unless-stopped.  A container that has exited over its rules is
\* started again, and mounts the file the tree has by now.
Restart ==
    /\ ~Accepted(prom)
    /\ prom' = tree
    /\ UNCHANGED <<origin, clone, edit, ed, published, build, pushes>>

-----------------------------------------------------------------------------
Serve(e) ==
    \/ Chown(e) \/ Fetch(e) \/ Reset(e) \/ Read(e) \/ Write(e)
    \/ GitCommit(e) \/ Push(e) \/ Recreate(e)
    \/ CommandFails(e) \/ TimesOut(e)

Next ==
    \/ \E e \in Editors, w \in Asks : Ask(e, w)
    \/ \E e \in Editors : Serve(e)
    \/ Crash
    \/ \E b \in Drafts : DevPush(b)
    \/ Checkout \/ Sync \/ Deploy \/ Succeed \/ BuildFails
    \/ Restart

Spec == Init /\ [][Next]_vars

-----------------------------------------------------------------------------
(* What holds while edits and builds take turns, whatever fails.           *)

\* The clone, the working tree and origin/master behave as one book: a publish
\* puts exactly its own edit on the newest book of origin, once, and never
\* takes a developer's commit away; a success was published, a refusal never.
PublishesAtomically ==
    INSTANCE RuleBook WITH book <- Tip, applied <- published,
                           reply <- [e \in Editors |-> ed[e].reply]
PublishesOneEdit == PublishesAtomically!Spec

\* "Rule created and published": as the success is answered, Prometheus was
\* started on the very book that was published, the edit in it, and the node's
\* tree is not root's.  So the edit is evaluated, with all the other rules,
\* unless that book has a rule Prometheus refuses: then the answer is the same,
\* and nothing is evaluated.
LoadedOnSuccess ==
    [][\A e \in Editors :
          ed[e].reply # "ok" /\ ed'[e].reply = "ok"
          => LET book == origin'[base'] IN
             /\ prom' = book /\ book[edit[e].rule] = edit[e].body /\ ~rootOwned'
             /\ Evaluated' = book \/ \E r \in Rules : book[r] \in Invalid]_vars

-----------------------------------------------------------------------------
(* What the documents say and overlapping edits and builds do not keep.    *)

\* "The edit has to be computed from truly current state": of two edits of
\* different rules that both succeeded, neither is missing from origin.
SuccessKept ==
    pushes = 0 =>
        \A e \in Editors :
            /\ ed[e].reply = "ok"
            /\ \A f \in Editors \ {e} : edit[f].rule # edit[e].rule
            => Tip[edit[e].rule] = edit[e].body
=============================================================================
