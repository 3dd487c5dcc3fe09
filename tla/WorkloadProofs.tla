--------------------------- MODULE WorkloadProofs ---------------------------
(***************************************************************************)
(* Proofs about WorkloadLifecycle, for any number of requests, names and   *)
(* namespaces: first for any interleaving and any subset of the faults,    *)
(* then, when clients take turns and no connection and no commit fails,    *)
(* that the table and the cluster agree between two requests.              *)
(***************************************************************************)
EXTENDS WorkloadLifecycle, FiniteSetTheorems, TLAPS

-----------------------------------------------------------------------------
(* Types.                                                                  *)

\* The pieces the initial state and the patches are made of have their types.
LEMMA SpecTypes ==
    /\ NoSpec \in Spec_
    /\ NoDep \in Dep
    /\ NoRow \in Row
    /\ NoJob \in Ask
<1>1. NoSpec \in Spec_
  BY ConstantAssumption DEF NoSpec, Spec_
<1>2. NoDep \in Dep
  BY <1>1 DEF NoDep, Dep
<1>3. (CHOOSE ns \in Namespaces : TRUE) \in Namespaces
  BY ConstantAssumption
<1>4. (CHOOSE n \in Names : TRUE) \in Names
  BY ConstantAssumption
<1>5. NoRow \in Row
  BY <1>1, <1>3 DEF NoRow, Row, Status
<1>6. NoJob \in Ask
  BY <1>1, <1>3, <1>4 DEF NoJob, Ask, Ops, Updates, Knobs
<1> QED
  BY <1>1, <1>2, <1>5, <1>6

\* A patch of a specification is a specification.
LEMMA PatchTypes ==
    ASSUME NEW s \in Spec_, NEW t \in Spec_, NEW op \in Ops
    PROVE  /\ Template(s) \in Spec_
           /\ Patched(s, op, t) \in Spec_
           /\ RolledBack(s, t) \in Spec_
<1>1. Template(s) \in Spec_
  BY ConstantAssumption DEF Template, Spec_
<1>2. Patched(s, op, t) \in Spec_
  <2>1. CASE op \in Knobs
    BY <2>1 DEF Patched, Spec_
  <2>2. CASE op = "env"
    BY <2>2 DEF Patched, Spec_, Knobs
  <2>3. CASE op \notin Knobs /\ op # "env"
    BY <2>3 DEF Patched
  <2> QED
    BY <2>1, <2>2, <2>3
<1>3. RolledBack(s, t) \in Spec_
  BY ConstantAssumption DEF RolledBack, Spec_
<1> QED
  BY <1>1, <1>2, <1>3

\* What create_deployment renders from a request is a specification.
LEMMA RenderedType ==
    ASSUME NEW a \in Ask
    PROVE  Rendered(a) \in Spec_
  BY ConstantAssumption DEF Rendered, Ask, Spec_

\* The namespace and name a request addresses are one of the cluster's.
LEMMA KeyType ==
    ASSUME TypeOK, NEW r \in Requests
    PROVE  Key(r) \in Keys
  BY DEF TypeOK, Key, Keys, Op, Job, Request, Ask, Row

\* A request that moves on, whatever becomes of its answer, keeps its type.
LEMMA MoveTypes ==
    ASSUME TypeOK, NEW r \in Requests, NEW p \in Steps, NEW code \in Reply,
           req' = [req EXCEPT ![r].pc = p, ![r].reply = code]
    PROVE  req' \in [Requests -> Request]
  BY DEF TypeOK, Request

\* The short moves of a request keep its type.
LEMMA GotoTypes ==
    ASSUME TypeOK, NEW r \in Requests, NEW p \in Steps, Goto(r, p)
    PROVE  req' \in [Requests -> Request]
  BY DEF TypeOK, Request, Goto

\* What the update_* methods of the repository leave in the table is a row.
LEMMA StoredType ==
    ASSUME TypeOK, NEW r \in Requests, NEW w \in Row
    PROVE  Stored(w, r) \in Row
<1> USE DEF Op, Job
<1>1. req[r] \in Request
  BY DEF TypeOK
<1>2. Job(r).want \in Spec_ /\ Job(r).op \in Ops
  BY <1>1 DEF Request, Ask
<1>3. CASE Op(r) = "delete"
  BY <1>3 DEF Stored, Row, Status, Knobs
<1>4. ASSUME NEW k \in Knobs
      PROVE  [w EXCEPT !.spec.knobs[k] =
                IF Job(r).want.knobs[k] # req[r].seen.spec.knobs[k]
                  THEN Job(r).want.knobs[k] ELSE @] \in Row
  BY <1>2 DEF Row, Spec_
<1>5. [w EXCEPT !.spec.env = IF Job(r).want.env # req[r].seen.spec.env
                               THEN Job(r).want.env ELSE @] \in Row
  BY <1>2 DEF Row, Spec_
<1>6. "image" \in Knobs
  BY DEF Knobs
<1> QED
  BY <1>3, <1>4, <1>5, <1>6 DEF Stored

\* A call on the Deployment leaves every store well typed.
LEMMA CallTypes ==
    ASSUME TypeOK, NEW r \in Requests, CallDeployment(r)
    PROVE  TypeOK'
<1> USE DEF Op, Job
<1>1. Key(r) \in Keys
  BY KeyType
<1>2. req[r] \in Request /\ Job(r) \in Ask /\ Op(r) \in Ops /\ Job(r).want \in Spec_
  BY DEF TypeOK, Request, Ask
<1>3. dep[Key(r)] \in Dep /\ dep[Key(r)].spec \in Spec_
  BY <1>1 DEF TypeOK, Dep
<1>4. req' \in [Requests -> Request]
  <2>1. AfterCall(r) \in Steps /\ AfterReply(r) \in Reply
    BY <1>2 DEF AfterCall, AfterReply, Steps, Reply, Refusal
  <2>2. "done" \in Steps /\ "unavailable" \in Reply
    BY DEF Steps, Reply
  <2> QED
    BY <2>1, <2>2, MoveTypes DEF CallDeployment, Abort
<1>5. touched' \subseteq Requests
  BY DEF CallDeployment, Takes, TypeOK
<1>6. dep' \in [Keys -> Dep] /\ revs' \in [Keys -> SUBSET Spec_] /\ hpa' \subseteq Keys
  <2>1. CASE CreateDeployment(r)
    <3>1. Rendered(Job(r)) \in Spec_ /\ Template(Rendered(Job(r))) \in Spec_
      BY <1>2, RenderedType, PatchTypes
    <3> QED
      BY <2>1, <3>1, <1>1 DEF CreateDeployment, TypeOK, Dep
  <2>2. CASE DeleteDeployment(r)
    BY <2>2, <1>1, SpecTypes DEF DeleteDeployment, TypeOK
  <2>3. CASE PatchDeployment(r)
    <3> DEFINE new == Patched(dep[Key(r)].spec, Op(r), Job(r).want)
    <3>1. new \in Spec_ /\ Template(new) \in Spec_
      BY <1>2, <1>3, PatchTypes
    <3>2. /\ dep' = [dep EXCEPT ![Key(r)].spec = new]
          /\ revs' = [revs EXCEPT ![Key(r)] = @ \union {Template(new)}]
          /\ UNCHANGED hpa
      BY <2>3 DEF PatchDeployment
    <3> HIDE DEF new
    <3> QED
      BY <3>1, <3>2, <1>1, <1>3 DEF TypeOK, Dep
  <2>4. CASE Autoscale(r)
    BY <2>4, <1>1 DEF Autoscale, TypeOK
  <2> QED
    BY <2>1, <2>2, <2>3, <2>4 DEF CallDeployment
<1> QED
  BY <1>4, <1>5, <1>6 DEF TypeOK, CallDeployment, Takes

\* A rollback to a revision the Deployment has had keeps the types.
LEMMA RollBackTypes ==
    ASSUME TypeOK, NEW r \in Requests, NEW t \in revs[Key(r)], RollBackTo(r, t)
    PROVE  TypeOK'
<1> DEFINE new == RolledBack(dep[Key(r)].spec, t)
<1>1. Key(r) \in Keys
  BY KeyType
<1>2. t \in Spec_ /\ dep[Key(r)] \in Dep /\ dep[Key(r)].spec \in Spec_
  BY <1>1 DEF TypeOK, Dep
<1>3. new \in Spec_ /\ Template(new) \in Spec_
  <2>1. new \in Spec_
    BY <1>2, PatchTypes DEF Ops
  <2> QED
    BY <2>1, PatchTypes DEF Ops
<1>4. req' \in [Requests -> Request]
  <2>1. CASE req' = [req EXCEPT ![r].pc = "store",
                                ![r].job.want.knobs["image"] = t.knobs["image"]]
    <3> DEFINE job == [Job(r) EXCEPT !.want.knobs["image"] = t.knobs["image"]]
    <3>1. t.knobs["image"] \in Values
      BY <1>2 DEF Spec_, Knobs
    <3>2. Job(r) \in Ask /\ req[r] \in Request
      BY DEF TypeOK, Request, Job
    <3>3. job \in Ask
      BY <3>1, <3>2 DEF Ask, Spec_
    <3>4. req' = [req EXCEPT ![r] = [@ EXCEPT !.pc = "store", !.job = job]]
      BY <2>1 DEF Job
    <3> HIDE DEF job
    <3> QED
      BY <3>2, <3>3, <3>4 DEF TypeOK, Request, Steps
  <2>2. CASE Abort(r, "unavailable")
    BY <2>2, MoveTypes DEF Abort, Steps, Reply
  <2> QED
    BY <2>1, <2>2 DEF RollBackTo
<1>5. /\ dep' = [dep EXCEPT ![Key(r)].spec = new]
      /\ revs' = [revs EXCEPT ![Key(r)] = @ \union {Template(new)}]
      /\ UNCHANGED <<row, svc, ing, hpa, audit>>
      /\ touched' = touched \union {r}
  BY DEF RollBackTo, Takes
<1> HIDE DEF new
<1> QED
  BY <1>1, <1>2, <1>3, <1>4, <1>5 DEF TypeOK, Dep

\* Every step keeps the types.
LEMMA TypeStep == TypeOK /\ [Next]_vars => TypeOK'
<1> SUFFICES ASSUME TypeOK, [Next]_vars PROVE TypeOK'
  OBVIOUS
<1>1. ASSUME NEW r \in Requests, NEW a \in Asks, Accept(r, a) \/ Reject(r, a)
      PROVE  TypeOK'
  <2>1. a \in Ask /\ row[a.name] \in Row
    BY ConstantAssumption DEF TypeOK, Ask
  <2>2. PICK p \in Steps, code \in Reply : Arrive(r, a, p, code)
    BY <1>1 DEF Accept, Reject, Steps, Reply, Refusal
  <2> QED
    BY <2>1, <2>2 DEF Arrive, TypeOK, Request, cluster
<1>2. ASSUME NEW r \in Requests, Serve(r)
      PROVE  TypeOK'
  <2>1. Key(r) \in Keys
    BY KeyType
  <2>2. Job(r).name \in Names /\ Job(r) \in Ask
    BY DEF TypeOK, Request, Ask, Job
  <2> USE DEF Settle, Abort
  <2>3. CASE CallDeployment(r)
    BY <2>3, CallTypes
  <2>4. CASE \E t \in revs[Key(r)] : RollBackTo(r, t)
    BY <2>4, RollBackTypes
  <2>5. CASE DeploymentGone(r)
    <3>1. AfterCall(r) \in Steps
      BY DEF AfterCall, Steps
    <3> QED
      BY <2>5, <3>1, GotoTypes DEF DeploymentGone, TypeOK, cluster
  <2>6. CASE CallRefused(r)
    BY <2>6, MoveTypes DEF CallRefused, TypeOK, cluster, Steps, Reply, Refusal
  <2>7. CASE CreateService(r)
    BY <2>7, <2>1, GotoTypes DEF CreateService, TypeOK, Steps
  <2>8. CASE CreateIngress(r)
    BY <2>8, <2>1 DEF CreateIngress, TypeOK, Steps, Request
  <2>9. CASE RouteFails(r)
    BY <2>9, GotoTypes DEF RouteFails, TypeOK, cluster, Steps
  <2>10. CASE DropRoute(r)
    BY <2>10, <2>1, GotoTypes DEF DropRoute, TypeOK, Steps
  <2>11. CASE RouteCallBreaks(r)
    BY <2>11, MoveTypes DEF RouteCallBreaks, TypeOK, cluster, Steps, Reply
  <2>12. CASE Insert(r)
    <3>1. [status |-> "pending", ns |-> Job(r).ns, port |-> Job(r).port,
           hosted |-> req[r].hosted, spec |-> Job(r).want] \in Row
      BY <2>2 DEF Row, Status, Ask, TypeOK, Request
    <3> QED
      BY <2>12, <2>2, <3>1, GotoTypes DEF Insert, TypeOK, cluster, Steps
  <2>13. CASE InsertConflict(r)
    BY <2>13, MoveTypes DEF InsertConflict, TypeOK, cluster, Steps, Reply
  <2>14. CASE Mark(r)
    BY <2>14, <2>2, MoveTypes DEF Mark, TypeOK, cluster, Steps, Reply, Row, Status
  <2>15. CASE Store(r)
    <3>1. Stored(row[Job(r).name], r) \in Row
      BY <2>2, StoredType DEF TypeOK
    <3> QED
      BY <2>15, <2>2, <3>1, MoveTypes DEF Store, TypeOK, cluster, Steps, Reply
  <2>16. CASE WriteFails(r)
    BY <2>16, MoveTypes DEF WriteFails, TypeOK, cluster, Steps, Reply
  <2>17. CASE Answer(r)
    BY <2>17, GotoTypes DEF Answer, TypeOK, cluster, Steps
  <2> QED
    BY <1>2, <2>3, <2>4, <2>5, <2>6, <2>7, <2>8, <2>9, <2>10, <2>11, <2>12,
       <2>13, <2>14, <2>15, <2>16, <2>17 DEF Serve
<1>3. CASE Crash
  BY <1>3 DEF Crash, TypeOK, Request, Steps, Reply, cluster
<1>4. ASSUME NEW k \in Keys, Rescale(k)
      PROVE  TypeOK'
  <2>1. PICK v \in Values \ {0} :
          dep' = [dep EXCEPT ![k].spec.knobs["replicas"] = v]
    BY <1>4 DEF Rescale
  <2> DEFINE s == [dep[k].spec EXCEPT !.knobs["replicas"] = v]
  <2>2. dep[k] \in Dep /\ dep[k].spec \in Spec_
    BY DEF TypeOK, Dep
  <2>3. s \in Spec_
    BY <2>2 DEF Spec_
  <2>4. dep' = [dep EXCEPT ![k] = [@ EXCEPT !.spec = s]]
    BY <2>1
  <2> HIDE DEF s
  <2> QED
    BY <1>4, <2>2, <2>3, <2>4 DEF Rescale, TypeOK, Dep
<1>5. CASE UNCHANGED vars
  BY <1>5 DEF vars, TypeOK
<1> QED
  BY <1>1, <1>2, <1>3, <1>4, <1>5 DEF Next

\* The types hold at first.
LEMMA TypeInit == Init => TypeOK
  BY SpecTypes DEF Init, TypeOK, Request, Steps, Reply, Refusal

\* In every reachable state the tables, the cluster and the requests hold
\* values of their types, whatever the requests do and whatever fails.
THEOREM TypeCorrect == Spec => []TypeOK
  BY TypeInit, TypeStep, PTL DEF Spec

-----------------------------------------------------------------------------
(* The safety invariant.                                                   *)

\* What a step serving r leaves alone: the other requests, and what r is
\* about.  (A rollback rewrites the image it will store, nothing else.)
LEMMA ServeFrame ==
    ASSUME TypeOK, NEW r \in Requests, Serve(r)
    PROVE  /\ req' \in [Requests -> Request]
           /\ \A q \in Requests \ {r} : req'[q] = req[q]
           /\ req'[r].job.op = req[r].job.op
           /\ req'[r].job.name = req[r].job.name
           /\ req'[r].job.ns = req[r].job.ns
           /\ req'[r].seen = req[r].seen
           /\ req[r].pc \notin {"idle", "done"}
           /\ req'[r].pc # "idle"
<1>1. req' \in [Requests -> Request]
  BY TypeStep DEF Next, TypeOK
<1> USE DEF TypeOK, Request, Goto, Settle, Abort, At
<1>2. CASE CallDeployment(r)
  BY <1>1, <1>2 DEF CallDeployment, Takes, AfterCall
<1>3. CASE \E t \in revs[Key(r)] : RollBackTo(r, t)
  BY <1>1, <1>3 DEF RollBackTo, Takes, Ask
<1>4. CASE DeploymentGone(r) \/ CallRefused(r)
  BY <1>1, <1>4 DEF DeploymentGone, CallRefused, AfterCall
<1>5. CASE CreateService(r) \/ CreateIngress(r) \/ RouteFails(r) \/ DropRoute(r) \/ RouteCallBreaks(r)
  BY <1>1, <1>5 DEF CreateService, CreateIngress, RouteFails, DropRoute, RouteCallBreaks
<1>6. CASE Insert(r) \/ InsertConflict(r) \/ Mark(r) \/ Store(r) \/ WriteFails(r) \/ Answer(r)
  BY <1>1, <1>6 DEF Insert, InsertConflict, Mark, Store, WriteFails, Answer
<1> QED
  BY <1>2, <1>3, <1>4, <1>5, <1>6 DEF Serve

\* How a step serving r moves it, and the answer it then has.
LEMMA ServeMoves ==
    ASSUME TypeOK, Phases, NEW r \in Requests, Serve(r)
    PROVE  LET p == req[r].pc
               q == req'[r].pc
               a == req[r].reply
               b == req'[r].reply
               o == Op(r) IN
           \/ /\ p = "k8s" /\ touched' = touched \union {r}
              /\ \/ q \in {"service", "insert"} /\ o = "create" /\ b = "none"
                 \/ q = "drop_ingress" /\ o = "delete" /\ b = "none"
                 \/ q = "store" /\ o \notin {"create", "hpa_put", "hpa_delete"} /\ b = "none"
                 \/ q \in {"answer", "done"} /\ o # "create" /\ b = "ok"
                 \/ q = "done" /\ b = "unavailable"
           \/ /\ p = "k8s" /\ UNCHANGED touched
              /\ \/ q \in {"drop_ingress", "store"} /\ o = "delete" /\ b = "none"
                 \/ q = "answer" /\ b \in {"bad_gateway", "not_found"}
                 \/ q = "done" /\ b = "unavailable"
           \/ /\ p # "k8s" /\ UNCHANGED touched
              /\ \/ p = "service" /\ q \in {"ingress", "insert"} /\ b = "none"
                 \/ p = "ingress" /\ q = "insert" /\ b = "none"
                 \/ p = "drop_ingress" /\ q = "drop_service" /\ b = "none"
                 \/ p = "drop_service" /\ q = "store" /\ b = "none"
                 \/ p \notin {"answer", "k8s"} /\ q = "done" /\ b \in {"unavailable", "error"}
                 \/ p = "insert" /\ q = "mark" /\ b = "none" /\ Insert(r)
                 \/ p \in {"mark", "store"} /\ q = "answer" /\ b = "ok"
                 \/ p = "answer" /\ q = "done" /\ b = a
<1> USE DEF TypeOK, Request, Goto, Settle, Abort, At, Phases
<1>2. CASE CallDeployment(r)
  <2>1. touched' = touched \union {r} /\ req[r].pc = "k8s"
    BY <1>2 DEF CallDeployment, Takes
  <2>2. CASE Abort(r, "unavailable")
    BY <2>1, <2>2
  <2>3. CASE req' = [req EXCEPT ![r].pc = AfterCall(r), ![r].reply = AfterReply(r)]
    <3>1. req'[r].pc = AfterCall(r) /\ req'[r].reply = AfterReply(r)
      BY <2>3
    <3>2. Op(r) \in Ops
      BY DEF Op, Job, Ask
    <3> QED
      BY <2>1, <3>1, <3>2 DEF AfterCall, AfterReply, Updates, Knobs, Ops
  <2> QED
    BY <1>2, <2>2, <2>3 DEF CallDeployment
<1>3. CASE \E t \in revs[Key(r)] : RollBackTo(r, t)
  <2>1. req[r].pc = "k8s" /\ Op(r) = "rollback" /\ touched' = touched \union {r}
    BY <1>3 DEF RollBackTo, Takes
  <2>2. PICK t \in revs[Key(r)] : RollBackTo(r, t)
    BY <1>3
  <2>3. CASE Abort(r, "unavailable")
    BY <2>1, <2>3
  <2>4. CASE req' = [req EXCEPT ![r].pc = "store",
                                ![r].job.want.knobs["image"] = t.knobs["image"]]
    <3>1. req'[r].pc = "store" /\ req'[r].reply = req[r].reply
      BY <2>4
    <3> QED
      BY <2>1, <3>1
  <2> QED
    BY <2>2, <2>3, <2>4 DEF RollBackTo
<1>4. CASE DeploymentGone(r)
  <2>1. req[r].pc = "k8s" /\ Op(r) = "delete" /\ UNCHANGED touched
    BY <1>4 DEF DeploymentGone, cluster
  <2>2. req'[r].pc \in {"drop_ingress", "store"} /\ req'[r].reply = "none"
    BY <1>4, <2>1 DEF DeploymentGone, AfterCall
  <2> QED
    BY <2>1, <2>2
<1>5. CASE CallRefused(r)
  BY <1>5 DEF CallRefused, cluster
<1>6. CASE CreateService(r) \/ CreateIngress(r) \/ RouteFails(r) \/ DropRoute(r) \/ RouteCallBreaks(r)
  BY <1>6 DEF CreateService, CreateIngress, RouteFails, DropRoute, RouteCallBreaks, cluster
<1>7. CASE Insert(r) \/ InsertConflict(r) \/ Mark(r) \/ Store(r) \/ WriteFails(r) \/ Answer(r)
  BY <1>7 DEF Insert, InsertConflict, Mark, Store, WriteFails, Answer, cluster
<1> QED
  BY <1>2, <1>3, <1>4, <1>5, <1>6, <1>7 DEF Serve

\* What a step serving r does to the rows: nothing, its INSERT, a status from
\* its own kind of commit, or columns that are neither status nor namespace.
LEMMA ServeRows ==
    ASSUME TypeOK, Phases, NEW r \in Requests, Serve(r)
    PROVE  \/ Insert(r)
           \/ /\ ~Insert(r)
              /\ \A n \in Names : row'[n].ns = row[n].ns
              /\ \A n \in Names :
                    \/ row'[n].status = row[n].status
                    \/ n = Job(r).name /\ row'[n].status = "running" /\ Mark(r)
                    \/ /\ n = Job(r).name /\ row'[n].status = "deleted"
                       /\ At(r, "store") /\ Op(r) = "delete"
<1> USE DEF TypeOK
<1>1. Job(r).name \in Names
  BY DEF Job, Request, Ask
<1>2. CASE Insert(r)
  BY <1>2
<1>3. CASE Mark(r)
  BY <1>1, <1>3 DEF Mark, Insert, At, Row
<1>4. CASE Store(r)
  <2>1. /\ Stored(row[Job(r).name], r).ns = row[Job(r).name].ns
        /\ \/ Stored(row[Job(r).name], r).status = row[Job(r).name].status
           \/ Stored(row[Job(r).name], r).status = "deleted" /\ Op(r) = "delete"
    BY <1>1 DEF Stored, Row
  <2> QED
    BY <1>1, <1>4, <2>1 DEF Store, Insert, At
<1>5. CASE CallDeployment(r) \/ \E t \in revs[Key(r)] : RollBackTo(r, t)
  BY <1>5 DEF CallDeployment, RollBackTo, Takes, Insert, At
<1>6. CASE DeploymentGone(r) \/ CallRefused(r)
  BY <1>6 DEF DeploymentGone, CallRefused, Insert, At
<1>7. CASE CreateService(r) \/ CreateIngress(r) \/ RouteFails(r) \/ DropRoute(r) \/ RouteCallBreaks(r)
  <2>1. UNCHANGED row
    BY <1>7 DEF CreateService, CreateIngress, RouteFails, DropRoute, RouteCallBreaks
  <2> QED
    BY <2>1
<1>8. CASE InsertConflict(r) \/ WriteFails(r) \/ Answer(r)
  <2>1. UNCHANGED row
    BY <1>8 DEF InsertConflict, WriteFails, Answer
  <2> QED
    BY <2>1
<1> QED
  BY <1>2, <1>3, <1>4, <1>5, <1>6, <1>7, <1>8 DEF Serve

\* What it does to the Deployments: only the call of a create makes one, and
\* a delete that gets past its call has found or left none.
LEMMA ServeDeployments ==
    ASSUME TypeOK, Phases, NEW r \in Requests, Serve(r)
    PROVE  /\ \A k \in Keys : dep'[k].live =>
                 dep[k].live \/ (At(r, "k8s") /\ Op(r) = "create" /\ k = Key(r)
                                  /\ touched' = touched \union {r})
           /\ At(r, "k8s") /\ Op(r) = "delete" /\ req'[r].reply = "none"
                => ~dep'[Key(r)].live
<1> USE DEF TypeOK
<1>1. Key(r) \in Keys
  BY KeyType
<1>2. CASE CallDeployment(r)
  <2>1. At(r, "k8s") /\ touched' = touched \union {r}
    BY <1>2 DEF CallDeployment, Takes
  <2>2. CASE CreateDeployment(r)
    BY <1>1, <2>1, <2>2 DEF CreateDeployment
  <2>3. CASE DeleteDeployment(r)
    BY <1>1, <2>1, <2>3 DEF DeleteDeployment, NoDep
  <2>4. CASE PatchDeployment(r)
    <3>1. Op(r) # "delete"
      BY <2>4 DEF PatchDeployment, Updates, Knobs
    <3>2. \A k \in Keys : dep'[k].live = dep[k].live
      BY <1>1, <2>4 DEF PatchDeployment, Dep
    <3> QED
      BY <3>1, <3>2
  <2>5. CASE Autoscale(r)
    BY <1>1, <2>5 DEF Autoscale
  <2> QED
    BY <1>2, <2>2, <2>3, <2>4, <2>5 DEF CallDeployment
<1>3. CASE \E t \in revs[Key(r)] : RollBackTo(r, t)
  <2>1. Op(r) # "delete" /\ \A k \in Keys : dep'[k].live = dep[k].live
    BY <1>1, <1>3 DEF RollBackTo, Dep
  <2> QED
    BY <2>1
<1>4. CASE DeploymentGone(r)
  BY <1>4 DEF DeploymentGone, cluster
<1>5. CASE CallRefused(r)
  BY <1>5 DEF CallRefused, cluster, Settle, Abort, Request, Impossible
<1>6. CASE CreateService(r) \/ CreateIngress(r) \/ RouteFails(r) \/ DropRoute(r) \/ RouteCallBreaks(r)
  <2>1. UNCHANGED dep /\ ~At(r, "k8s")
    BY <1>6 DEF CreateService, CreateIngress, RouteFails, DropRoute, RouteCallBreaks, cluster, At
  <2> QED
    BY <2>1
<1>7. CASE Insert(r) \/ InsertConflict(r) \/ Mark(r) \/ Store(r) \/ WriteFails(r) \/ Answer(r)
  <2>1. UNCHANGED dep /\ ~At(r, "k8s")
    BY <1>7 DEF Insert, InsertConflict, Mark, Store, WriteFails, Answer, cluster, At
  <2> QED
    BY <2>1
<1> QED
  BY <1>2, <1>3, <1>4, <1>5, <1>6, <1>7 DEF Serve

\* Requests arriving and the backend dying do not touch the stores.
LEMMA ArriveFacts ==
    ASSUME TypeOK, NEW r \in Requests, NEW a \in Asks, Accept(r, a) \/ Reject(r, a)
    PROVE  /\ UNCHANGED <<row, cluster>>
           /\ At(r, "idle")
           /\ \A q \in Requests \ {r} : req'[q] = req[q]
           /\ req'[r].job = a /\ req'[r].seen = row[a.name]
           /\ \/ /\ req'[r].pc = "k8s" /\ req'[r].reply = "none"
                 /\ a.op \notin {"create", "hpa_put", "hpa_delete"} => Live(row[a.name])
              \/ req'[r].pc \in {"answer", "done"} /\ req'[r].reply \in Refusal
<1> USE DEF TypeOK, Arrive, Request
<1>1. CASE Accept(r, a)
  BY <1>1 DEF Accept, NotFound, Autoscales
<1>2. CASE Reject(r, a)
  BY <1>2 DEF Reject, Refusal
<1> QED
  BY <1>1, <1>2

\* A restart of the backend ends the requests under way and nothing else.
LEMMA CrashFacts ==
    ASSUME TypeOK, Crash
    PROVE  /\ UNCHANGED <<row, cluster>>
           /\ \A q \in Requests :
                 \/ req'[q] = req[q]
                 \/ /\ req[q].pc \notin {"idle", "done"}
                    /\ req'[q].job = req[q].job /\ req'[q].seen = req[q].seen
                    /\ req'[q].pc = "done" /\ req'[q].reply = "lost"
  BY DEF Crash, TypeOK, Request, Active

\* Every step keeps requests where their kind can be, and refusals clean.
LEMMA PhasesStep == WorkloadInv /\ [Next]_vars => Phases' /\ CleanRefusal'
<1> SUFFICES ASSUME WorkloadInv, [Next]_vars PROVE Phases' /\ CleanRefusal'
  OBVIOUS
<1> USE DEF WorkloadInv, Phases, CleanRefusal, At, Op, Job, Reported, Refusal
<1>1. ASSUME NEW r \in Requests, NEW a \in Asks, Accept(r, a) \/ Reject(r, a)
      PROVE  Phases' /\ CleanRefusal'
  BY <1>1, ArriveFacts DEF cluster
<1>2. ASSUME NEW r \in Requests, Serve(r)
      PROVE  Phases' /\ CleanRefusal'
  <2>1. \A q \in Requests \ {r} : req'[q] = req[q]
    BY <1>2, ServeFrame
  <2>2. touched' \in {touched, touched \union {r}}
    BY <1>2, ServeMoves
  <2>3. Phases!(r)' /\ (req'[r].reply \in Refusal => r \notin touched')
    <3>1. req'[r].job.op = req[r].job.op
      BY <1>2, ServeFrame
    <3> QED
      BY <1>2, <3>1, ServeMoves
  <2> QED
    BY <2>1, <2>2, <2>3
<1>3. CASE Crash
  BY <1>3, CrashFacts DEF cluster
<1>4. ASSUME NEW k \in Keys, Rescale(k)
      PROVE  Phases' /\ CleanRefusal'
  BY <1>4 DEF Rescale
<1>5. CASE UNCHANGED vars
  BY <1>5 DEF vars
<1> QED
  BY <1>1, <1>2, <1>3, <1>4, <1>5 DEF Next

\* Every step keeps the rows of registered creates, and one create per name.
LEMMA RegisteredStep == WorkloadInv /\ [Next]_vars => RegisteredOnce'
<1> SUFFICES ASSUME WorkloadInv, [Next]_vars PROVE RegisteredOnce'
  OBVIOUS
<1> USE DEF WorkloadInv, RegisteredOnce, Registered, At, Op, Job
<1>1. ASSUME NEW r \in Requests, NEW a \in Asks, Accept(r, a) \/ Reject(r, a)
      PROVE  RegisteredOnce'
  BY <1>1, ArriveFacts DEF cluster, Refusal
<1>2. ASSUME NEW r \in Requests, Serve(r)
      PROVE  RegisteredOnce'
  <2>1. /\ \A q \in Requests \ {r} : req'[q] = req[q]
        /\ req'[r].job.op = req[r].job.op /\ req'[r].job.name = req[r].job.name
    BY <1>2, ServeFrame
  <2>2. \A q \in Requests : req[q].job.name \in Names
    BY DEF TypeOK, Request, Ask
  <2>3. CASE Insert(r)
    <3>1. /\ row[Job(r).name].status = "absent"
          /\ \A n \in Names \ {Job(r).name} : row'[n] = row[n]
          /\ row'[Job(r).name].status = "pending"
      BY <2>2, <2>3 DEF Insert, TypeOK
    <3> QED
      BY <2>1, <2>2, <3>1
  <2>4. CASE ~Insert(r)
    <3>1. \A n \in Names : row'[n].status = "absent" => row[n].status = "absent"
      BY <1>2, <2>4, ServeRows
    <3>2. Registered(r)' => Registered(r)
      BY <1>2, <2>1, <2>4, ServeMoves DEF Phases, TypeOK, Request
    <3> QED
      BY <2>1, <2>2, <3>1, <3>2
  <2> QED
    BY <2>3, <2>4
<1>3. CASE Crash
  BY <1>3, CrashFacts
<1>4. ASSUME NEW k \in Keys, Rescale(k)
      PROVE  RegisteredOnce'
  BY <1>4 DEF Rescale
<1>5. CASE UNCHANGED vars
  BY <1>5 DEF vars
<1> QED
  BY <1>1, <1>2, <1>3, <1>4, <1>5 DEF Next

\* No step moves a row to another namespace under a request that has read it.
LEMMA SeenStep == WorkloadInv /\ [Next]_vars => SeenNamespace'
<1> SUFFICES ASSUME WorkloadInv, [Next]_vars PROVE SeenNamespace'
  OBVIOUS
<1> USE DEF WorkloadInv, SeenNamespace, At, Op, Job
<1>1. ASSUME NEW r \in Requests, NEW a \in Asks, Accept(r, a) \/ Reject(r, a)
      PROVE  SeenNamespace'
  BY <1>1, ArriveFacts DEF Live
<1>2. ASSUME NEW r \in Requests, Serve(r)
      PROVE  SeenNamespace'
  <2>1. /\ \A q \in Requests \ {r} : req'[q] = req[q]
        /\ req'[r].job.op = req[r].job.op /\ req'[r].job.name = req[r].job.name
        /\ req'[r].seen = req[r].seen
    BY <1>2, ServeFrame
  <2>2. \A q \in Requests : req[q].job.name \in Names
    BY DEF TypeOK, Request, Ask
  <2>3. req'[r].pc \in {"k8s", "drop_ingress", "drop_service", "store"}
        /\ req[r].job.op \notin {"create", "hpa_put", "hpa_delete"}
        => req[r].pc \in {"k8s", "drop_ingress", "drop_service", "store"}
    BY <1>2, ServeMoves DEF Phases
  <2>4. \A n \in Names : row[n].status # "absent"
                         => row'[n].status # "absent" /\ row'[n].ns = row[n].ns
    <3>1. CASE Insert(r)
      BY <2>2, <3>1 DEF Insert, TypeOK
    <3>2. CASE ~Insert(r)
      BY <1>2, <3>2, ServeRows
    <3> QED
      BY <3>1, <3>2
  <2> QED
    BY <2>1, <2>2, <2>3, <2>4
<1>3. CASE Crash
  BY <1>3, CrashFacts
<1>4. ASSUME NEW k \in Keys, Rescale(k)
      PROVE  SeenNamespace'
  BY <1>4 DEF Rescale
<1>5. CASE UNCHANGED vars
  BY <1>5 DEF vars
<1> QED
  BY <1>1, <1>2, <1>3, <1>4, <1>5 DEF Next

\* A create whose Deployment has no row stays one, unless its own INSERT makes
\* the row; a step that serves no request cannot end it either.
LEMMA UnregisteredKept ==
    ASSUME WorkloadInv, [Next]_vars, NEW q \in Requests, NEW k \in Keys,
           Unregistered(q, k), ~Insert(q)
    PROVE  Unregistered(q, k)'
<1> USE DEF WorkloadInv, Unregistered, Key, Op, Job, Reported
<1>1. ASSUME NEW r \in Requests, NEW a \in Asks, Accept(r, a) \/ Reject(r, a)
      PROVE  Unregistered(q, k)'
  <2>1. req'[q] = req[q]
    BY <1>1, ArriveFacts DEF Phases, At
  <2> QED
    BY <2>1
<1>2. ASSUME NEW r \in Requests, Serve(r)
      PROVE  Unregistered(q, k)'
  <2>1. CASE q = r
    <3>1. /\ req'[r].job.op = req[r].job.op /\ req'[r].job.name = req[r].job.name
          /\ req'[r].job.ns = req[r].job.ns /\ req'[r].seen = req[r].seen
      BY <1>2, ServeFrame
    <3>2. req[r].pc \in {"service", "ingress", "insert"}
      BY <1>2, <2>1, ServeFrame DEF Phases, At
    <3>3. req'[r].pc \in {"service", "ingress", "insert"} \/ req'[r].reply \in Reported
      BY <1>2, <2>1, <3>2, ServeMoves
    <3> QED
      BY <2>1, <3>1, <3>3
  <2>2. CASE q # r
    <3>1. req'[q] = req[q]
      BY <1>2, <2>2, ServeFrame
    <3> QED
      BY <3>1
  <2> QED
    BY <2>1, <2>2
<1>3. CASE Crash
  <2>1. \/ req'[q] = req[q]
        \/ req'[q].job = req[q].job /\ req'[q].seen = req[q].seen /\ req'[q].reply = "lost"
    BY <1>3, CrashFacts
  <2> QED
    BY <2>1
<1>4. ASSUME NEW j \in Keys, Rescale(j)
      PROVE  Unregistered(q, k)'
  BY <1>4 DEF Rescale
<1>5. CASE UNCHANGED vars
  BY <1>5 DEF vars
<1> QED
  BY <1>1, <1>2, <1>3, <1>4, <1>5 DEF Next

\* The two invariants that account for Deployments without a live row.
Accounted(k) == \E q \in Requests : Unregistered(q, k)

\* Every step keeps a create answerable for each Deployment without a live row.
LEMMA OrphanStep == WorkloadInv /\ [Next]_vars => LeftBehind' /\ OrphansReported'
<1> SUFFICES ASSUME WorkloadInv, [Next]_vars PROVE LeftBehind' /\ OrphansReported'
  OBVIOUS
<1> USE DEF WorkloadInv
<1>0. ASSUME \A n \in Names : row'[n].status = row[n].status /\ row'[n].ns = row[n].ns,
             \A k \in Keys : dep'[k].live => dep[k].live,
             \A k \in Keys : Accounted(k) => Accounted(k)',
             \A d \in Requests : req'[d].pc \in {"drop_ingress", "drop_service", "store"}
                => req'[d] = req[d]
      PROVE  LeftBehind' /\ OrphansReported'
  <2>1. OrphansReported'
    BY <1>0 DEF OrphansReported, Accounted, Live, Keys
  <2>2. LeftBehind'
    <3> SUFFICES ASSUME NEW d \in Requests, Op(d)' = "delete",
                        req'[d].pc \in {"drop_ingress", "drop_service", "store"},
                        dep'[Key(d)'].live
                 PROVE  Accounted(Key(d))'
      BY DEF LeftBehind, Accounted
    <3>1. req'[d] = req[d]
      BY <1>0
    <3>2. Key(d)' = Key(d) /\ Op(d)' = Op(d) /\ Key(d) \in Keys
      BY <3>1, KeyType DEF Key, Op, Job
    <3> QED
      BY <1>0, <3>1, <3>2 DEF LeftBehind, Accounted
  <2> QED
    BY <2>1, <2>2
<1>1. ASSUME NEW r \in Requests, NEW a \in Asks, Accept(r, a) \/ Reject(r, a)
      PROVE  LeftBehind' /\ OrphansReported'
  <2>1. UNCHANGED <<row, dep>>
    BY <1>1, ArriveFacts DEF cluster
  <2>2. \A k \in Keys : Accounted(k) => Accounted(k)'
    <3>1. ~\E q \in Requests : Insert(q)
      BY <1>1, ArriveFacts DEF Insert, TypeOK, Phases, Row, At, Request, Ask, Goto
    <3> QED
      BY <3>1, UnregisteredKept DEF Accounted
  <2>3. \A d \in Requests : req'[d].pc \in {"drop_ingress", "drop_service", "store"}
           => req'[d] = req[d]
    BY <1>1, ArriveFacts
  <2> QED
    BY <1>0, <2>1, <2>2, <2>3
<1>2. ASSUME NEW r \in Requests, Serve(r)
      PROVE  LeftBehind' /\ OrphansReported'
  <2>1. /\ \A q \in Requests \ {r} : req'[q] = req[q]
        /\ req'[r].job.op = req[r].job.op /\ req'[r].job.name = req[r].job.name
        /\ req'[r].job.ns = req[r].job.ns /\ req'[r].seen = req[r].seen
    BY <1>2, ServeFrame
  <2>2. \A q \in Requests : Key(q)' = Key(q) /\ Op(q)' = Op(q) /\ Job(q).name' = Job(q).name
    BY <2>1 DEF Key, Op, Job
  <2>3. \A q \in Requests : Key(q) \in Keys /\ Job(q).name \in Names
    BY KeyType DEF TypeOK, Request, Ask, Job
  <2>4. CASE Insert(r)
    <3>1. /\ UNCHANGED dep /\ row[Job(r).name].status = "absent"
          /\ row'[Job(r).name].status = "pending" /\ row'[Job(r).name].ns = Job(r).ns
          /\ \A n \in Names \ {Job(r).name} : row'[n] = row[n]
          /\ Op(r) = "create"
      BY <2>3, <2>4 DEF Insert, TypeOK, cluster, Phases, At
    <3>2. \A q \in Requests \ {r} : ~Insert(q)
      BY <2>1, <2>4 DEF Insert, Goto, TypeOK, Request, At
    <3>3. \A k \in Keys \ {Key(r)} : Accounted(k) => Accounted(k)'
      BY <3>2, UnregisteredKept DEF Accounted, Unregistered
    <3>4. Key(r) = <<Job(r).ns, Job(r).name>>
      BY <3>1 DEF Key
    <3>5. OrphansReported'
      <4> SUFFICES ASSUME NEW k \in Keys, dep'[k].live,
                          ~(Live(row'[k[2]]) /\ row'[k[2]].ns = k[1])
                   PROVE  Accounted(k)'
        BY DEF OrphansReported, Accounted
      <4>1. k # Key(r)
        BY <3>1, <3>4 DEF Live
      <4>2. ~(Live(row[k[2]]) /\ row[k[2]].ns = k[1])
        BY <3>1 DEF Live, Keys
      <4> QED
        BY <3>1, <3>3, <4>1, <4>2 DEF OrphansReported, Accounted
    <3>6. LeftBehind'
      <4> SUFFICES ASSUME NEW d \in Requests, Op(d)' = "delete",
                          req'[d].pc \in {"drop_ingress", "drop_service", "store"},
                          dep'[Key(d)'].live
                   PROVE  Accounted(Key(d))'
        BY DEF LeftBehind, Accounted
      <4>1. d # r /\ req'[d] = req[d] /\ Op(d) = "delete" /\ Key(d)' = Key(d)
        BY <2>1, <2>2, <3>1
      <4>2. row[Job(d).name].status # "absent"
        BY <4>1 DEF SeenNamespace
      <4>3. Key(d) # Key(r)
        BY <3>1, <3>4, <4>1, <4>2 DEF Key
      <4> QED
        BY <2>3, <3>1, <3>3, <4>1, <4>3 DEF LeftBehind, Accounted
    <3> QED
      BY <3>5, <3>6
  <2>5. CASE ~Insert(r)
    <3>1. \A k \in Keys : Accounted(k) => Accounted(k)'
      <4>1. \A q \in Requests \ {r} : ~Insert(q)
        BY <1>2, <2>1, ServeFrame DEF Insert, Goto, TypeOK, Request, At
      <4> QED
        BY <2>5, <4>1, UnregisteredKept DEF Accounted
    <3>2. \A k \in Keys : dep'[k].live => dep[k].live \/ Accounted(k)'
      <4> SUFFICES ASSUME NEW k \in Keys, dep'[k].live, ~dep[k].live
                   PROVE  Accounted(k)'
        OBVIOUS
      <4>1. At(r, "k8s") /\ Op(r) = "create" /\ k = Key(r) /\ touched' = touched \union {r}
        BY <1>2, ServeDeployments
      <4>2. r \notin touched
        BY <4>1 DEF Phases, At
      <4>3. req'[r].pc \in {"service", "ingress", "insert"} \/ req'[r].reply \in Reported
        BY <1>2, <4>1, <4>2, ServeMoves DEF Reported, At
      <4> QED
        BY <2>2, <4>1, <4>3 DEF Accounted, Unregistered
    <3>3. LeftBehind'
      <4> SUFFICES ASSUME NEW d \in Requests, Op(d)' = "delete",
                          req'[d].pc \in {"drop_ingress", "drop_service", "store"},
                          dep'[Key(d)'].live
                   PROVE  Accounted(Key(d))'
        BY DEF LeftBehind, Accounted
      <4>1. Key(d)' = Key(d) /\ Op(d) = "delete" /\ Key(d) \in Keys
        BY <2>2, <2>3
      <4>2. CASE d = r /\ At(r, "k8s")
        <5>1. req'[r].reply = "none"
          BY <1>2, <4>1, <4>2, ServeMoves DEF At
        <5> QED
          BY <1>2, <4>1, <4>2, <5>1, ServeDeployments
      <4>3. CASE d # r \/ ~At(r, "k8s")
        <5>1. req[d].pc \in {"drop_ingress", "drop_service", "store"}
          BY <1>2, <2>1, <4>1, <4>3, ServeMoves DEF At
        <5> QED
          BY <3>1, <3>2, <4>1, <5>1 DEF LeftBehind, Accounted
      <4> QED
        BY <4>2, <4>3
    <3>4. OrphansReported'
      <4> SUFFICES ASSUME NEW k \in Keys, dep'[k].live,
                          ~(Live(row'[k[2]]) /\ row'[k[2]].ns = k[1])
                   PROVE  Accounted(k)'
        BY DEF OrphansReported, Accounted
      <4>1. k[1] \in Namespaces /\ k[2] \in Names /\ k = <<k[1], k[2]>>
        BY DEF Keys
      <4>2. CASE dep[k].live
        <5>1. CASE ~(Live(row[k[2]]) /\ row[k[2]].ns = k[1])
          BY <3>1, <4>2, <5>1 DEF OrphansReported, Accounted
        <5>2. CASE Live(row[k[2]]) /\ row[k[2]].ns = k[1]
          <6>1. k[2] = Job(r).name /\ At(r, "store") /\ Op(r) = "delete"
            BY <1>2, <2>5, <4>1, <5>2, ServeRows DEF Live
          <6>2. row[Job(r).name].ns = req[r].seen.ns
            BY <6>1 DEF SeenNamespace, At
          <6>3. Key(r) = k
            BY <4>1, <5>2, <6>1, <6>2 DEF Key
          <6> QED
            BY <3>1, <4>2, <6>1, <6>3 DEF LeftBehind, Accounted, At
        <5> QED
          BY <5>1, <5>2
      <4> QED
        BY <3>2, <4>2
    <3> QED
      BY <3>3, <3>4
  <2> QED
    BY <2>4, <2>5
<1>3. CASE Crash
  <2>1. UNCHANGED <<row, dep>>
    BY <1>3, CrashFacts DEF cluster
  <2>2. \A d \in Requests : req'[d].pc \in {"drop_ingress", "drop_service", "store"}
           => req'[d] = req[d]
    BY <1>3, CrashFacts
  <2>3. ~\E q \in Requests : Insert(q)
    <3> SUFFICES ASSUME NEW q \in Requests, Insert(q) PROVE FALSE
      OBVIOUS
    <3>1. req[q].pc = "insert" /\ req'[q].pc = "mark"
      BY DEF Insert, Goto, TypeOK, Request, At
    <3>2. req'[q] = req[q] \/ req'[q].pc = "done"
      BY <1>3, CrashFacts
    <3> QED
      BY <3>1, <3>2
  <2>4. \A k \in Keys : Accounted(k) => Accounted(k)'
    BY <2>3, UnregisteredKept DEF Accounted
  <2> QED
    BY <1>0, <2>1, <2>2, <2>4
<1>4. ASSUME NEW j \in Keys, Rescale(j)
      PROVE  LeftBehind' /\ OrphansReported'
  <2>1. UNCHANGED <<row, req>> /\ \A k \in Keys : dep'[k].live = dep[k].live
    BY <1>4 DEF Rescale, TypeOK, Dep
  <2>2. \A k \in Keys : Accounted(k)' = Accounted(k)
    BY <2>1 DEF Accounted, Unregistered, Key, Op, Job, At
  <2> QED
    BY <1>0, <2>1, <2>2
<1>5. CASE UNCHANGED vars
  <2>1. \A k \in Keys : Accounted(k)' = Accounted(k)
    BY <1>5 DEF Accounted, Unregistered, Key, Op, Job, vars
  <2> QED
    BY <1>0, <1>5, <2>1 DEF vars
<1> QED
  BY <1>1, <1>2, <1>3, <1>4, <1>5 DEF Next

-----------------------------------------------------------------------------
\* The inductive invariant holds at first.
LEMMA InvInit == Init => WorkloadInv
<1> SUFFICES ASSUME Init PROVE WorkloadInv
  OBVIOUS
<1>1. TypeOK
  BY TypeInit
<1>2. \A r \in Requests : req[r].pc = "idle" /\ req[r].reply = "none"
  BY DEF Init
<1>3. touched = {} /\ \A k \in Keys : ~dep[k].live
  BY DEF Init, NoDep
<1> QED
  BY <1>1, <1>2, <1>3 DEF WorkloadInv, Phases, CleanRefusal, RegisteredOnce,
     Registered, SeenNamespace, LeftBehind, OrphansReported, At, Reported, Refusal

\* Every reachable state satisfies the inductive invariant.
THEOREM Invariance == Spec => []WorkloadInv
<1>1. WorkloadInv /\ [Next]_vars => WorkloadInv'
  <2>1. WorkloadInv => TypeOK
    BY DEF WorkloadInv
  <2> QED
    BY <2>1, TypeStep, PhasesStep, RegisteredStep, SeenStep, OrphanStep DEF WorkloadInv
<1> QED
  BY InvInit, <1>1, PTL DEF Spec

\* A request answered 400, 404, 409 or 502 has not changed the cluster.
THEOREM RefusalsAreClean == Spec => []CleanRefusal
<1>1. WorkloadInv => CleanRefusal
  BY DEF WorkloadInv
<1> QED
  BY Invariance, <1>1, PTL

\* At most one create of a name is ever answered 201.
THEOREM NamesAreCreatedOnce == Spec => []CreatedOnce
<1>1. WorkloadInv => CreatedOnce
  BY DEF WorkloadInv, RegisteredOnce, Registered, CreatedOnce
<1> QED
  BY Invariance, <1>1, PTL

\* A Deployment without a live row was left by a create that has not reached
\* its INSERT, or that answered 500 or 503 or died: never by a delete or a race
\* in which every client was told of success.
THEOREM NoSilentOrphan == Spec => []OrphansReported
<1>1. WorkloadInv => OrphansReported
  BY DEF WorkloadInv
<1> QED
  BY Invariance, <1>1, PTL

\* An entry of the audit log was written on the way to the answer it names, and
\* a request that is about to write one has its answer.
AuditMatches ==
    \A r \in Requests :
        /\ At(r, "answer") => req[r].reply # "none"
        /\ <<r, "failure">> \in audit => At(r, "done") /\ req[r].reply \in Refusal
        /\ <<r, "success">> \in audit => At(r, "done") /\ req[r].reply = "ok"

\* A request that is served moves to its audit entry only with an answer.
LEMMA AnswerHasReply ==
    ASSUME TypeOK, Phases, NEW r \in Requests, Serve(r), req'[r].pc = "answer"
    PROVE  req'[r].reply # "none"
<1> USE DEF TypeOK, Phases, Request, At, Goto, Settle, Abort
<1>1. CASE CallDeployment(r)
  BY <1>1 DEF CallDeployment, Takes, AfterReply
<1>2. CASE (\E t \in revs[Key(r)] : RollBackTo(r, t)) \/ DeploymentGone(r) \/ CallRefused(r)
  BY <1>2 DEF RollBackTo, Takes, DeploymentGone, CallRefused, AfterCall, Updates, Knobs
<1>3. CASE CreateService(r) \/ CreateIngress(r) \/ RouteFails(r) \/ DropRoute(r) \/ RouteCallBreaks(r)
  BY <1>3 DEF CreateService, CreateIngress, RouteFails, DropRoute, RouteCallBreaks
<1>4. CASE Insert(r) \/ InsertConflict(r) \/ Mark(r) \/ Store(r) \/ WriteFails(r) \/ Answer(r)
  BY <1>4 DEF Insert, InsertConflict, Mark, Store, WriteFails, Answer
<1> QED
  BY <1>1, <1>2, <1>3, <1>4 DEF Serve

\* A request that is served writes at most its own entry, with its answer.
LEMMA AuditWrites ==
    ASSUME NEW r \in Requests, Serve(r)
    PROVE  \/ UNCHANGED audit
           \/ Answer(r)
<1> QED
  BY DEF Serve, CallDeployment, RollBackTo, Takes, DeploymentGone, CallRefused,
     CreateService, CreateIngress, RouteFails, DropRoute, RouteCallBreaks,
     Insert, InsertConflict, Mark, Store, WriteFails

\* Every step keeps the audit log and the answers matched.
LEMMA AuditStep == WorkloadInv /\ AuditMatches /\ [Next]_vars => AuditMatches'
<1> SUFFICES ASSUME WorkloadInv, AuditMatches, [Next]_vars PROVE AuditMatches'
  OBVIOUS
<1> USE DEF WorkloadInv, AuditMatches, At
<1>1. ASSUME NEW r \in Requests, NEW a \in Asks, Accept(r, a) \/ Reject(r, a)
      PROVE  AuditMatches'
  <2>1. UNCHANGED audit
    BY <1>1 DEF Accept, Reject, Arrive
  <2> QED
    BY <1>1, <2>1, ArriveFacts DEF Refusal
<1>2. ASSUME NEW r \in Requests, Serve(r)
      PROVE  AuditMatches'
  <2>1. /\ req[r].pc # "done"
        /\ \A q \in Requests \ {r} : req'[q] = req[q]
    BY <1>2, ServeFrame
  <2>2. CASE UNCHANGED audit
    BY <1>2, <2>1, <2>2, AnswerHasReply
  <2>3. CASE Answer(r)
    <3>1. /\ req'[r].pc = "done" /\ req'[r].reply = req[r].reply
      BY <2>3 DEF Answer, Goto, TypeOK, Request
    <3>2. req[r].reply = "ok" \/ req[r].reply \in Refusal
      BY <2>3 DEF Answer, Phases, Reported, TypeOK, Request, Reply, Refusal
    <3>3. audit' \subseteq audit \union
             {<<r, IF req[r].reply = "ok" THEN "success" ELSE "failure">>}
      BY <2>3 DEF Answer
    <3> QED
      BY <2>1, <3>1, <3>2, <3>3 DEF Refusal
  <2> QED
    BY <1>2, <2>2, <2>3, AuditWrites
<1>3. CASE Crash
  <2>1. UNCHANGED audit
    BY <1>3 DEF Crash
  <2> QED
    BY <1>3, <2>1, CrashFacts
<1>4. ASSUME NEW k \in Keys, Rescale(k)
      PROVE  AuditMatches'
  BY <1>4 DEF Rescale
<1>5. CASE UNCHANGED vars
  BY <1>5 DEF vars
<1> QED
  BY <1>1, <1>2, <1>3, <1>4, <1>5 DEF Next

\* A failure is logged only for a request that left the cluster as it was, and
\* the row of a create logged as a success is in the table.
THEOREM TruthfulAudit == Spec => []AuditTruthful
<1>1. Init => AuditMatches
  BY DEF Init, AuditMatches, At
<1>2. WorkloadInv /\ AuditMatches => AuditTruthful
  BY DEF WorkloadInv, AuditMatches, AuditTruthful, CleanRefusal, RegisteredOnce, Registered, At
<1> QED
  BY Invariance, <1>1, AuditStep, <1>2, PTL DEF Spec

\* Only the second commit of a create takes a row out of "deleted".
THEOREM OnlyCreateRevives == Spec => OnlyMarkRevives
<1> DEFINE Step == \A n \in Names :
                      row[n].status = "deleted" /\ row'[n].status # "deleted"
                      => \E r \in Requests : Job(r).name = n /\ Mark(r)
<1>1. WorkloadInv /\ [Next]_vars => [Step]_vars
  <2> SUFFICES ASSUME WorkloadInv, Next PROVE Step
    BY DEF vars
  <2> USE DEF WorkloadInv
  <2>1. ASSUME NEW r \in Requests, NEW a \in Asks, Accept(r, a) \/ Reject(r, a)
        PROVE  Step
    BY <2>1, ArriveFacts
  <2>2. ASSUME NEW r \in Requests, Serve(r)
        PROVE  Step
    <3>1. CASE Insert(r)
      BY <3>1 DEF Insert, TypeOK, Request, Ask, Job
    <3>2. CASE ~Insert(r)
      BY <2>2, <3>2, ServeRows
    <3> QED
      BY <3>1, <3>2
  <2>3. CASE Crash
    BY <2>3, CrashFacts
  <2>4. ASSUME NEW k \in Keys, Rescale(k)
        PROVE  Step
    BY <2>4 DEF Rescale
  <2> QED
    BY <2>1, <2>2, <2>3, <2>4 DEF Next
<1> QED
  BY Invariance, <1>1, PTL DEF Spec, OnlyMarkRevives

-----------------------------------------------------------------------------
(* When clients take turns.                                                *)

\* One request is served at a time; the Kubernetes API may refuse any call, and an
\* audit entry be lost, but no connection breaks, no commit fails and the backend
\* stays up; and the autoscaler routes are not used.
TakeTurns ==
    /\ MaxInFlight = 1
    /\ Faults \intersect {"conn", "db", "crash"} = {}
    /\ \A a \in Asks : ~Autoscales(a)

\* Where the row is behind the cluster.
Midway == {"store", "drop_ingress", "drop_service"}

\* The request, its workload and the Deployment it addresses.
LEMMA TurnTypes ==
    ASSUME TypeOK, NEW r \in Requests
    PROVE  /\ req[r] \in Request /\ req \in [Requests -> Request]
           /\ Job(r) \in Ask /\ Job(r).name \in Names /\ Job(r).ns \in Namespaces
           /\ Job(r).want \in Spec_ /\ row[Job(r).name] \in Row
           /\ Key(r) \in Keys /\ Key(r)[2] = Job(r).name
           /\ dep[Key(r)] \in Dep /\ dep[Key(r)].spec \in Spec_
           /\ row \in [Names -> Row] /\ dep \in [Keys -> Dep]
           /\ \A m \in Names : <<row[m].ns, m>> \in Keys
<1>1. req[r] \in Request /\ req \in [Requests -> Request]
  BY DEF TypeOK
<1>2. Job(r) \in Ask
  BY <1>1 DEF Request, Job
<1>3. Job(r).name \in Names /\ Job(r).ns \in Namespaces /\ Job(r).want \in Spec_
  BY <1>2 DEF Ask
<1>4. Key(r) \in Keys /\ Key(r)[2] = Job(r).name
  BY KeyType DEF Key
<1>5. row \in [Names -> Row] /\ dep \in [Keys -> Dep]
  BY DEF TypeOK
<1>6. \A m \in Names : <<row[m].ns, m>> \in Keys
  BY <1>5 DEF Row, Keys
<1> QED
  BY <1>1, <1>2, <1>3, <1>4, <1>5, <1>6 DEF Dep

\* A workload agrees as before when neither its row nor what it names changes.
LEMMA AgreesAsBefore ==
    ASSUME NEW m \in Names, Agrees(m), row'[m] = row[m],
           dep'[<<row[m].ns, m>>] = dep[<<row[m].ns, m>>],
           <<row[m].ns, m>> \in svc => <<row[m].ns, m>> \in svc',
           <<row[m].ns, m>> \in ing => <<row[m].ns, m>> \in ing'
    PROVE  Agrees(m)'
  BY DEF Agrees, Live

\* The request that is served goes on, and touches its own workload only.
LEMMA TurnServed ==
    ASSUME TypeOK, TurnsInv, NEW r \in Active, NEW new \in Request,
           NEW n \in Names, n = Job(r).name,
           req' = [req EXCEPT ![r] = new], new.job.name = n, ~Autoscales(new.job),
           UNCHANGED hpa,
           \A m \in Names \ {n} :
              /\ row'[m] = row[m]
              /\ dep'[<<row[m].ns, m>>] = dep[<<row[m].ns, m>>]
              /\ <<row[m].ns, m>> \in svc => <<row[m].ns, m>> \in svc'
              /\ <<row[m].ns, m>> \in ing => <<row[m].ns, m>> \in ing',
           new.pc \notin {"idle", "answer", "done"} => Progress(r)',
           Agrees(n)' \/ new.pc \in Midway
    PROVE  TurnsInv'
<1>1. r \in Requests
  BY DEF Active
<1>2. /\ req \in [Requests -> Request] /\ req'[r] = new
      /\ \A q \in Requests \ {r} : req'[q] = req[q]
  BY <1>1, TurnTypes
<1>3. Active \subseteq {r} /\ Active' \subseteq {r}
  BY <1>2 DEF TurnsInv, Active
<1>4. \A q \in Requests : ~Autoscales(Job(q))'
  BY <1>2 DEF TurnsInv, Job, Autoscales
<1>5. \A q \in Active' : Progress(q)'
  <2>1. CASE new.pc \in {"idle", "done"}
    BY <1>2, <1>3, <2>1 DEF Active
  <2>2. CASE new.pc = "answer"
    BY <1>2, <1>3, <2>2 DEF Progress, At
  <2> QED
    BY <1>3, <2>1, <2>2
<1>6. ASSUME NEW m \in Names
      PROVE  Agrees(m)' \/ \E q \in Active' : Job(q)'.name = m /\ req'[q].pc \in Midway
  <2>1. CASE m # n
    <3>1. Agrees(m)
      BY <1>3, <2>1 DEF TurnsInv
    <3> QED
      BY <2>1, <3>1, AgreesAsBefore
  <2>2. CASE m = n /\ new.pc \in Midway
    <3>1. r \in Active' /\ Job(r)'.name = n
      BY <1>1, <1>2, <2>2 DEF Active, Midway, Job
    <3> QED
      BY <1>2, <2>2, <3>1
  <2> QED
    BY <2>1, <2>2
<1> QED
  BY <1>3, <1>4, <1>5, <1>6 DEF TurnsInv, Midway

\* What is true of the request that is served, and of the others' workloads.
LEMMA Served ==
    ASSUME TypeOK, Phases, TurnsInv, NEW r \in Requests, Serve(r)
    PROVE  /\ r \in Active /\ Progress(r) /\ ~Autoscales(Job(r))
           /\ \A m \in Names \ {Job(r).name} : <<row[m].ns, m>> # Key(r)
           /\ req[r].pc \notin Midway => Agrees(Job(r).name)
<1>1. r \in Active
  BY ServeFrame DEF Active
<1>2. \A m \in Names \ {Job(r).name} : <<row[m].ns, m>> # Key(r)
  BY TurnTypes
<1>3. Job(r).name \in Names
  BY TurnTypes
<1> QED
  BY <1>1, <1>2, <1>3 DEF TurnsInv, Midway

\* The request's call changes its own Deployment only.
LEMMA CallServed ==
    ASSUME TypeOK, TurnsInv, NEW r \in Active, NEW new \in Request,
           NEW n \in Names, n = Job(r).name,
           req' = [req EXCEPT ![r] = new], new.job.name = n, ~Autoscales(new.job),
           UNCHANGED <<row, svc, ing, hpa>>,
           \A k \in Keys \ {Key(r)} : dep'[k] = dep[k],
           new.pc \notin {"idle", "answer", "done"} => Progress(r)',
           Agrees(n)' \/ new.pc \in Midway
    PROVE  TurnsInv'
<1>1. r \in Requests
  BY DEF Active
<1>2. \A m \in Names \ {n} : <<row[m].ns, m>> \in Keys \ {Key(r)}
  BY <1>1, TurnTypes
<1>3. \A m \in Names \ {n} :
         /\ row'[m] = row[m]
         /\ dep'[<<row[m].ns, m>>] = dep[<<row[m].ns, m>>]
         /\ <<row[m].ns, m>> \in svc => <<row[m].ns, m>> \in svc'
         /\ <<row[m].ns, m>> \in ing => <<row[m].ns, m>> \in ing'
  BY <1>2
<1>4. UNCHANGED hpa
  OBVIOUS
<1> QED
  BY <1>3, <1>4, TurnServed

\* A request that goes on to its answer, or nowhere, without a trace.
LEMMA Leaves ==
    ASSUME TypeOK, TurnsInv, NEW r \in Active, NEW new \in Request, Agrees(Job(r).name),
           req' = [req EXCEPT ![r] = new], new.job = Job(r), new.pc \in {"answer", "done"},
           UNCHANGED <<row, dep, svc, ing, hpa>>
    PROVE  TurnsInv'
<1>1. r \in Requests
  BY DEF Active
<1>2. PICK n \in Names : n = Job(r).name
  BY <1>1, TurnTypes
<1>3. ~Autoscales(new.job)
  BY <1>1 DEF TurnsInv
<1>4. Agrees(n)'
  BY <1>2, AgreesAsBefore
<1> QED
  BY <1>2, <1>3, <1>4, TurnServed

\* What a patch does to what the table mirrors.
LEMMA PatchMirrors ==
    ASSUME NEW s \in Spec_, NEW t \in Spec_, NEW op \in Ops, NEW j \in {"replicas", "image"}
    PROVE  /\ Patched(s, op, t).knobs[j] = IF j = op THEN t.knobs[j] ELSE s.knobs[j]
           /\ s.env \subseteq Patched(s, op, t).env
           /\ op = "env" => t.env \subseteq Patched(s, op, t).env
<1>1. j \in Knobs
  BY DEF Knobs
<1>2. CASE op \in Knobs
  BY <1>1, <1>2 DEF Patched, Spec_, Knobs
<1>3. CASE op = "env"
  BY <1>1, <1>3 DEF Patched, Spec_, Knobs
<1>4. CASE op \notin Knobs /\ op # "env"
  BY <1>1, <1>4 DEF Patched, Spec_, Knobs
<1> QED
  BY <1>2, <1>3, <1>4

\* A rollback changes the image alone of what it mirrors.
LEMMA RollBackMirrors ==
    ASSUME NEW s \in Spec_, NEW t \in Spec_, NEW j \in {"replicas", "image"}
    PROVE  /\ RolledBack(s, t).knobs[j] = IF j = "image" THEN t.knobs[j] ELSE s.knobs[j]
           /\ s.env \subseteq RolledBack(s, t).env
<1>1. j \in Knobs
  BY DEF Knobs
<1> QED
  BY <1>1 DEF RolledBack, Spec_, Knobs

\* What create_deployment renders mirrors what the row will say.
LEMMA RenderedMirrors ==
    ASSUME NEW a \in Ask, NEW j \in {"replicas", "image"}
    PROVE  Rendered(a).knobs[j] = a.want.knobs[j] /\ Rendered(a).env = a.want.env
<1>1. j \in Knobs /\ a.want \in Spec_
  BY DEF Knobs, Ask
<1> QED
  BY <1>1 DEF Rendered, Spec_

-----------------------------------------------------------------------------
(* The call on the Deployment.                                             *)

\* The Deployment is created and the row is yet to come.
LEMMA CreateTurn ==
    ASSUME TakeTurns, TypeOK, Phases, TurnsInv, NEW r \in Requests, Serve(r),
           CallDeployment(r), CreateDeployment(r)
    PROVE  TurnsInv'
<1>1. /\ r \in Active /\ Progress(r) /\ ~Autoscales(Job(r)) /\ req[r].pc = "k8s" /\ Op(r) = "create"
      /\ \A m \in Names \ {Job(r).name} : <<row[m].ns, m>> # Key(r)
  BY Served DEF CallDeployment, Takes, At, CreateDeployment
<1>2. PICK n \in Names : n = Job(r).name
  BY TurnTypes
<1>0. UNCHANGED <<row, svc, ing, hpa>>
  BY DEF CallDeployment, Takes, CreateDeployment, TakeTurns
<1>3. /\ dep' = [dep EXCEPT ![Key(r)] = [live |-> TRUE, spec |-> Rendered(Job(r))]]
      /\ req' = [req EXCEPT ![r].pc = AfterCall(r), ![r].reply = AfterReply(r)]
  BY DEF CallDeployment, Takes, CreateDeployment, TakeTurns
<1> DEFINE p == IF Job(r).port THEN "service" ELSE "insert"
           new == [req[r] EXCEPT !.pc = p, !.reply = "none"]
<1>4. AfterCall(r) = p /\ AfterReply(r) = "none"
  BY <1>1 DEF AfterCall, AfterReply
<1>5. new \in Request /\ new.pc = p /\ new.job = Job(r) /\ new.hosted = req[r].hosted /\ new.seen = req[r].seen
  BY TurnTypes DEF Request, Steps, Reply, Job
<1>6. req' = [req EXCEPT ![r] = new] /\ req'[r] = new
  BY <1>3, <1>4, TurnTypes
<1>7. Job(r)' = Job(r) /\ Key(r)' = Key(r) /\ Op(r)' = Op(r)
  BY <1>5, <1>6 DEF Job, Key, Op
<1>8. Made(r)'
  BY <1>3, <1>7, TurnTypes DEF Made
<1>9. Progress(r)'
  <2>1. ~Live(row[n]) /\ ~req[r].hosted
    BY <1>1, <1>2 DEF Progress
  <2>2. row' = row /\ Op(r)' = "create" /\ Job(r)'.name = n
        /\ req'[r].pc \in {"service", "insert"} /\ ~req'[r].hosted
    BY <1>1, <1>2, <1>0, <1>5, <1>6, <1>7, <2>1
  <2> HIDE DEF new, p
  <2> QED
    BY <1>8, <2>1, <2>2 DEF Progress, At
<1>10. Agrees(n)'
  <2>1. ~Live(row[n])
    BY <1>1, <1>2 DEF Progress
  <2> QED
    BY <1>0, <2>1 DEF Agrees, Live
<1>11. \A k \in Keys \ {Key(r)} : dep'[k] = dep[k]
  BY <1>3, TurnTypes
<1> HIDE DEF new
<1> QED
  BY <1>1, <1>2, <1>0, <1>5, <1>6, <1>9, <1>10, <1>11, CallServed

\* It is deleted, and the row is yet to say so.
LEMMA DeleteTurn ==
    ASSUME TakeTurns, TypeOK, Phases, TurnsInv, NEW r \in Requests, Serve(r),
           \/ CallDeployment(r) /\ DeleteDeployment(r)
           \/ DeploymentGone(r)
    PROVE  TurnsInv'
<1>1. /\ r \in Active /\ Progress(r) /\ ~Autoscales(Job(r)) /\ req[r].pc = "k8s" /\ Op(r) = "delete"
      /\ \A m \in Names \ {Job(r).name} : <<row[m].ns, m>> # Key(r)
  BY Served DEF CallDeployment, Takes, At, DeleteDeployment, DeploymentGone
<1>2. PICK n \in Names : n = Job(r).name
  BY TurnTypes
<1> DEFINE p == IF req[r].seen.port THEN "drop_ingress" ELSE "store"
           new == [req[r] EXCEPT !.pc = p]
<1>3. AfterCall(r) = p /\ AfterReply(r) = "none" /\ req[r].reply = "none"
  BY <1>1 DEF AfterCall, AfterReply, Phases
<1>4. /\ UNCHANGED <<row, svc, ing, hpa>>
      /\ UNCHANGED dep \/ dep' = [dep EXCEPT ![Key(r)] = NoDep]
      /\ req' = [req EXCEPT ![r] = new]
  <2>1. CASE DeploymentGone(r)
    BY <1>3, <2>1 DEF DeploymentGone, Goto, cluster
  <2>2. CASE CallDeployment(r) /\ DeleteDeployment(r)
    <3>1. UNCHANGED <<row, svc, ing, hpa>> /\ dep' = [dep EXCEPT ![Key(r)] = NoDep]
          /\ req' = [req EXCEPT ![r].pc = AfterCall(r), ![r].reply = AfterReply(r)]
      BY <2>2 DEF CallDeployment, Takes, DeleteDeployment, TakeTurns
    <3>2. [req[r] EXCEPT !.pc = p, !.reply = "none"] = new
      BY <1>3, TurnTypes DEF Request
    <3> QED
      BY <1>3, <3>1, <3>2, TurnTypes
  <2> QED
    BY <2>1, <2>2
<1>5. new \in Request /\ new.pc = p /\ new.job = Job(r) /\ new.hosted = req[r].hosted /\ new.seen = req[r].seen
  BY TurnTypes DEF Request, Steps, Job
<1>6. req'[r] = new
  BY <1>4, TurnTypes
<1>7. Job(r)' = Job(r) /\ Op(r)' = Op(r)
  BY <1>5, <1>6 DEF Job, Op
<1>8. Progress(r)'
  <2>1. Live(row[n]) /\ req[r].seen = row[n]
    BY <1>1, <1>2 DEF Progress
  <2> QED
    BY <1>1, <1>2, <1>4, <1>5, <1>6, <1>7, <2>1 DEF Progress, At, Live
<1>9. \A k \in Keys \ {Key(r)} : dep'[k] = dep[k]
  BY <1>4, TurnTypes
<1>10. p \in Midway
  BY DEF Midway
<1> HIDE DEF new, p
<1> QED
  BY <1>1, <1>2, <1>4, <1>5, <1>8, <1>9, <1>10, CallServed

\* The workload's Deployment, as long as its row is not behind it.
LEMMA Backed ==
    ASSUME TypeOK, TurnsInv, NEW r \in Requests, Progress(r), req[r].pc = "k8s", Op(r) # "create",
           Agrees(Job(r).name), ~Autoscales(Job(r))
    PROVE  LET w == row[Job(r).name]
               s == dep[Key(r)].spec
           IN  /\ Live(w) /\ req[r].seen = w /\ Key(r) = <<w.ns, Job(r).name>>
               /\ dep[Key(r)].live /\ (w.hosted => Key(r) \in svc /\ Key(r) \in ing)
               /\ \A j \in {"replicas", "image"} : w.spec.knobs[j] = s.knobs[j]
               /\ w.spec.env \subseteq s.env
<1>1. Live(row[Job(r).name]) /\ req[r].seen = row[Job(r).name]
  BY DEF Progress
<1>2. Key(r) = <<row[Job(r).name].ns, Job(r).name>>
  BY <1>1 DEF Key, Autoscales, Op
<1> QED
  BY <1>1, <1>2 DEF Agrees

\* It is patched: a restart leaves what is mirrored, an update is ahead of the row.
LEMMA PatchTurn ==
    ASSUME TakeTurns, TypeOK, Phases, TurnsInv, NEW r \in Requests, Serve(r),
           CallDeployment(r), PatchDeployment(r)
    PROVE  TurnsInv'
<1> DEFINE s == dep[Key(r)].spec
           patch == Patched(s, Op(r), Job(r).want)
<1>1. /\ r \in Active /\ Progress(r) /\ ~Autoscales(Job(r)) /\ req[r].pc = "k8s"
      /\ Op(r) \in Updates \union {"restart"} /\ Agrees(Job(r).name)
      /\ \A m \in Names \ {Job(r).name} : <<row[m].ns, m>> # Key(r)
  BY Served DEF CallDeployment, Takes, At, PatchDeployment, Midway
<1>2. PICK n \in Names : n = Job(r).name
  BY TurnTypes
<1>0. UNCHANGED <<row, svc, ing, hpa>>
  BY DEF CallDeployment, Takes, PatchDeployment, TakeTurns
<1>3. /\ dep' = [dep EXCEPT ![Key(r)].spec = patch]
      /\ req' = [req EXCEPT ![r].pc = AfterCall(r), ![r].reply = AfterReply(r)]
  BY DEF CallDeployment, Takes, PatchDeployment, TakeTurns
<1> DEFINE p == IF Op(r) = "restart" THEN "answer" ELSE "store"
           code == IF Op(r) = "restart" THEN "ok" ELSE "none"
           new == [req[r] EXCEPT !.pc = p, !.reply = code]
<1>4. AfterCall(r) = p /\ AfterReply(r) = code /\ Op(r) \in Ops /\ Op(r) \notin {"create", "delete", "rollback"}
  BY <1>1 DEF AfterCall, AfterReply, Updates, Knobs, Ops
<1>5. new \in Request /\ new.pc = p /\ new.job = Job(r) /\ new.hosted = req[r].hosted /\ new.seen = req[r].seen
  BY TurnTypes DEF Request, Steps, Reply, Job
<1>6. req' = [req EXCEPT ![r] = new] /\ req'[r] = new
  BY <1>3, <1>4, TurnTypes
<1>7. Job(r)' = Job(r) /\ Key(r)' = Key(r) /\ Op(r)' = Op(r)
  BY <1>5, <1>6 DEF Job, Key, Op
<1>8. /\ Live(row[n]) /\ req[r].seen = row[n] /\ Key(r) = <<row[n].ns, n>>
      /\ dep[Key(r)].live /\ (row[n].hosted => Key(r) \in svc /\ Key(r) \in ing)
      /\ \A j \in {"replicas", "image"} : row[n].spec.knobs[j] = s.knobs[j]
      /\ row[n].spec.env \subseteq s.env
  BY <1>1, <1>2, <1>4, Backed
<1>9. dep'[Key(r)].live /\ dep'[Key(r)].spec = patch
  BY <1>3, <1>8, TurnTypes DEF Dep
<1>10. \A j \in {"replicas", "image"} :
          /\ patch.knobs[j] = IF j = Op(r) THEN Job(r).want.knobs[j] ELSE s.knobs[j]
          /\ s.env \subseteq patch.env
          /\ Op(r) = "env" => Job(r).want.env \subseteq patch.env
  BY <1>4, TurnTypes, PatchMirrors
<1>11. \A k \in Keys \ {Key(r)} : dep'[k] = dep[k]
  BY <1>3, TurnTypes
<1> HIDE DEF patch, s, new
<1>12. CASE Op(r) = "restart"
  <2>1. Agrees(n)'
    BY <1>0, <1>8, <1>9, <1>10, <1>12 DEF Agrees
  <2> QED
    BY <1>1, <1>2, <1>0, <1>5, <1>6, <1>11, <1>12, <2>1, CallServed
<1>13. CASE Op(r) # "restart"
  <2>1. Ahead(r)'
    BY <1>1, <1>2, <1>0, <1>4, <1>7, <1>8, <1>9, <1>10, <1>13 DEF Ahead
  <2>2. Progress(r)'
    BY <1>2, <1>0, <1>5, <1>6, <1>7, <1>8, <1>13, <2>1 DEF Progress, At, Live
  <2>3. p \in Midway
    BY <1>13 DEF Midway
  <2> QED
    BY <1>1, <1>2, <1>0, <1>5, <1>6, <1>11, <2>2, <2>3, CallServed
<1> QED
  BY <1>12, <1>13

\* It is rolled back: the image is the revision's, and so will the row's be.
LEMMA RollBackTurn ==
    ASSUME TakeTurns, TypeOK, Phases, TurnsInv, NEW r \in Requests, Serve(r),
           NEW t \in revs[Key(r)], RollBackTo(r, t)
    PROVE  TurnsInv'
<1> DEFINE s == dep[Key(r)].spec
           back == RolledBack(s, t)
<1>1. /\ r \in Active /\ Progress(r) /\ ~Autoscales(Job(r)) /\ req[r].pc = "k8s"
      /\ Op(r) = "rollback" /\ Agrees(Job(r).name)
      /\ \A m \in Names \ {Job(r).name} : <<row[m].ns, m>> # Key(r)
  BY Served DEF RollBackTo, Takes, At, Midway
<1>2. PICK n \in Names : n = Job(r).name
  BY TurnTypes
<1>0. UNCHANGED <<row, svc, ing, hpa>>
  BY DEF RollBackTo, Takes, TakeTurns
<1>3. /\ dep' = [dep EXCEPT ![Key(r)].spec = back]
      /\ req' = [req EXCEPT ![r].pc = "store", ![r].job.want.knobs["image"] = t.knobs["image"]]
  BY DEF RollBackTo, Takes, TakeTurns
<1>4. t \in Spec_ /\ "image" \in Knobs /\ t.knobs["image"] \in Values
  BY TurnTypes DEF TypeOK, Knobs, Spec_
<1> DEFINE want == [Job(r).want EXCEPT !.knobs = [Job(r).want.knobs EXCEPT !["image"] = t.knobs["image"]]]
           job == [Job(r) EXCEPT !.want = want]
           new == [req[r] EXCEPT !.pc = "store", !.job = job]
<1>5. want \in Spec_ /\ want.knobs["image"] = t.knobs["image"]
  BY <1>4, TurnTypes DEF Spec_
<1>6. /\ job \in Ask /\ job.want = want /\ job.op = Op(r) /\ job.name = Job(r).name /\ job.ns = Job(r).ns
  BY <1>5, TurnTypes DEF Ask, Op
<1>7. new \in Request /\ new.pc = "store" /\ new.job = job /\ new.hosted = req[r].hosted /\ new.seen = req[r].seen
  BY <1>6, TurnTypes DEF Request, Steps
<1>8. req' = [req EXCEPT ![r] = new] /\ req'[r] = new
  <2>1. req' = [req EXCEPT ![r] = new]
    BY <1>3, TurnTypes DEF Job, Request, Ask, Spec_
  <2> QED
    BY <2>1, TurnTypes
<1> HIDE DEF want, job, new, back, s
<1>9. Job(r)' = job /\ Op(r)' = "rollback" /\ Key(r)' = Key(r) /\ ~Autoscales(job)
  BY <1>1, <1>6, <1>7, <1>8 DEF Job, Op, Key, Autoscales
<1>10. /\ Live(row[n]) /\ req[r].seen = row[n] /\ Key(r) = <<row[n].ns, n>>
       /\ dep[Key(r)].live /\ (row[n].hosted => Key(r) \in svc /\ Key(r) \in ing)
       /\ \A j \in {"replicas", "image"} : row[n].spec.knobs[j] = s.knobs[j]
       /\ row[n].spec.env \subseteq s.env
  BY <1>1, <1>2, Backed DEF s
<1>11. dep'[Key(r)].live /\ dep'[Key(r)].spec = back
  BY <1>3, <1>10, TurnTypes DEF Dep
<1>12. \A j \in {"replicas", "image"} :
          /\ back.knobs[j] = IF j = "image" THEN t.knobs[j] ELSE s.knobs[j]
          /\ s.env \subseteq back.env
  BY <1>4, TurnTypes, RollBackMirrors DEF back, s
<1>13. \A k \in Keys \ {Key(r)} : dep'[k] = dep[k]
  BY <1>3, TurnTypes
<1>14. Ahead(r)'
  BY <1>2, <1>0, <1>5, <1>6, <1>9, <1>10, <1>11, <1>12 DEF Ahead, Updates, Knobs
<1>15. Progress(r)'
  BY <1>2, <1>0, <1>6, <1>7, <1>8, <1>9, <1>10, <1>14 DEF Progress, At, Live
<1>16. "store" \in Midway
  BY DEF Midway
<1> QED
  BY <1>1, <1>2, <1>0, <1>6, <1>7, <1>8, <1>9, <1>13, <1>15, <1>16, CallServed

\* It is refused: the request is over.
LEMMA RefusedTurn ==
    ASSUME TakeTurns, TypeOK, Phases, TurnsInv, NEW r \in Requests, Serve(r), CallRefused(r)
    PROVE  TurnsInv'
<1>1. /\ r \in Active /\ ~Autoscales(Job(r)) /\ req[r].pc = "k8s" /\ Agrees(Job(r).name)
  BY Served DEF CallRefused, At, Midway
<1>2. PICK code \in {"bad_gateway", "not_found"} : Settle(r, code)
  BY <1>1 DEF CallRefused, TakeTurns
<1> DEFINE new == [req[r] EXCEPT !.pc = "answer", !.reply = code]
<1>3. new \in Request /\ new.job = Job(r) /\ new.pc = "answer"
  BY TurnTypes DEF Request, Steps, Reply, Refusal, Job
<1>4. req' = [req EXCEPT ![r] = new]
  BY <1>2, TurnTypes DEF Settle
<1>5. UNCHANGED <<row, dep, svc, ing, hpa>>
  BY DEF CallRefused, cluster
<1> QED
  BY <1>1, <1>3, <1>4, <1>5, Leaves

-----------------------------------------------------------------------------
(* Service, Ingress and the row.                                           *)

\* Neither Service nor Ingress is made or dropped for another workload.
LEMMA RouteTurn ==
    ASSUME TakeTurns, TypeOK, Phases, TurnsInv, NEW r \in Requests, Serve(r),
           CreateService(r) \/ CreateIngress(r) \/ RouteFails(r) \/ DropRoute(r)
    PROVE  TurnsInv'
<1>1. /\ r \in Active /\ Progress(r) /\ ~Autoscales(Job(r))
      /\ \A m \in Names \ {Job(r).name} : <<row[m].ns, m>> # Key(r)
      /\ req[r].pc \notin Midway => Agrees(Job(r).name)
  BY Served
<1>2. PICK n \in Names : n = Job(r).name
  BY TurnTypes
<1>3. UNCHANGED <<row, dep, hpa>>
  BY DEF CreateService, CreateIngress, RouteFails, DropRoute, cluster
<1>4. \E p \in Steps, h \in BOOLEAN :
         /\ req' = [req EXCEPT ![r] = [req[r] EXCEPT !.pc = p, !.hosted = h]]
         /\ \/ /\ req[r].pc = "service" /\ p = "ingress" /\ h = req[r].hosted
               /\ svc' = svc \union {Key(r)} /\ UNCHANGED ing
            \/ /\ req[r].pc = "ingress" /\ p = "insert" /\ h
               /\ ing' = ing \union {Key(r)} /\ UNCHANGED svc
            \/ /\ req[r].pc \in {"service", "ingress"} /\ p = "insert" /\ h = req[r].hosted
               /\ UNCHANGED <<svc, ing>>
            \/ /\ req[r].pc = "drop_ingress" /\ p = "drop_service" /\ h = req[r].hosted
               /\ ing' \in {ing, ing \ {Key(r)}} /\ UNCHANGED svc
            \/ /\ req[r].pc = "drop_service" /\ p = "store" /\ h = req[r].hosted
               /\ svc' \in {svc, svc \ {Key(r)}} /\ UNCHANGED ing
  <2>1. req[r].hosted \in BOOLEAN
    BY TurnTypes DEF Request
  <2>2. \A p \in Steps : Goto(r, p) => req' = [req EXCEPT ![r] = [req[r] EXCEPT !.pc = p, !.hosted = req[r].hosted]]
    BY TurnTypes DEF Goto, Request
  <2>3. CASE CreateService(r)
    BY <2>1, <2>2, <2>3 DEF CreateService, At, Steps
  <2>4. CASE CreateIngress(r)
    BY <2>4, TurnTypes DEF CreateIngress, At, Steps
  <2>5. CASE RouteFails(r)
    BY <2>1, <2>2, <2>5 DEF RouteFails, At, Steps, cluster
  <2>6. CASE DropRoute(r)
    BY <2>1, <2>2, <2>6 DEF DropRoute, At, Steps
  <2> QED
    BY <2>3, <2>4, <2>5, <2>6
<1>5. PICK p \in Steps, h \in BOOLEAN :
         /\ req' = [req EXCEPT ![r] = [req[r] EXCEPT !.pc = p, !.hosted = h]]
         /\ \/ /\ req[r].pc = "service" /\ p = "ingress" /\ h = req[r].hosted
               /\ svc' = svc \union {Key(r)} /\ UNCHANGED ing
            \/ /\ req[r].pc = "ingress" /\ p = "insert" /\ h
               /\ ing' = ing \union {Key(r)} /\ UNCHANGED svc
            \/ /\ req[r].pc \in {"service", "ingress"} /\ p = "insert" /\ h = req[r].hosted
               /\ UNCHANGED <<svc, ing>>
            \/ /\ req[r].pc = "drop_ingress" /\ p = "drop_service" /\ h = req[r].hosted
               /\ ing' \in {ing, ing \ {Key(r)}} /\ UNCHANGED svc
            \/ /\ req[r].pc = "drop_service" /\ p = "store" /\ h = req[r].hosted
               /\ svc' \in {svc, svc \ {Key(r)}} /\ UNCHANGED ing
  BY <1>4
<1> DEFINE new == [req[r] EXCEPT !.pc = p, !.hosted = h]
<1>6. new \in Request /\ new.pc = p /\ new.job = Job(r) /\ new.hosted = h /\ new.seen = req[r].seen
  BY TurnTypes DEF Request, Job
<1>7. req' = [req EXCEPT ![r] = new] /\ req'[r] = new
  BY <1>5, TurnTypes
<1> HIDE DEF new
<1>8. Job(r)' = Job(r) /\ Key(r)' = Key(r) /\ Op(r)' = Op(r)
  BY <1>6, <1>7 DEF Job, Key, Op
<1>9. \A m \in Names \ {n} :
         /\ <<row[m].ns, m>> \in svc => <<row[m].ns, m>> \in svc'
         /\ <<row[m].ns, m>> \in ing => <<row[m].ns, m>> \in ing'
  BY <1>1, <1>2, <1>5
<1>10. CASE req[r].pc \in {"service", "ingress"}
  <2>1. Op(r) = "create" /\ ~Live(row[n]) /\ Made(r) /\ ~req[r].hosted
    BY <1>1, <1>2, <1>10 DEF Phases, Progress
  <2>2. Made(r)'
    BY <1>3, <1>8, <2>1 DEF Made
  <2>3. p = "insert" /\ h => Key(r) \in svc' /\ Key(r) \in ing'
    BY <1>1, <1>5, <1>10, <2>1 DEF Progress, At
  <2>4. p = "ingress" => Key(r) \in svc' /\ ~h
    BY <1>5, <1>10, <2>1
  <2>5. p \in {"ingress", "insert"}
    BY <1>5, <1>10
  <2>6. Progress(r)'
    BY <1>2, <1>3, <1>6, <1>7, <1>8, <2>1, <2>2, <2>3, <2>4, <2>5 DEF Progress, At, Live
  <2>7. Agrees(n)'
    BY <1>3, <2>1 DEF Agrees, Live
  <2> QED
    BY <1>1, <1>2, <1>3, <1>6, <1>7, <1>9, <2>6, <2>7, TurnServed
<1>11. CASE req[r].pc \in {"drop_ingress", "drop_service"}
  <2>1. Op(r) = "delete" /\ Live(row[n]) /\ req[r].seen = row[n]
    BY <1>1, <1>2, <1>11 DEF Phases, Progress
  <2>2. p \in {"drop_service", "store"}
    BY <1>5, <1>11
  <2>3. Progress(r)'
    BY <1>2, <1>3, <1>6, <1>7, <1>8, <2>1, <2>2 DEF Progress, At, Live
  <2>4. p \in Midway
    BY <2>2 DEF Midway
  <2> QED
    BY <1>1, <1>2, <1>3, <1>6, <1>7, <1>9, <2>3, <2>4, TurnServed
<1> QED
  BY <1>5, <1>10, <1>11

\* What is stored is what was asked for, and the rest of the row as it was.
LEMMA StoredMirrors ==
    ASSUME TypeOK, NEW r \in Requests, NEW w \in Row, w = req[r].seen,
           Op(r) \in Updates \union {"rollback"}
    PROVE  LET v == Stored(w, r)
               target == IF Op(r) = "rollback" THEN "image" ELSE Op(r)
               want == Job(r).want
           IN  /\ v \in Row /\ v.ns = w.ns /\ v.hosted = w.hosted /\ v.status = w.status
               /\ \A j \in {"replicas", "image"} :
                     v.spec.knobs[j] = IF j = target THEN want.knobs[j] ELSE w.spec.knobs[j]
               /\ v.spec.env = IF Op(r) = "env" THEN want.env ELSE w.spec.env
<1> DEFINE target == IF Op(r) = "rollback" THEN "image" ELSE Op(r)
           want == Job(r).want
           one == [w.spec.knobs EXCEPT ![target] = want.knobs[target]]
<1>1. want \in Spec_ /\ w.spec \in Spec_ /\ w.spec.knobs \in [Knobs -> Values]
  BY TurnTypes DEF Row, Spec_
<1>2. CASE Op(r) = "env"
  <2>1. Stored(w, r) = [w EXCEPT !.spec = [w.spec EXCEPT !.env = want.env]]
    BY <1>1, <1>2 DEF Stored, Knobs, Row, Spec_
  <2> QED
    BY <1>1, <1>2, <2>1 DEF Row, Spec_
<1>3. CASE Op(r) # "env"
  <2>1. target \in Knobs /\ "image" \in Knobs
    BY <1>3 DEF Updates, Knobs
  <2>2. one \in [Knobs -> Values] /\ one[target] = want.knobs[target]
        /\ \A j \in Knobs \ {target} : one[j] = w.spec.knobs[j]
    BY <1>1, <2>1 DEF Spec_
  <2>3. IF want.knobs[target] # w.spec.knobs[target] THEN TRUE ELSE one = w.spec.knobs
    BY <1>1, <2>1
  <2>4. Stored(w, r) = [w EXCEPT !.spec = [w.spec EXCEPT !.knobs = one]]
    <3>1. Op(r) # "delete" /\ (Op(r) \in Knobs \/ Op(r) = "rollback")
      BY <1>3 DEF Updates, Knobs
    <3>2. Stored(w, r) = [w EXCEPT !.spec.knobs[target] =
                            IF want.knobs[target] # w.spec.knobs[target]
                              THEN want.knobs[target] ELSE w.spec.knobs[target]]
      BY <3>1 DEF Stored, Knobs
    <3> QED
      BY <1>1, <2>1, <3>2 DEF Row, Spec_
  <2> HIDE DEF one, target
  <2>5. \A j \in {"replicas", "image"} : j \in Knobs
    BY DEF Knobs
  <2> QED
    BY <1>1, <1>3, <2>2, <2>4, <2>5 DEF Row, Spec_, target
<1> QED
  BY <1>2, <1>3

\* The row is written: it agrees with the cluster, or says that it has none.
LEMMA WriteTurn ==
    ASSUME TakeTurns, TypeOK, Phases, TurnsInv, NEW r \in Requests, Serve(r),
           Insert(r) \/ InsertConflict(r) \/ Mark(r) \/ Store(r)
    PROVE  TurnsInv'
<1>1. /\ r \in Active /\ Progress(r) /\ ~Autoscales(Job(r))
      /\ req[r].pc \notin Midway => Agrees(Job(r).name)
  BY Served
<1>2. PICK n \in Names : n = Job(r).name
  BY TurnTypes
<1>3. UNCHANGED <<dep, svc, ing, hpa>>
  BY DEF Insert, InsertConflict, Mark, Store, cluster
<1>4. CASE Insert(r)
  <2> DEFINE w == [status |-> "pending", ns |-> Job(r).ns, port |-> Job(r).port,
                   hosted |-> req[r].hosted, spec |-> Job(r).want]
             new == [req[r] EXCEPT !.pc = "mark"]
  <2>1. row' = [row EXCEPT ![n] = w] /\ req' = [req EXCEPT ![r] = new] /\ At(r, "insert")
    BY <1>2, <1>4, TurnTypes DEF Insert, Goto
  <2>2. row'[n] = w /\ \A m \in Names \ {n} : row'[m] = row[m]
    BY <2>1, TurnTypes
  <2>3. new \in Request /\ new.pc = "mark" /\ new.job = Job(r)
    BY TurnTypes DEF Request, Steps, Job
  <2>4. req'[r] = new /\ Job(r)' = Job(r)
    BY <2>1, <2>3, TurnTypes DEF Job
  <2>5. Op(r) = "create" /\ Made(r) /\ (req[r].hosted => Key(r) \in svc /\ Key(r) \in ing)
    BY <1>1, <2>1 DEF Phases, Progress, At
  <2>6. Key(r) = <<w.ns, n>>
    BY <1>2, <2>5 DEF Key
  <2>7. dep[Key(r)].live /\ dep[Key(r)].spec.env = w.spec.env
        /\ \A j \in {"replicas", "image"} : dep[Key(r)].spec.knobs[j] = w.spec.knobs[j]
    BY <2>5, TurnTypes, RenderedMirrors DEF Made
  <2>8. Live(w) /\ w.hosted = req[r].hosted
    BY DEF Live
  <2> HIDE DEF w, new
  <2>9. Agrees(n)'
    BY <1>3, <2>2, <2>5, <2>6, <2>7, <2>8 DEF Agrees
  <2>10. Progress(r)'
    BY <1>2, <2>2, <2>3, <2>4, <2>8 DEF Progress, At, Live
  <2> QED
    BY <1>1, <1>2, <1>3, <2>1, <2>2, <2>3, <2>9, <2>10, TurnServed
<1>5. CASE InsertConflict(r)
  <2> DEFINE new == [req[r] EXCEPT !.pc = "done", !.reply = "error"]
  <2>1. req' = [req EXCEPT ![r] = new] /\ UNCHANGED row /\ At(r, "insert")
    BY <1>5, TurnTypes DEF InsertConflict, Abort
  <2>2. new \in Request /\ new.job = Job(r) /\ new.pc = "done"
    BY TurnTypes DEF Request, Steps, Reply, Job
  <2>3. Agrees(Job(r).name)
    BY <1>1, <2>1 DEF Midway, At
  <2> QED
    BY <1>1, <1>3, <2>1, <2>2, <2>3, Leaves
<1>6. ASSUME At(r, "mark") \/ At(r, "store"), NEW w \in Row,
             row' = [row EXCEPT ![n] = w], Settle(r, "ok"),
             row'[n] = w => Agrees(n)'
      PROVE  TurnsInv'
  <2> DEFINE new == [req[r] EXCEPT !.pc = "answer", !.reply = "ok"]
  <2>1. req' = [req EXCEPT ![r] = new]
    BY <1>6, TurnTypes DEF Settle
  <2>2. new \in Request /\ new.pc = "answer" /\ new.job = Job(r)
    BY TurnTypes DEF Request, Steps, Reply, Job
  <2>3. row'[n] = w /\ \A m \in Names \ {n} : row'[m] = row[m]
    BY <1>6, TurnTypes
  <2> HIDE DEF new
  <2>4. Agrees(n)'
    BY <1>6, <2>3
  <2> QED
    BY <1>1, <1>2, <1>3, <2>1, <2>2, <2>3, <2>4, TurnServed
<1>7. row[n] \in Row
  BY <1>2, TurnTypes
<1>8. CASE Mark(r)
  <2> DEFINE w == [row[n] EXCEPT !.status = "running"]
  <2>1. row' = [row EXCEPT ![n] = w] /\ At(r, "mark") /\ Settle(r, "ok")
    BY <1>2, <1>8, TurnTypes DEF Mark
  <2>2. w \in Row /\ w.ns = row[n].ns /\ w.hosted = row[n].hosted /\ w.spec = row[n].spec
    BY <1>7 DEF Row, Status
  <2>3. Agrees(n) /\ Live(row[n])
    BY <1>1, <1>2, <2>1 DEF Midway, At, Progress
  <2> HIDE DEF w
  <2>4. row'[n] = w => Agrees(n)'
    BY <1>3, <2>2, <2>3 DEF Agrees
  <2> QED
    BY <1>6, <2>1, <2>2, <2>4
<1>9. CASE Store(r) /\ Op(r) = "delete"
  <2> DEFINE w == [row[n] EXCEPT !.status = "deleted"]
  <2>1. row' = [row EXCEPT ![n] = w] /\ At(r, "store") /\ Settle(r, "ok")
    BY <1>2, <1>9, TurnTypes DEF Store, Stored
  <2>2. w \in Row /\ ~Live(w)
    BY <1>7 DEF Row, Status, Live
  <2> HIDE DEF w
  <2>3. row'[n] = w => Agrees(n)'
    BY <2>2 DEF Agrees, Live
  <2> QED
    BY <1>6, <2>1, <2>2, <2>3
<1>10. CASE Store(r) /\ Op(r) # "delete"
  <2> DEFINE w == Stored(row[n], r)
             target == IF Op(r) = "rollback" THEN "image" ELSE Op(r)
             want == Job(r).want
  <2>1. row' = [row EXCEPT ![n] = w] /\ At(r, "store") /\ Settle(r, "ok")
    BY <1>2, <1>10, TurnTypes DEF Store
  <2>2. /\ Ahead(r) /\ Live(row[n]) /\ req[r].seen = row[n] /\ Op(r) # "create"
        /\ Key(r) = <<row[n].ns, n>>
    BY <1>1, <1>2, <1>10, <2>1 DEF Progress, At, Phases, Key, Autoscales, Op
  <2>3. Op(r) \in Updates \union {"rollback"}
    BY <2>2 DEF Ahead
  <2>4. /\ w \in Row /\ w.ns = row[n].ns /\ w.hosted = row[n].hosted /\ w.status = row[n].status
        /\ \A j \in {"replicas", "image"} :
              w.spec.knobs[j] = IF j = target THEN want.knobs[j] ELSE row[n].spec.knobs[j]
        /\ w.spec.env = IF Op(r) = "env" THEN want.env ELSE row[n].spec.env
    BY <1>7, <2>2, <2>3, StoredMirrors
  <2> HIDE DEF w
  <2>5. row'[n] = w => Agrees(n)'
    BY <1>2, <1>3, <2>2, <2>4 DEF Agrees, Ahead, Live
  <2> QED
    BY <1>6, <2>1, <2>4, <2>5
<1> QED
  BY <1>4, <1>5, <1>8, <1>9, <1>10

\* The answer is sent, with or without its entry in the audit log.
LEMMA AnswerTurn ==
    ASSUME TypeOK, Phases, TurnsInv, NEW r \in Requests, Serve(r), Answer(r)
    PROVE  TurnsInv'
<1>1. r \in Active /\ At(r, "answer") /\ Agrees(Job(r).name)
  BY Served DEF Answer, At, Midway
<1> DEFINE new == [req[r] EXCEPT !.pc = "done"]
<1>2. new \in Request /\ new.job = Job(r) /\ new.pc = "done"
  BY TurnTypes DEF Request, Steps, Job
<1>3. req' = [req EXCEPT ![r] = new] /\ UNCHANGED <<row, dep, svc, ing, hpa>>
  BY TurnTypes DEF Answer, Goto, cluster
<1> QED
  BY <1>1, <1>2, <1>3, Leaves

\* Every step of the request that is served keeps the invariant.
LEMMA ServeTurn ==
    ASSUME TakeTurns, TypeOK, Phases, TurnsInv, NEW r \in Requests, Serve(r)
    PROVE  TurnsInv'
<1>1. ~Autoscale(r) /\ ~RouteCallBreaks(r) /\ ~WriteFails(r)
  BY DEF TurnsInv, TakeTurns, Autoscales, Op, Autoscale, RouteCallBreaks, WriteFails
<1>2. \/ CallDeployment(r) /\ CreateDeployment(r)
      \/ CallDeployment(r) /\ DeleteDeployment(r)
      \/ DeploymentGone(r)
      \/ CallDeployment(r) /\ PatchDeployment(r)
      \/ \E t \in revs[Key(r)] : RollBackTo(r, t)
      \/ CallRefused(r)
      \/ CreateService(r) \/ CreateIngress(r) \/ RouteFails(r) \/ DropRoute(r)
      \/ Insert(r) \/ InsertConflict(r) \/ Mark(r) \/ Store(r)
      \/ Answer(r)
  <2>1. CallDeployment(r) => \/ CreateDeployment(r) \/ DeleteDeployment(r)
                             \/ PatchDeployment(r) \/ Autoscale(r)
    BY DEF CallDeployment
  <2> QED
    BY <1>1, <2>1 DEF Serve
<1> QED
  BY <1>2, CreateTurn, DeleteTurn, PatchTurn, RollBackTurn, RefusedTurn, RouteTurn, WriteTurn, AnswerTurn

\* A request arrives when none is served, and finds the stores in agreement.
LEMMA ArriveTurn ==
    ASSUME TakeTurns, TypeOK, TurnsInv, NEW r \in Requests, NEW a \in Asks,
           Accept(r, a) \/ Reject(r, a)
    PROVE  TurnsInv'
<1>1. ~Autoscales(a)
  BY DEF TakeTurns
<1>2. PICK p \in {"k8s", "answer", "done"}, code \in Reply : Arrive(r, a, p, code)
  BY DEF Accept, Reject, Reply, Refusal
<1>3. Active = {}
  <2>1. SUFFICES ASSUME NEW q \in Active PROVE FALSE
    OBVIOUS
  <2>2. Active = {q}
    BY DEF TurnsInv
  <2>3. Cardinality(Active) = 1
    BY <2>2, FS_Singleton
  <2> QED
    BY <1>2, <2>3 DEF Arrive, TakeTurns
<1> DEFINE new == [pc |-> p, job |-> a, seen |-> row[a.name], hosted |-> FALSE, reply |-> code]
<1>4. req' = [req EXCEPT ![r] = new] /\ UNCHANGED <<row, dep, svc, ing, hpa>>
  BY <1>2 DEF Arrive, cluster
<1>5. req'[r] = new /\ \A q \in Requests \ {r} : req'[q] = req[q]
  BY <1>4, TurnTypes
<1>6. Active' \subseteq {r}
  BY <1>3, <1>5 DEF Active
<1>7. \A q \in Requests : ~Autoscales(Job(q))'
  BY <1>1, <1>5 DEF TurnsInv, Job, Autoscales
<1>8. \A m \in Names : Agrees(m)'
  <2>1. \A m \in Names : Agrees(m)
    BY <1>3 DEF TurnsInv
  <2> QED
    BY <1>4, <2>1, AgreesAsBefore
<1>9. p \in {"answer", "done"} \/ IF a.op = "create" THEN ~Live(row[a.name]) ELSE Live(row[a.name])
  <2>1. CASE Accept(r, a)
    BY <1>1, <2>1 DEF Accept, Exists, NotFound
  <2>2. CASE Reject(r, a)
    <3>1. req'[r].pc \in {"answer", "done"}
      BY <2>2, TurnTypes DEF Reject, Arrive
    <3> QED
      BY <1>5, <3>1
  <2> QED
    BY <2>1, <2>2
<1>10. r \in Active' => Progress(r)'
  BY <1>4, <1>5, <1>9 DEF Active, Progress, At, Job, Op
<1> QED
  BY <1>4, <1>6, <1>7, <1>8, <1>10 DEF TurnsInv

\* At the start the table is empty and nobody is served.
LEMMA TurnsInit == Init => TurnsInv
  BY DEF Init, TurnsInv, NoJob, NoRow, Job, Autoscales, Active, Agrees, Live

\* Crashes and autoscalers are out, and a step that changes nothing is harmless.
LEMMA TurnsStep ==
    ASSUME TakeTurns, WorkloadInv, TurnsInv, [Next]_vars
    PROVE  TurnsInv'
<1>1. TypeOK /\ Phases
  BY DEF WorkloadInv
<1>2. ~Crash /\ \A k \in Keys : ~Rescale(k)
  BY DEF Crash, Rescale, TakeTurns, TurnsInv
<1>3. CASE \E r \in Requests, a \in Asks : Accept(r, a) \/ Reject(r, a)
  BY <1>1, <1>3, ArriveTurn
<1>4. CASE \E r \in Requests : Serve(r)
  BY <1>1, <1>4, ServeTurn
<1>5. CASE UNCHANGED vars
  <2>1. UNCHANGED <<row, dep, svc, ing, hpa, req>>
    BY <1>5 DEF vars
  <2>2. \A n \in Names : Agrees(n)' = Agrees(n)
    BY <2>1 DEF Agrees, Live
  <2>3. Active' = Active /\ \A r \in Requests : Job(r)' = Job(r) /\ req'[r].pc = req[r].pc
    BY <2>1 DEF Active, Job
  <2>4. ASSUME NEW r \in Requests, Progress(r)
        PROVE  Progress(r)'
    <3>1. Job(r)' = Job(r) /\ Op(r)' = Op(r) /\ Key(r)' = Key(r)
      BY <2>1 DEF Job, Op, Key
    <3>2. Made(r)' = Made(r) /\ Ahead(r)' = Ahead(r)
      BY <2>1, <3>1 DEF Made, Ahead
    <3> QED
      BY <2>1, <2>4, <3>1, <3>2 DEF Progress, At
  <2> QED
    BY <2>1, <2>2, <2>3, <2>4 DEF TurnsInv, Autoscales, Active
<1> QED
  BY <1>2, <1>3, <1>4, <1>5 DEF Next

-----------------------------------------------------------------------------
(* The theorems.                                                           *)

\* While clients take turns one request is ahead of the table, and only there.
THEOREM TurnsInvariance == ASSUME TakeTurns PROVE Spec => []TurnsInv
<1>1. WorkloadInv /\ TurnsInv /\ [Next]_vars => TurnsInv'
  BY TurnsStep
<1> QED
  BY TurnsInit, <1>1, Invariance, PTL DEF Spec

\* Between two requests a workload the table lists has its Deployment, and the
\* host it advertises its Service and its Ingress.
THEOREM RowsAreBacked == ASSUME TakeTurns PROVE Spec => []LiveRowBacked
<1>1. TurnsInv => LiveRowBacked
  BY DEF TurnsInv, Idle, LiveRowBacked, Agrees
<1> QED
  BY TurnsInvariance, <1>1, PTL

\* Between two requests the table's replica count and image are the cluster's,
\* and the cluster has every variable the table lists.
THEOREM RowsMirrorCluster == ASSUME TakeTurns PROVE Spec => []RowMirrorsCluster
<1>1. TurnsInv => RowMirrorsCluster
  BY DEF TurnsInv, Idle, RowMirrorsCluster, Agrees
<1> QED
  BY TurnsInvariance, <1>1, PTL
=============================================================================
