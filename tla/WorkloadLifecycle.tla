------------------------- MODULE WorkloadLifecycle -------------------------
(***************************************************************************)
(* The workload lifecycle of the admin backend: WorkloadService and        *)
(* WorkloadRepository over PostgreSQL, K8sService over the Kubernetes API. *)
(*                                                                         *)
(* A request is a coroutine with a database session of its own.  It reads  *)
(* the workload row, leaves the event loop for every Kubernetes call       *)
(* (run_in_threadpool), and only then commits to PostgreSQL; other         *)
(* requests run between any two of these steps.  No transaction spans the  *)
(* two stores and no lock covers a workload.                               *)
(*                                                                         *)
(* Replica counts, images, limits and probe paths are values of a small    *)
(* set ("knobs"); the environment is the set of its variable names.  A     *)
(* Kubernetes object is named by its namespace and name (Keys), a row by   *)
(* its name alone, which is unique.                                        *)
(***************************************************************************)
EXTENDS Integers, FiniteSets

CONSTANTS
    Requests,      \* request slots, each used once: the bound on a behaviour
    Names,         \* workload names
    Namespaces,    \* Kubernetes namespaces
    Values,        \* values of a knob; 0 is "no probe path"
    EnvVars,       \* environment variable names
    Asks,          \* the requests clients may send, a subset of Ask
    Faults,        \* what may go wrong: "api", "conn", "db", "audit", "crash"
    MaxInFlight    \* bound on the requests being served at the same time

VARIABLES
    row,           \* the workloads table: Names -> Row
    dep,           \* Deployments in the cluster: Keys -> Dep
    revs,          \* pod templates kept as ReplicaSets: Keys -> SUBSET Spec
    svc, ing, hpa, \* Services, Ingresses and autoscalers: subsets of Keys
    req,           \* the requests: their job, program counter and answer
    audit,         \* audit_logs: <<request, "success" or "failure">>
    touched        \* history: requests whose Kubernetes call took effect

vars == <<row, dep, revs, svc, ing, hpa, req, audit, touched>>
cluster == <<dep, revs, svc, ing, hpa, touched>>

Knobs == {"replicas", "image", "limits", "probes"}
Keys  == Namespaces \X Names
Spec_ == [knobs: [Knobs -> Values], env: SUBSET EnvVars]

\* An update is named for what it changes, the other operations for themselves.
Updates == Knobs \union {"env"}
Ops     == Updates \union {"create", "delete", "restart", "rollback",
                           "hpa_put", "hpa_delete"}

\* ns and port matter to "create" only (ns to the autoscaler routes too).
Ask == [op: Ops, name: Names, ns: Namespaces, port: BOOLEAN, want: Spec_]

Status  == {"absent", "pending", "running", "deleted"}
Row     == [status: Status, ns: Namespaces, port: BOOLEAN, hosted: BOOLEAN,
            spec: Spec_]
Dep     == [live: BOOLEAN, spec: Spec_]

Steps   == {"idle", "k8s", "service", "ingress", "insert", "mark", "store",
            "drop_ingress", "drop_service", "answer", "done"}
Refusal == {"conflict", "not_found", "bad_request", "bad_gateway"}
Reply   == Refusal \union {"none", "ok", "unavailable", "error", "lost"}
Request == [pc: Steps, job: Ask, seen: Row, hosted: BOOLEAN, reply: Reply]

ASSUME ConstantAssumption ==
    /\ Values \subseteq Nat /\ 0 \in Values
    /\ Namespaces # {} /\ Names # {}
    /\ Asks \subseteq Ask
    /\ MaxInFlight \in Nat

TypeOK ==
    /\ row \in [Names -> Row]
    /\ dep \in [Keys -> Dep]
    /\ revs \in [Keys -> SUBSET Spec_]
    /\ svc \subseteq Keys /\ ing \subseteq Keys /\ hpa \subseteq Keys
    /\ req \in [Requests -> Request]
    /\ audit \subseteq Requests \X {"success", "failure"}
    /\ touched \subseteq Requests

-----------------------------------------------------------------------------
NoSpec == [knobs |-> [k \in Knobs |-> 0], env |-> {}]
NoRow  == [status |-> "absent", ns |-> CHOOSE ns \in Namespaces : TRUE,
           port |-> FALSE, hosted |-> FALSE, spec |-> NoSpec]
NoDep  == [live |-> FALSE, spec |-> NoSpec]
NoJob  == [op |-> "restart", name |-> CHOOSE n \in Names : TRUE,
           ns |-> CHOOSE ns \in Namespaces : TRUE, port |-> FALSE,
           want |-> NoSpec]

Init ==
    /\ row = [n \in Names |-> NoRow]
    /\ dep = [k \in Keys |-> NoDep]
    /\ revs = [k \in Keys |-> {}]
    /\ svc = {} /\ ing = {} /\ hpa = {}
    /\ req = [r \in Requests |-> [pc |-> "idle", job |-> NoJob, seen |-> NoRow,
                                  hosted |-> FALSE, reply |-> "none"]]
    /\ audit = {}
    /\ touched = {}

-----------------------------------------------------------------------------
Job(r)    == req[r].job
Op(r)     == Job(r).op
At(r, p)  == req[r].pc = p
Active    == {r \in Requests : req[r].pc \notin {"idle", "done"}}
Live(w)   == w.status \in {"pending", "running"}

\* Deployments are addressed through the row's namespace, read at the start;
\* creation and the autoscaler routes take it from the request.
Key(r) == IF Op(r) \in {"create", "hpa_put", "hpa_delete"}
            THEN <<Job(r).ns, Job(r).name>>
            ELSE <<req[r].seen.ns, Job(r).name>>

Goto(r, p) == req' = [req EXCEPT ![r].pc = p]
\* Success and the service's own refusals are audited before the answer;
\* any other exception leaves at once.
Settle(r, code) == req' = [req EXCEPT ![r].pc = "answer", ![r].reply = code]
Abort(r, code)  == req' = [req EXCEPT ![r].pc = "done", ![r].reply = code]

\* A pod template: everything but the replica count.
Template(s) == [s EXCEPT !.knobs["replicas"] = 0]

\* Without a container port create_deployment sets no probe.
Rendered(a) ==
    IF a.port THEN a.want ELSE [a.want EXCEPT !.knobs["probes"] = 0]

\* Patches are strategic merges: env entries merge by name, and a template
\* without a probe leaves the one that is there.
Patched(s, op, want) ==
    IF op \in Knobs   THEN [s EXCEPT !.knobs[op] = want.knobs[op]]
    ELSE IF op = "env" THEN [s EXCEPT !.env = @ \union want.env]
    ELSE s

RolledBack(s, t) ==
    [knobs |-> [t.knobs EXCEPT
                  !["replicas"] = s.knobs["replicas"],
                  !["probes"] = IF @ = 0 THEN s.knobs["probes"] ELSE @],
     env |-> s.env \union t.env]

-----------------------------------------------------------------------------
(* The request arrives and looks the workload up.                          *)

NotFound(a)   == a.op # "create" /\ ~Live(row[a.name])
Exists(a)     == a.op = "create" /\ Live(row[a.name])
NeedsPort(a)  == a.op = "probes" /\ a.want.knobs["probes"] # 0
                                 /\ ~row[a.name].port
\* The autoscaler routes do not look at the workloads table.
Autoscales(a) == a.op \in {"hpa_put", "hpa_delete"}

Arrive(r, a, p, code) ==
    /\ At(r, "idle")
    /\ Cardinality(Active) < MaxInFlight
    /\ req' = [req EXCEPT ![r] = [pc |-> p, job |-> a, seen |-> row[a.name],
                                  hosted |-> FALSE, reply |-> code]]
    /\ UNCHANGED <<row, cluster, audit>>

Accept(r, a) ==
    /\ Autoscales(a) \/ ~(NotFound(a) \/ Exists(a) \/ NeedsPort(a))
    /\ Arrive(r, a, "k8s", "none")

Reject(r, a) ==
    /\ ~Autoscales(a)
    /\ \/ NotFound(a) /\ Arrive(r, a, "answer", "not_found")
       \/ Exists(a) /\ Arrive(r, a, "answer", "conflict")
       \/ /\ ~NotFound(a) /\ NeedsPort(a)
          /\ Arrive(r, a, "done", "bad_request")

-----------------------------------------------------------------------------
(* The call on the Deployment (or autoscaler).  It takes effect, or the    *)
(* API refuses it (ApiException), or the connection breaks before or after *)
(* it took effect, which no handler of the service catches.                *)

\* Where a request goes when its call returned normally.
AfterCall(r) ==
    IF Op(r) = "create" THEN (IF Job(r).port THEN "service" ELSE "insert")
    ELSE IF Op(r) = "delete"
        THEN (IF req[r].seen.port THEN "drop_ingress" ELSE "store")
    ELSE IF Op(r) \in Updates \union {"rollback"} THEN "store"
    ELSE IF Op(r) = "restart" THEN "answer"
    ELSE "done"

AfterReply(r) == IF AfterCall(r) \in {"answer", "done"} THEN "ok" ELSE "none"

Takes(r) ==
    /\ At(r, "k8s")
    /\ touched' = touched \union {r}
    /\ UNCHANGED <<row, svc, ing, audit>>

CreateDeployment(r) ==
    /\ Op(r) = "create" /\ ~dep[Key(r)].live
    /\ dep' = [dep EXCEPT ![Key(r)] = [live |-> TRUE, spec |-> Rendered(Job(r))]]
    /\ revs' = [revs EXCEPT ![Key(r)] = {Template(Rendered(Job(r)))}]
    /\ UNCHANGED hpa

DeleteDeployment(r) ==
    /\ Op(r) = "delete" /\ dep[Key(r)].live
    /\ dep' = [dep EXCEPT ![Key(r)] = NoDep]
    /\ revs' = [revs EXCEPT ![Key(r)] = {}]
    /\ UNCHANGED hpa

PatchDeployment(r) ==
    LET new == Patched(dep[Key(r)].spec, Op(r), Job(r).want) IN
    /\ Op(r) \in Updates \union {"restart"} /\ dep[Key(r)].live
    /\ dep' = [dep EXCEPT ![Key(r)].spec = new]
    /\ revs' = [revs EXCEPT ![Key(r)] = @ \union {Template(new)}]
    /\ UNCHANGED hpa

Autoscale(r) ==
    /\ \/ Op(r) = "hpa_put" /\ hpa' = hpa \union {Key(r)}
       \/ Op(r) = "hpa_delete" /\ hpa' = hpa \ {Key(r)}
    /\ UNCHANGED <<dep, revs>>

CallDeployment(r) ==
    /\ Takes(r)
    /\ \/ CreateDeployment(r)
       \/ DeleteDeployment(r)
       \/ PatchDeployment(r)
       \/ Autoscale(r)
    /\ \/ req' = [req EXCEPT ![r].pc = AfterCall(r), ![r].reply = AfterReply(r)]
       \/ "conn" \in Faults /\ Abort(r, "unavailable")

\* rollback_deployment patches the template of the revision asked for and
\* returns its image, which is what the row will be given.
RollBackTo(r, t) ==
    LET new == RolledBack(dep[Key(r)].spec, t) IN
    /\ Takes(r)
    /\ Op(r) = "rollback" /\ dep[Key(r)].live
    /\ dep' = [dep EXCEPT ![Key(r)].spec = new]
    /\ revs' = [revs EXCEPT ![Key(r)] = @ \union {Template(new)}]
    /\ \/ req' = [req EXCEPT ![r].pc = "store",
                             ![r].job.want.knobs["image"] = t.knobs["image"]]
       \/ "conn" \in Faults /\ Abort(r, "unavailable")
    /\ UNCHANGED hpa

\* delete_workload tolerates a Deployment that is already gone.
DeploymentGone(r) ==
    /\ At(r, "k8s") /\ Op(r) = "delete" /\ ~dep[Key(r)].live
    /\ Goto(r, AfterCall(r))
    /\ UNCHANGED <<row, cluster, audit>>

Impossible(r) ==
    \/ Op(r) = "create" /\ dep[Key(r)].live
    \/ Op(r) \in Updates \union {"restart", "rollback"} /\ ~dep[Key(r)].live

\* Mutant of CallRefused: a delete goes on whatever the API answered.
CallRefusedTolerant(r) ==
    /\ At(r, "k8s")
    /\ \/ /\ Impossible(r) \/ "api" \in Faults
          /\ IF Autoscales(Job(r)) THEN Abort(r, "unavailable")
             ELSE IF Op(r) = "delete" THEN Goto(r, AfterCall(r))
             ELSE Settle(r, "bad_gateway")
       \/ Op(r) = "rollback" /\ Settle(r, "not_found")
       \/ "conn" \in Faults /\ Abort(r, "unavailable")
    /\ UNCHANGED <<row, cluster, audit>>

CallRefused(r) ==
    /\ At(r, "k8s")
    /\ \/ /\ Impossible(r) \/ "api" \in Faults
          /\ IF Autoscales(Job(r)) THEN Abort(r, "unavailable")
                                   ELSE Settle(r, "bad_gateway")
       \/ Op(r) = "rollback" /\ Settle(r, "not_found") \* no such revision
       \/ "conn" \in Faults /\ Abort(r, "unavailable")
    /\ UNCHANGED <<row, cluster, audit>>

-----------------------------------------------------------------------------
(* Service and Ingress: failures are logged and the request goes on.       *)

CreateService(r) ==
    /\ At(r, "service") /\ Key(r) \notin svc
    /\ svc' = svc \union {Key(r)}
    /\ Goto(r, "ingress")
    /\ UNCHANGED <<row, dep, revs, ing, hpa, audit, touched>>

CreateIngress(r) ==
    /\ At(r, "ingress") /\ Key(r) \notin ing
    /\ ing' = ing \union {Key(r)}
    /\ req' = [req EXCEPT ![r].pc = "insert", ![r].hosted = TRUE]
    /\ UNCHANGED <<row, dep, revs, svc, hpa, audit, touched>>

\* Mutant of RouteFails: the failure is raised as a 502 like the first call's.
RouteFailsRaises(r) ==
    /\ \/ At(r, "service") /\ (Key(r) \in svc \/ "api" \in Faults)
       \/ At(r, "ingress") /\ (Key(r) \in ing \/ "api" \in Faults)
    /\ Settle(r, "bad_gateway")
    /\ UNCHANGED <<row, cluster, audit>>

\* Mutant of RouteFails: the row is to advertise the host all the same.
RouteFailsHosted(r) ==
    /\ \/ At(r, "service") /\ (Key(r) \in svc \/ "api" \in Faults)
       \/ At(r, "ingress") /\ (Key(r) \in ing \/ "api" \in Faults)
    /\ req' = [req EXCEPT ![r].pc = "insert", ![r].hosted = TRUE]
    /\ UNCHANGED <<row, cluster, audit>>

RouteFails(r) ==
    /\ \/ At(r, "service") /\ (Key(r) \in svc \/ "api" \in Faults)
       \/ At(r, "ingress") /\ (Key(r) \in ing \/ "api" \in Faults)
    /\ Goto(r, "insert")
    /\ UNCHANGED <<row, cluster, audit>>

\* A 404 and any other ApiException have the same effect here: none.
DropRoute(r) ==
    /\ \/ /\ At(r, "drop_ingress")
          /\ ing' \in {ing \ {Key(r)}} \union (IF "api" \in Faults THEN {ing} ELSE {})
          /\ Goto(r, "drop_service")
          /\ UNCHANGED svc
       \/ /\ At(r, "drop_service")
          /\ svc' \in {svc \ {Key(r)}} \union (IF "api" \in Faults THEN {svc} ELSE {})
          /\ Goto(r, "store")
          /\ UNCHANGED ing
    /\ UNCHANGED <<row, dep, revs, hpa, audit, touched>>

RouteCallBreaks(r) ==
    /\ "conn" \in Faults
    /\ req[r].pc \in {"service", "ingress", "drop_ingress", "drop_service"}
    /\ Abort(r, "unavailable")
    /\ UNCHANGED <<row, cluster, audit>>

-----------------------------------------------------------------------------
(* The database writes: one commit each.                                   *)

\* Mutant of Insert: no unique constraint, a deleted workload is overwritten.
InsertOverDeleted(r) ==
    LET a == Job(r) IN
    /\ At(r, "insert") /\ ~Live(row[a.name])
    /\ row' = [row EXCEPT ![a.name] =
                 [status |-> "pending", ns |-> a.ns, port |-> a.port,
                  hosted |-> req[r].hosted, spec |-> a.want]]
    /\ Goto(r, "mark")
    /\ UNCHANGED <<cluster, audit>>

\* The name is unique in the table, and the row of a deleted workload stays
\* in it: the INSERT of a second workload of that name is refused.
Insert(r) ==
    LET a == Job(r) IN
    /\ At(r, "insert") /\ row[a.name].status = "absent"
    /\ row' = [row EXCEPT ![a.name] =
                 [status |-> "pending", ns |-> a.ns, port |-> a.port,
                  hosted |-> req[r].hosted, spec |-> a.want]]
    /\ Goto(r, "mark")
    /\ UNCHANGED <<cluster, audit>>

InsertConflict(r) ==
    /\ At(r, "insert") /\ row[Job(r).name].status # "absent"
    /\ Abort(r, "error")
    /\ UNCHANGED <<row, cluster, audit>>

\* update_status(RUNNING): the session still holds the row as it inserted it,
\* and the UPDATE names the status column whatever it has become meanwhile.
Mark(r) ==
    /\ At(r, "mark")
    /\ row' = [row EXCEPT ![Job(r).name].status = "running"]
    /\ Settle(r, "ok")
    /\ UNCHANGED <<cluster, audit>>

\* Mutants of Stored: the whole row is written back as it was read; a rollback
\* leaves the row alone.
StoredWhole(w, r) ==
    IF Op(r) = "delete" THEN [w EXCEPT !.status = "deleted"] ELSE req[r].seen

StoredNoRollback(w, r) ==
    IF Op(r) = "delete" THEN [w EXCEPT !.status = "deleted"]
    ELSE IF Op(r) \in Knobs THEN [w EXCEPT !.spec.knobs[Op(r)] = Job(r).want.knobs[Op(r)]]
    ELSE IF Op(r) = "env" THEN [w EXCEPT !.spec.env = Job(r).want.env]
    ELSE w

\* The session's identity map keeps the row as first read, so setting a column
\* to the value it had then is no change and no UPDATE is sent for it.
Stored(w, r) ==
    LET want == Job(r).want
        seen == req[r].seen.spec
        set(k) == [w EXCEPT !.spec.knobs[k] = IF want.knobs[k] # seen.knobs[k]
                                                THEN want.knobs[k] ELSE @]
    IN  IF Op(r) = "delete"        THEN [w EXCEPT !.status = "deleted"]
        ELSE IF Op(r) \in Knobs    THEN set(Op(r))
        ELSE IF Op(r) = "rollback" THEN set("image")
        ELSE [w EXCEPT !.spec.env = IF want.env # seen.env THEN want.env ELSE @]

Store(r) ==
    /\ At(r, "store")
    /\ row' = [row EXCEPT ![Job(r).name] = Stored(@, r)]
    /\ Settle(r, "ok")
    /\ UNCHANGED <<cluster, audit>>

WriteFails(r) ==
    /\ "db" \in Faults
    /\ req[r].pc \in {"insert", "mark", "store"}
    /\ Abort(r, "error")
    /\ UNCHANGED <<row, cluster, audit>>

\* AuditService.log never raises: a failed write is logged and the answer sent.
Answer(r) ==
    LET entry == <<r, IF req[r].reply = "ok" THEN "success" ELSE "failure">> IN
    /\ At(r, "answer")
    /\ audit' \in {audit \union {entry}}
                    \union (IF "audit" \in Faults THEN {audit} ELSE {})
    /\ Goto(r, "done")
    /\ UNCHANGED <<row, cluster>>

-----------------------------------------------------------------------------
\* The backend process dies: every request it was serving is gone with it.
Crash ==
    /\ "crash" \in Faults /\ Active # {}
    /\ req' = [r \in Requests |->
                 IF r \in Active THEN [req[r] EXCEPT !.pc = "done", !.reply = "lost"]
                                 ELSE req[r]]
    /\ UNCHANGED <<row, cluster, audit>>

\* Kubernetes' autoscaler moves the replica count of a Deployment it targets.
Rescale(k) ==
    /\ k \in hpa /\ dep[k].live
    /\ \E v \in Values \ {0} :
          dep' = [dep EXCEPT ![k].spec.knobs["replicas"] = v]
    /\ UNCHANGED <<row, revs, svc, ing, hpa, req, audit, touched>>

Serve(r) ==
    \/ CallDeployment(r)
    \/ \E t \in revs[Key(r)] : RollBackTo(r, t)
    \/ DeploymentGone(r)
    \/ CallRefused(r)
    \/ CreateService(r)
    \/ CreateIngress(r)
    \/ RouteFails(r)
    \/ DropRoute(r)
    \/ RouteCallBreaks(r)
    \/ Insert(r)
    \/ InsertConflict(r)
    \/ Mark(r)
    \/ Store(r)
    \/ WriteFails(r)
    \/ Answer(r)

Next ==
    \/ \E r \in Requests, a \in Asks : Accept(r, a) \/ Reject(r, a)
    \/ \E r \in Requests : Serve(r)
    \/ Crash
    \/ \E k \in Keys : Rescale(k)

Spec == Init /\ [][Next]_vars

-----------------------------------------------------------------------------
(* What holds whatever is interleaved and whatever fails.                  *)

\* A request answered 400, 404, 409 or 502 has left the cluster as it was:
\* the refusals of WorkloadService come before its Kubernetes call takes
\* effect, and the failures that come later are not reported this way.
CleanRefusal ==
    \A r \in Requests : req[r].reply \in Refusal => r \notin touched

\* At most one create of a name is ever answered 201: the name stays taken in
\* the table for good, even once the workload is deleted.
CreatedOnce ==
    \A r, s \in Requests :
        /\ Op(r) = "create" /\ Op(s) = "create" /\ Job(r).name = Job(s).name
        /\ req[r].reply = "ok" /\ req[s].reply = "ok"
        => r = s

\* Failures of a create that its client sees, or that leave it without answer.
Reported == {"error", "unavailable", "lost"}

\* A create that may have made the Deployment and has no row for it.
Unregistered(r, k) ==
    /\ Op(r) = "create" /\ Key(r) = k
    /\ req[r].pc \in {"service", "ingress", "insert"} \/ req[r].reply \in Reported

\* No orphan is silent: a Deployment that no live row stands for was left by a
\* create that has not reached its INSERT, or that answered 500 or 503 or died.
OrphansReported ==
    \A k \in Keys :
        dep[k].live /\ ~(Live(row[k[2]]) /\ row[k[2]].ns = k[1])
        => \E r \in Requests : Unregistered(r, k)

\* The audit log tells the truth: a failure is logged for a request that left
\* the cluster as it was, and a create logged as a success has its row.  (An
\* entry may be missing: a request that broke off logs nothing.)
AuditTruthful ==
    \A r \in Requests :
        /\ <<r, "failure">> \in audit => r \notin touched
        /\ <<r, "success">> \in audit /\ Op(r) = "create"
              => row[Job(r).name].status # "absent"

\* The only step that can bring a deleted workload back in the table is the
\* second commit of its create (update_status RUNNING); the updates write
\* their own columns and can be late without undoing a delete.
OnlyMarkRevives ==
    [][\A n \in Names :
          row[n].status = "deleted" /\ row'[n].status # "deleted"
          => \E r \in Requests : Job(r).name = n /\ Mark(r)]_vars

-----------------------------------------------------------------------------
(* The inductive invariant behind these.                                   *)

\* Where each kind of request can be, and what its answer can be there.
Phases ==
    \A r \in Requests :
        /\ req[r].pc \in {"service", "ingress", "insert", "mark"} => Op(r) = "create"
        /\ req[r].pc \in {"drop_ingress", "drop_service"} => Op(r) = "delete"
        /\ At(r, "store") => Op(r) \notin {"create", "hpa_put", "hpa_delete"}
        /\ req[r].pc \notin {"answer", "done"} => req[r].reply = "none"
        /\ req[r].reply \in Reported => At(r, "done")
        /\ req[r].pc \in {"idle", "k8s"} => r \notin touched

\* The create whose row is in the table.
Registered(r) == Op(r) = "create" /\ (At(r, "mark") \/ req[r].reply = "ok")

RegisteredOnce ==
    /\ \A r \in Requests : Registered(r) => row[Job(r).name].status # "absent"
    /\ \A r, s \in Requests :
          Registered(r) /\ Registered(s) /\ Job(r).name = Job(s).name => r = s

\* A request that works on a row addresses the namespace the row still has.
SeenNamespace ==
    \A r \in Requests :
        /\ req[r].pc \in {"k8s", "drop_ingress", "drop_service", "store"}
        /\ Op(r) \notin {"create", "hpa_put", "hpa_delete"}
        => /\ row[Job(r).name].status # "absent"
           /\ row[Job(r).name].ns = req[r].seen.ns

\* A Deployment found again behind a delete is another create's.
LeftBehind ==
    \A d \in Requests :
        /\ Op(d) = "delete"
        /\ req[d].pc \in {"drop_ingress", "drop_service", "store"}
        /\ dep[Key(d)].live
        => \E r \in Requests : Unregistered(r, Key(d))

WorkloadInv == /\ TypeOK /\ Phases /\ CleanRefusal /\ RegisteredOnce
               /\ SeenNamespace /\ LeftBehind /\ OrphansReported

-----------------------------------------------------------------------------
(* What holds when clients take turns and only the Kubernetes API fails.   *)

Idle == Active = {}

\* A workload the table lists has its Deployment, and the host the table
\* advertises has its Service and its Ingress, also when one of the two was
\* refused to its create, and when some were left behind by an earlier delete.
LiveRowBacked ==
    Idle => \A n \in Names :
        LET k == <<row[n].ns, n>> IN
        Live(row[n]) => /\ dep[k].live
                        /\ row[n].hosted => k \in svc /\ k \in ing

\* The table's replica count and image are the cluster's, across updates,
\* restarts and rollbacks, and the cluster has every variable the table lists.
RowMirrorsCluster ==
    Idle => \A n \in Names :
        LET s == dep[<<row[n].ns, n>>].spec IN
        Live(row[n]) =>
            /\ \A k \in {"replicas", "image"} : row[n].spec.knobs[k] = s.knobs[k]
            /\ row[n].spec.env \subseteq s.env

-----------------------------------------------------------------------------
(* The inductive invariant behind these two.                               *)

Agrees(n) ==
    LET k == <<row[n].ns, n>>
        s == dep[k].spec
    IN  Live(row[n]) =>
            /\ dep[k].live /\ (row[n].hosted => k \in svc /\ k \in ing)
            /\ \A j \in {"replicas", "image"} : row[n].spec.knobs[j] = s.knobs[j]
            /\ row[n].spec.env \subseteq s.env

\* The Deployment of a create that has yet to insert its row.
Made(r) == dep[Key(r)].live /\ dep[Key(r)].spec = Rendered(Job(r))

\* The cluster is ahead of the row by what the request is about to store.
Ahead(r) ==
    LET w == row[Job(r).name]
        s == dep[Key(r)].spec
        target == IF Op(r) = "rollback" THEN "image" ELSE Op(r)
        want == Job(r).want
    IN  /\ target \in Updates
        /\ dep[Key(r)].live /\ (w.hosted => Key(r) \in svc /\ Key(r) \in ing)
        /\ \A j \in {"replicas", "image"} :
              s.knobs[j] = IF j = target THEN want.knobs[j] ELSE w.spec.knobs[j]
        /\ w.spec.env \subseteq s.env /\ (Op(r) = "env" => want.env \subseteq s.env)

\* What the request that is served has done so far.
Progress(r) ==
    LET w == row[Job(r).name] IN
    /\ req[r].pc \in {"k8s", "service", "ingress", "insert"} /\ Op(r) = "create" => ~Live(w)
    /\ req[r].pc \in {"k8s", "service", "ingress"} => ~req[r].hosted
    /\ req[r].pc \in {"service", "ingress", "insert"} => Made(r)
    /\ At(r, "ingress") => Key(r) \in svc
    /\ At(r, "insert") /\ req[r].hosted => Key(r) \in svc /\ Key(r) \in ing
    /\ At(r, "mark") => Live(w)
    /\ req[r].pc \in {"k8s", "drop_ingress", "drop_service", "store"} /\ Op(r) # "create"
          => Live(w) /\ req[r].seen = w
    /\ At(r, "store") /\ Op(r) # "delete" => Ahead(r)

\* One request at a time; but for the workload it works on the stores agree.
TurnsInv ==
    /\ hpa = {}
    /\ \A r \in Requests : ~Autoscales(Job(r))
    /\ \A r, s \in Active : r = s
    /\ \A r \in Active : Progress(r)
    /\ \A n \in Names :
          \/ Agrees(n)
          \/ \E r \in Active : /\ Job(r).name = n
                              /\ req[r].pc \in {"store", "drop_ingress", "drop_service"}

=============================================================================
