# pi-cluster: a verification development

pi-cluster is an administration panel for a small Kubernetes cluster: a FastAPI
backend with PostgreSQL and Redis, a React frontend, SSH access to the nodes,
Prometheus for alerts, Jenkins for deployment. This directory holds TLA+
modules of the parts of it that have state and concurrency, TLC configurations
that check them on small instances, and TLAPS proofs for any size.

    tlc -workers 4 -config WorkloadRaces.cfg MCWorkload.tla     # one run
    tlapm WorkloadProofs.tla                                    # the proofs of a module

`PROJECT.json` is the index: runs, the mutant of the code each property catches,
the source lines behind each definition, the hazards, the theorems.

## 1. The system

The backend is one asyncio process. A request runs without interruption between
two awaits; it awaits every database statement, every Kubernetes or SSH call
(sent to a thread pool) and every delivery. Two requests therefore interleave at
awaits, and nothing orders them: the code has no lock of any kind, although
docs/architecture.md:133 lists distributed locks. Three background tasks (node
health, alert history, retention) share the process. A restart ends all of it
between two steps.

| Part | State | Operations | What is hard |
|---|---|---|---|
| Workload lifecycle (`services/workload_service.py`, `repositories/workload_repository.py`) | one `workloads` row per name, kept after deletion; Deployment, Service, Ingress, HPA per namespace and name | create, delete, scale, image, env, limits, probes, restart, rollback, autoscaler | two stores and no transaction over them; overlap; names used again; crashes |
| Kubernetes client (`services/k8s_service.py`) | the cluster | one API call each; rollback is two | merge patches, 404 and 409 answers |
| Audit (`services/audit_service.py`) | `audit_logs` | one entry per request, never raises | entries that are missing or wrong |
| Alert rules (`services/alert_rules_service.py`) | the git clone on pi-node1, origin/master, Prometheus' loaded rules | create, update, delete: chown, fetch, reset, read, write, commit, push, recreate | one clone for all edits; commands that outlive their timeout; Jenkins' rsync of the same tree |
| Pipeline (`Jenkinsfile`) | last successful commit, workspace | checkout, sync, test, deploy, later stages | races with the panel's edits; when to recreate Prometheus |
| Alert history (`services/alert_history_service.py`) | `alert_history`, the snapshot of a sync | fetch, insert, dispatch, resolve | snapshots; partial syncs; restarts |
| Notifications (`services/notification_service.py`) | `notification_channels` | dispatch to the channels that take it; edits | failing deliveries; edits meanwhile |
| Retention (`services/retention_service.py`) | as above | delete old resolved rows | runs next to the poller |
| Users and logins (`api/v1/users.py`, `api/v1/auth.py`) | `users`, `known_login_ips` | login, create, role, delete | check and write are two steps; a foreign key |
| Node health (`services/health_service.py`) | node status, Redis cache | sweep, check of one node | all checks of a sweep share a database session |
| SSH (`services/ssh_service.py`), stress tests, power | a pool of eight threads | commands with timeouts | the pool fills up; commands run on |
| Terminals (`api/v1/exec.py`) | a thread and a socket per session | read, write, close | either side closes first |
| Frontend client (`frontend/src/api/client.ts`, `context/AuthContext.tsx`) | tokens and name in localStorage, shared by all tabs; the account each tab shows | sign in, sign out, reload, request, refresh on 401 and one more try | several requests refresh at once; sign-out in between; two tabs |
| Frontend pages (`frontend/src/pages`, `components`, `App.tsx`) | per page: list, spinner, errors, busy flags, dialogs, what a dialog has fetched, filter | load, poll, choose a filter, create, edit, delete, power, page by page | handlers overlap and nothing is cancelled; late answers meet closed dialogs and other filters; one flag for all rows |
| Frontend streams (`LiveLogsPage`, `LogsModal`, `TerminalModal`, `NodeSSHModal`) | a WebSocket, what is shown of it | connect, replace, leave | events of a socket arrive after its successor was opened |

How they meet: the routes call the services, these the Kubernetes API, SSH and
the repositories; the pollers call Prometheus and the repositories; alert
history and login call the notification dispatch; an alert-rule edit and a
Jenkins build write the same working tree and recreate the same container. The
pages call the API through `apiFetch`, which shares the tokens among tabs; the
streams and terminals open WebSockets of their own.

What makes each correct:

- *workloads*: a refused request changed nothing; row and Deployment agree; no
  Deployment is left without a row silently; a deleted row stays deleted.
- *alert rules*: an edit is published once, on top of what origin has, and loses
  nobody's commit; success means Prometheus was started on the book with the rule.
- *alert history*: one open row per firing key; nobody is told twice; a failed
  sync is made up for; an alert that still fires keeps its open row.
- *accounts*: an admin remains; no address becomes known unless an alert was dispatched.
- *node health*: a node's status ends as its last check; *SSH*: the pool frees
  its threads; *terminals*: both ends stop.
- *frontend client*: a tab acts as the account it shows; nobody is signed out
  but by himself or by a refused refresh; every request ends.
- *pages*: no control stays disabled; a page shows what was done on it and what
  was chosen; what a dialog shows is of its row; polling pages converge.
- *streams*: one live connection at most, and none that nobody refers to.

## 2. The modules

| Module | What it is |
|---|---|
| `WorkloadLifecycle` | the workload requests as interleaved processes over rows, Deployments, routes and audit log |
| `MCWorkload` | the requests TLC sends |
| `WorkloadProofs` | type correctness, the inductive invariant, five theorems; that table and cluster agree when clients take turns |
| `RuleBook` | abstract: what publishing alert rules promises |
| `AlertRules` | the clone, origin, Prometheus, edits and builds; refines `RuleBook` |
| `RulesProofs` | what holds of alert rules under any overlap; the refinement for edits that take turns |
| `MCAlertRules` | the edits and the developers' pushes |
| `AlertHistory` | the poller, the channels, retention, and Prometheus' alerts |
| `HistoryProofs` | the inductive invariant of the alert history, four theorems |
| `MCAlertHistory` | which alerts share a key |
| `NodeHealth` | the health poller, the SSH threads, load tests and power commands |
| `NodeProofs` | the inductive invariant of the checks, three theorems |
| `MCNodeHealth` | what may be asked of two nodes |
| `Terminal` | a shell or a log over a WebSocket |
| `TerminalProofs` | the inductive invariant of a session, two theorems |
| `Accounts` | users, logins and known addresses |
| `AccountProofs` | that addresses are known only after an alert was dispatched, and that admins go together |
| `MCAccounts` | two admins and what they may ask |
| `Session` | tokens, tabs and `apiFetch` |
| `SessionProofs` | its inductive invariant and the two safety properties |
| `Screen` | what all pages have in common: the steps of a handler, of a load and of a dialog |
| `ResourcePages` | ConfigMaps, Secrets, Namespaces, Storage, CronJobs (extends `Screen`) |
| `AdminPages` | Users, Notifications, AlertRules (extends `ResourcePages`) |
| `WorkloadsPage` | workloads, nodes and the modals of a workload (extends `AdminPages`) |
| `ViewPages` | the pages that only show (extends `WorkloadsPage`) |
| `Dashboard` | the dashboard and the view of a node (extends `ViewPages`) |
| `LogStream` | the views over a WebSocket (extends `Screen`) |
| `Frontend` | the interface: all of these, the server and its other users |
| `FrontendProofs` | what each step of a handler, a load or a dialog keeps, for every handler that is sound; that the handlers of all pages are; the theorems about pages and streams |
| `MCFrontend` | the symmetry of handlers and of rows |

### WorkloadLifecycle

A request is a slot with a program counter: `idle`, `k8s` (its check is passed,
the Kubernetes call comes next), `service` and `ingress` or `drop_ingress` and
`drop_service`, `insert`, `mark` or `store` (one commit each), `answer` (the
audit entry), `done`. Each action is what the code does between two awaits.
`Accept` and `Reject` are the check on the row as it is read first; `seen` is
that row, which SQLAlchemy's identity map keeps: `Stored` sends no UPDATE for a
column set to the value it had when it was read. `CallDeployment`,
`RollBackTo`, `DeploymentGone` and `CallRefused` are the outcomes of the
Kubernetes call: it takes effect, it is refused (502), or the connection breaks
before or after the effect, which ends in 503 by the handler in `main.py`.
`RouteFails` goes on without the host, as the code does; `Insert` meets the
unique name. `Settle` leads to the audit entry, `Abort` is an exception that
reaches no handler of the service.

A specification of a Deployment is replicas, image, limits, probes (values from
a small set, 0 for the default) and a set of variables. `revs` is the set of pod
templates a rollback can go back to. The placement of a new workload, the
quantities' syntax and the reads are left out.

### AlertRules and RuleBook

`RuleBook` has a book (rule to body) and edits that are applied once, in one
step, on the newest book, before or after which the answer may fail; a success is
answered only for an applied edit. `AlertRules` has origin as a sequence of
books, the clone (`base`, `ahead`, `tree`, the tracking branch, root's
ownership), Prometheus' rules, the edits command by command, and one Jenkins
build. The page checks no expression (`schemas/alert_rule.py`), so some bodies are
`Invalid`: Prometheus, once recreated, refuses a file with one (`Accepted`), exits,
evaluates nothing (`Evaluated`) and is started again by docker (`Restart`). A push that is not on top of origin is refused. A command may fail, or
outlive the timeout of its caller and still take effect later. The refinement
maps the book to the tip of origin and an edit's application to its push.

### AlertHistory

`firing` is what Prometheus would answer; `current` is what it answered at the
start of the sync, `open` the rows read then, `todo` the keys to insert, `told`
and `telling` the dispatch under way. `KeyOf` maps an alert to (alertname,
node_name): two alerts may share a key. Each commit and each delivery is an
action, and `Begin`, `End`, `SetChannel`, `Age` and `Cleanup` may come between
any two.

### NodeHealth

`owner` is whoever checks or commands nodes: the sweep, or a request. Each has
one `task` per node, which is `queued` and `running` in the pool, then, for a
check, `found` (the result is compared with the row), `commit`, `refresh` and
`cache`. The checks of a sweep share one session (`seen`): SQLAlchemy refuses a
commit while another is under way, so `Lose` drops a result and leaves it set on
the session's row, and the next flush may or may not take it along (`Commit`).
While the row is read again the outcome depends on how far SQLAlchemy is, and all
outcomes are allowed; so they are after a failed statement (`broken`). A request
has a session of its own, whose rows are those of its beginning. Commands and
load tests hold the same threads. The control node runs the backend: `Down`
ends the tasks with it. Figures, gauges and registration are left out.

### Terminal

One session of one of three kinds (`kind`). `sent`, `inQ` and `got` are the
client's messages on the socket, in `in_q` and at the shell; `wire`, `outQ` and
`shown` the output not yet read, in `out_q` (with the callbacks handed to the
event loop, which are put there in order) and at the client. The thread takes
turns between a read (`read`), which a shell's has a timeout for (`Pause`), and
at most one message (`input`). `Finish` is its `finally`. `NextRead` and
`Exhausted` say how a loop notices the end: `run_exec` and `run_logs` after all
output, `run_ssh` perhaps before. A frame, a chunk and a `recv` are one piece.
A message to a shell on a node may be handed over in part (`cut`): `chan.send` takes what
fits and its result is not used.
Pieces are numbered as they are typed or written, and the backend's own lines
are `Error` and `End`.

### Accounts

A request authenticates, finds the account it names, and writes; a login looks
the address up, sends the alert, looks it up again and inserts or updates.
`known` counts rows per user and address, as nothing keeps them unique.
`alerted` is a history of the alerts that told some channel, `missed` of those that told
none, because none is enabled or every delivery failed: the login goes on either way. The foreign key from known_login_ips
makes the database refuse to delete a user who has logged in. `Crash` ends the
requests and starts the backend again, which makes an admin if there is nobody
(`Seed`); every users table the behaviours begin with has an admin, as that start
leaves it.

### Session

`store` is localStorage: two tokens, abstracted to the account they were issued
to, and the name. `shown` is the state of `AuthProvider` in each tab, read once
when the tab is loaded (`LoadTab`) and set by `LoggedIn` and `Logout`. A request is
`first`, `refresh` or `retry`; `Send` reads the token from localStorage, not from
the tab. An access token may be found expired at any time; `valid` holds the
accounts whose refresh token is good, but a refresh may be refused for any reason
(`RefreshRefused`: a 401, as well a 429, 500 or 502); `denied` is the history of that. `EndSession` removes the tokens,
but not the name, and reloads the tab, which loses its requests. `crossed` is a
history: an account came or went past another tab or past a request that had the
former. From then on a tab may well act as another account than it shows, as the
code has no `storage` listener; the properties say what holds before.

### Screen and the pages

A page is described by records. A `Handler` says which flag a click raises, where
it clears and shows errors, which dialogs it closes or fills, whether it changes
the server, and how the list is loaded afterwards (`Refresh`). The steps are the
same for all: `Begin` (a click), `Serve` and `Fail` (the server, or the
network, which may lose a call before or after it is served), and on arrival
`Worked`, `Rejected`, `Loaded`, `LoadFails`. `calls` holds the handlers under way in
slots; each keeps the filter it has closed over (`of`). `live` is false
when the component that keeps a handler's state is gone: React ignores what it
sets, but the handler goes on, loads the list and closes dialogs of the page. A list
is `seen` (how many changes of the server it shows), `of` (its filter), and
`sure`: loaded by a call that overlapped no other, and no load has failed since. The page modules then
read like the pages: for each button, when it is offered and which handler it
starts. `busy` maps a flag to rows: a flag of the page remembers one, as
`deletingName` and its like do; a modal's or a row's goes with it (`inner`).
`Orphaned` unmounts. `bodyless` marks the calls answered with 204, whose promise
`apiFetch` rejects as it parses the empty body: after them the handlers go to
their `catch`. Of `apiFetch` no more is seen here; a 401 and its refresh are in
`Session`.

Typed text, searches among the rows shown, sorting, unfolding, and the choice of tabs
without a call are left out, and the role of admin is taken for granted. The pages do not share state, so one page is mounted at a
time (`page`), chosen at the start.

### LogStream

`at` is the state of each socket, `current` the one the view refers to. `close()`
takes effect at once for messages; `Errored` and `Ended` are the events that come
later and set the state of the view whichever socket it has by then (`Shows`
drops what comes after unmounting).

## 3. The runs

Passing runs (each property has a mutant of the code that breaks it):

| Run | Shows | Instance |
|---|---|---|
| `workload_serial` | `LiveRowBacked`, `RowMirrorsCluster`: table and cluster agree when clients take turns | four requests one after another, one name, all operations, any call refused by the Kubernetes API; four suffice for create, change, change, roll back or delete |
| `workload_races` | `WorkloadInv`, `CleanRefusal`, `OrphansReported`, `CreatedOnce`, `AuditTruthful`, `OnlyMarkRevives` under overlap and every fault | three overlapping requests of one name in two namespaces: create, delete and one that sees both |
| `rules_turns` | `PublishesOneEdit` (refinement of `RuleBook`), `LoadedOnSuccess` | two edits, two pushes by developers, one of edit and build at a time, every fault; one body of three is one that Prometheus refuses |
| `history_sync` | `HistoryInv`, `OneOpenRow`, `NotifiedOnce`, `Synced`, `OpenWhileFiring`, `CatchesUp` | two alerts of one key, one of them critical, that fire twice; one channel; two troubles between any two steps |
| `nodes_converge` | `NodesInv`, `OneGetsThrough`, `WorkersFirst`, `Converges`, `CacheConverges` | two nodes, one thread, sweeps without end and one request, one trouble (two take several times as long and show the same) |
| `terminal_ends` | `TerminalInv`, `Reported`, `NoStall`, `BothStop` | a session of each kind, three pieces of output, two messages, one trouble |
| `accounts_overlap` | `AccountInv`, `KnownWasDispatched`, `OnlyTogether` | three overlapping requests of two admins |
| `session_shared` | `SessionInv`, `ActsAsShown`, `KeptSignedIn`, `CallsEnd` | two tabs, two accounts, two requests under way, any number of sign-ins, refreshes, refusals and revocations |
| `pages` | `PagesInv`, `ReadsOwnWrites`, `DraftBelongs`, `ChartsOfPeriod`, `OneStream`, `NamesOfSureList` | every page with two rows (none protected, which offers most), two filters, two handlers under way, two changes of the server (one on CronJobs and Secrets); three sockets |
| `settles` | `Settles`, `Converges` under fairness | the pages with timers and three of the others, one row, two handlers |

Bounds: `MaxInFlight`, `MaxWorking` (requests or workers at once), the number
of request slots, `MaxPushes`, `MaxEpisodes`, `MaxOut`, `MaxIn`, `MaxTroubles`, `MaxId`, `MaxBody`, `PoolSize`
(eight threads in the code; with one, every command can wait for every other),
`Calls`, `Slots` (requests and handlers under way at once: the hazards are of two),
`MaxChanges` (one change tells an older list from a newer, two let one handler's change come after what another has loaded),
`Crowded` (CronJobs and Secrets have most buttons and see one change; Secrets has the
handlers of ConfigMaps, and CronJobs those of
ConfigMaps but the editor, a toggle like that of Notifications, and a dialog of runs), `Sockets` (two closed
ones beside a new one), `Offered`: a user of WorkloadsPage uses the buttons of one
group in a behaviour, so that handlers of different groups do not meet; the
groups hold those that touch the same flag, row or modal state in pairs.
Slots are used once, so that a behaviour ends: `CHECK_DEADLOCK FALSE`.
Symmetry is used over requests, editors, slots and rows only, which no constant tells
apart; where a free slot is chosen, any free one is as good. It is not used
where liveness is checked.

Runs where the code does other than what is written about it; each is one
finding in `PROJECT.json`:

| Run | Property | What happens |
|---|---|---|
| `rules_lost` | `SuccessKept` | one edit's reset discards another's write, and both succeed |
| `delete_reported` | `DoneIsNoError` | the backend deletes and answers 204 (`tests/test_namespaces.py:139`); `apiFetch` parses the empty body and rejects; the page shows a failure and keeps the row until it is loaded again |

Also met while modelling, in the backend: create, delete and create of one name makes the
Deployment and then violates the unique name (`workload_service.py:88`), which
`OrphansReported` allows as the client is told 500; an alert-rule edit
that the panel loaded and a push reverted before the next build stays loaded, as
`Jenkinsfile:30` diffs against the last successful build; the alerts of two pods
have one key, and the second is not recorded (`alert_history_service.py:51`); two first logins
from one address insert two rows, on which `scalar_one_or_none` fails
ever after (`known_login_ip_repository.py:21`); the autoscaler routes
write no audit entry and their HPA outlives the workload; `PATCH /env` merges, so
that a variable left out stays in the Deployment; deleting a user who has logged
in fails on the foreign key; a build's rsync between a push and the recreation of
Prometheus makes it load the older file (`rules_turns` has them take turns); a rule
whose expression Prometheus cannot parse is answered with 201 and "published"
(`prom_rules.py:37`), and from then on Prometheus restarts in a loop and evaluates no rule at
all until another edit repairs the file, while the docstring of `AlertRulePublishError`
says that a failed reload maps to 502 (`alert_rules_service.py:42`); a first login
from an address is recorded although its alert told nobody, when no channel is enabled
or every delivery fails (`notification_service.py:45`), and no later login alerts; of
two nodes that go down together, one may be shown up for a sweep longer;
two overlapping scale requests may patch and commit in opposite
orders, and the row then keeps the other's count (`roadmap.md:90` says it is in
sync); `run_ssh` leaves on `exit_status_ready` with output unread, and loses the end of
a message that `chan.send` takes a part of (`exec.py:242`); a thread of a
session outlives its client as long as the remote end is silent; when the
kubeconfig cannot be read, `run_exec` and `run_logs` end without a last line, and
the client is told nothing; `restart_all_nodes` commands the control node, on which the queue of the others
lives, at the same time as them.

In the frontend: when the load of a namespace just chosen fails, ConfigMaps and
Secrets keep the rows of the former one (`SecretsPage.tsx:49`, `ConfigMapsPage.tsx:44`), and so they may
after overlapping loads: deleting such a row deletes the object of that name in the new
namespace; any answer of `/auth/refresh` that is no success - a 429 of the rate limiter,
a 500, a 502 while the backend restarts - signs the user out although the token is good (`client.ts:11`);
a scale of another row lowers the flag of the first, so that its
control is enabled while its request is under way (`roadmap.md:92` says
"disabled while scaling"); an answer that closes over the former namespace loads that
one's list under the new filter (create or save, then switch); a list may be
replaced by an older one that was overtaken; "Load more" with a former filter
appends to the list of the new one; the save of a modal that was closed closes the
one of its kind opened since for another workload; saving one user's password closes the field of another; the
runs of a CronJob are shown under the title of the job chosen since; a failure to load
an autoscaler is shown as having none; reloading alert rules unmounts the rows
and loses what is being edited in others; a poll that succeeds clears the error of
another handler; the confirmation of a power command can be clicked twice; the late close
event of a former WebSocket marks the next connection as offline; the streams
do not refresh their token, which `README.md:626` may be read to promise.

### Fairness

`AlertHistory` states `WF_vars(Sync)`. The poller is one task of the event loop
in an endless loop that catches every exception, each of its awaits has a timeout
or ends with the connection, and it sleeps for 30 s in between. `Begin`, `End`,
retention and the troubles are not fair; troubles and episodes are bounded, so
that the world settles, and `CatchesUp` says what holds then. No fairness is
assumed of Prometheus, channels or administrators.

`NodeHealth` states weak fairness of the sweep's beginning and end, of the
threads (a thread takes the oldest command; each command ends or times out, with
`ssh_connect_timeout` and `ssh_command_timeout`) and of the steps of each check,
which the event loop resumes. Requests need not go on, nodes need not come up,
cache entries need not expire. `Converges` and `CacheConverges` say nothing while
the control node is down.

`Terminal` states weak fairness of the handler, the sender and the thread, which
the event loop and the operating system run: every call of the thread returns
with output, a timeout or an error. Troubles, the client and the remote end are
not fair.

`Session` states `WF_vars(Progress(c))` for each request: the browser and the
backend answer it or the connection fails. Users, tabs and revocations are not
fair.

`Frontend` states, for each handler, weak fairness of its call being served or
failing and of its answer arriving, and strong fairness of a load being served:
the server does not refuse for ever. `SF_vars(Poll)`: the interval timers of the
browser run for ever; it is strong because a free slot is a condition of the model,
not of the browser. `Converges` excludes a user who pauses, or opens modals,
again and again. The close and error events of a socket are weakly fair.

## 4. The proofs

`WorkloadProofs` proves, for any sets of requests, names, namespaces, values,
variables, requests asked and faults, with only `ConstantAssumption`:

- `TypeCorrect`: `Spec => []TypeOK`;
- `Invariance`: `Spec => []WorkloadInv`;
- `RefusalsAreClean`, `NamesAreCreatedOnce`, `NoSilentOrphan`,
  `TruthfulAudit`, `OnlyCreateRevives`: the properties of `workload_races`.

The argument. `OrphansReported` is not inductive: a delete that has removed the
Deployment, and waits to mark the row, could meet a Deployment that appeared
meanwhile. `LeftBehind` says that this one is another create's, still
unregistered, and stays so, because the row it would be registered with is in
the table until then and for good (`RegisteredOnce`: a name is inserted once).
`SeenNamespace` ties the namespace a request read to the row's, so that the
Deployment it works on is the row's. `Phases` says where each kind of request
can be and with which answer. The step lemmas first show what a step of
one request leaves alone (`ServeFrame`, `ServeMoves`, `ServeRows`,
`ServeDeployments`), then that each conjunct is kept.

`WorkloadProofs` also proves, from `TakeTurns` (one request at a time, no broken connection, no failing
commit, no crash, no autoscaler requests; the Kubernetes API may refuse any call, and the
audit entry may fail), `RowsAreBacked`
(`LiveRowBacked`) and `RowsMirrorCluster` (`RowMirrorsCluster`), for any sets of
requests, names, namespaces and values. The argument. Between two requests all
workloads agree with the cluster (`Agrees`); while one is served only its own may
not, and only after its call and before its commit. `Progress` says what it has
done by then: a create has its Deployment, and Service and Ingress if it will say so
(`Made`); an update has put into the cluster what it is about to store (`Ahead`),
and the row is still as it was read, so that `Stored` leaves no column out that
changed. Two conditions are needed: with two requests at a time their commits may come in the
other order than their patches, and after a failed commit the cluster stays ahead.
`TurnsInv` was checked on the instance of `workload_serial` first.

`RulesProofs` proves, for any finite set of editors and any rules, bodies and number of
pushes (`ConstantAssumption`):

- however edits, builds and pushes overlap and whatever fails: `TypeCorrect`
  (`TypeOK`: no position of the clone or of a build lies beyond the history of origin);
  `CommitsKept`: no commit that is in origin/master leaves it or changes its place;
  `RefusedStaysOut`: an edit answered 404 or 409 is in no commit, neither of origin
  nor of the clone, from where a push of another edit would publish it;
- when edits and builds take turns (`TakeTurns`, a hypothesis of each theorem):
  `TurnsInvariance` (`RulesInv`), `SuccessIsLoaded` (`LoadedOnSuccess`) and `Implements`,
  the refinement of `RuleBook` (`PublishesOneEdit`).

The argument. A push needs the clone's base to be the tip, so that origin only grows;
a commit is made by the request that is at it, after its check, and a request that was
refused never comes there. With turns, `Prepared` says what one request has made of the
clone at each command: after the reset the tree is the book at `base`, what it has
read and written is its own edit of that book, and what is `ahead` is that one
commit. So the push that is accepted appends exactly its edit of the tip, which is
`RuleBook`'s `Act`; a developer's push is its `Develop`; the other commands and the steps of
a build are stutters, or give one answer, of which `Answered` says that it is true. `SuccessIsLoaded` follows: the book that was pushed
is the one Prometheus is started on; whether it evaluates it is up to what is `Invalid`.
Nothing in the code makes requests take turns, as the clone has no lock: the hypothesis
is what an administrator who works alone, beside no build, amounts to, and `rules_lost`
shows that without it a success may be lost.

`HistoryProofs` proves, for any alerts, keys, channels, bounds and troubles:
`OneRowPerKey` (`OneOpenRow`), `NobodyToldTwice` (`NotifiedOnce`), `SyncIsRight`
(`Synced`) and `FiringStaysOpen` (`OpenWhileFiring`). The argument. The poller is
alone to insert and works through its snapshots: `Fresh` says that a key yet to
be inserted has no open row, which carries `OneOpenRow` through the inserts;
`Snapshot` that open keys and keys to insert are together those found open and
those answered, so that when nothing is left to insert or to resolve the open
keys are the answered ones. `NotifiedOnce` needs to know that a firing which was
sent is never taken for new: `Heard` says that it has its row open still, or is
over and out of the answer. Resolving a row must therefore imply that its firing
is over, which is `Covered`: the answer has every open firing that lasts. Were
firings not numbered upwards as they begin (`Begun`), a sent one could come back.

`AccountProofs` proves `DispatchedFirst` (`KnownWasDispatched`) with the invariant
`AccountInv`: a login between the alert and the insertion has dispatched one, to whomever
it reached, or found the address known (`PastAlert`), which a known address justifies by `KnownWasDispatched` itself.
It also proves `AdminsGoTogether` (`OnlyTogether`). The argument. Nobody removes
himself, so that a single request leaves its own admin. With overlap the induction
needs to know who removed whom: `AdminsInv` keeps a set of removals that
`Explain` the admins, in which whoever was admitted as an admin, or takes part in it,
is one still or was removed by a member. If nobody is left, every member was
removed by another, which is the circle `OnlyTogether` speaks of. A new admin, made by a request or at the start, only adds to the admins.

`NodeProofs` proves, for any nodes, requests and size of the pool: `NodesInvariance`
(`NodesInv`), `SweepGetsThrough` (`OneGetsThrough`) and `ControlNodeLast`
(`WorkersFirst`); the set of nodes is finite. The argument. `QueueMatches` ties each
command to one place in the queue or one thread, which adding, starting and
ending a command keep, and `Pooled` bounds the threads. `OneGetsThrough` follows from
what a result is lost to: a commit or a reading that is under way, or a row the
commit has written. `OneCheck` is needed for it: a request checks one node at a
time, so that only the sweep has two results in one session, and what the sweep
reads again it has written. `ControlLast` says that a shutdown has no worker
left to command when it comes to the control node.

`TerminalProofs` proves, for a session of each kind, any amount of output and input
and any number of troubles: `TerminalInvariance` (`TerminalInv`) and `EndIsReported`
(`Reported`). The argument. `InOrder` says that what the client typed is, message for
message and in its order (a message to a node's shell perhaps without its end, which
`cut` remembers), what the shell got, what is in `in_q` and what is on the
socket, and the same of the output in the other direction; a step hands the first piece
of one queue to the end of the next, which the lemmas on sequences say once (`HandOver`,
`AddLast`, `OrderedPrefix`). `Reported` is not inductive, as it speaks of a sender that
has stopped: `LastLine` says that the sender stops only at the last line, which the thread puts
behind everything when it ends, and `Accounted` that the queue is complete by then, or
has an error in it, where the thread stopped in the middle. `Stages` orders the
beginning of the three activities. `run_ssh` may end with output unread, so
`Accounted` and `Reported` exclude it, but what it has sent is a first part of what was written.

`SessionProofs` proves, for any accounts, tabs and requests: `SessionInvariant`
(`SessionInv`), `TabActsAsShown` (`ActsAsShown`), `SignedOutIfRefused`
(`KeptSignedIn`). The argument. `OneAccount` says that as long as nothing has
`crossed`, everything - both tokens, the tokens of the requests under way, the
accounts shown - is of the one user whose name is in localStorage. A refresh
keeps it whatever other requests do, because it writes a token of that same user. `SignedOutIfRefused`
needs `GoneIfRefused` besides: where the refresh token is gone from under a
tab, a refresh was answered with an error.

`FrontendProofs` proves for any pages, rows, filters, slots, sockets and changes of
the server: `PagesInvariant` (`PagesInv`), `PagesShowTheirWrites` (`ReadsOwnWrites`),
`SureListsAreActedOn` (`NamesOfSureList`), `DraftsAreShown` (`DraftBelongs`),
`ViewShowsItsPeriod` (`ChartsOfPeriod`) and `ViewsHaveOneStream` (`OneStream`).
`ConstantAssumption` and `PagesAssumption` say that there are slots and filters, and
that the pages are known; `SocketsAssumption` that there are sockets.

The argument. The first half knows of a handler only that it is `Sound` and that it
`Fits` its page: its flag is kept where its component is, a spinner it starts
it ends, what changes the server loads the whole list again, only a
modal's own handler closes it, and what it fetches is for a modal that it belongs to or
for the editor that it opens. With that, each step keeps the invariant.
`BusyHasCall` survives lost modals because the handlers that go on without their state
had flags that went with it (`SoundCalls`). `ReadsOwnWrites` is not inductive: a
list that is current while nothing loads may become so by a load that is under way.
`Alone` says of a load that has overlapped no other that no other is there, that it
was asked for what is chosen now, and that what it has read includes everything told;
a handler that is told of a change starts a load in the same step, so that `Current`
has nothing to say until that one ends. `Hidden` ties the spinner of ConfigMaps and
Secrets to the loads: where rows are shown nothing loads, so that `Current` holds
of them if they are of a list that is sure, which is `NamesOfSureList`. `DraftBelongs` needs to know of the answers that are
yet to come: `Fetched` says that a component which is still there, and has asked,
is of a row whose modal is open; a modal that is closed orphans its handlers in the same
step. `PeriodLoads` is why `ChartsOfPeriod` holds: the effect of NodesPage cancels the loads of
the former period, so that all that are under way are for the one that is chosen.
The second half shows that each handler of each page is sound, and that each page
starts them from the states it says. For streams, `StreamInv` adds that while a view has a
connection all its lines are of that one: they were emptied when it was made.

Only model-checked: liveness (`CatchesUp`, `Converges` of nodes and of pages,
`CacheConverges`, `NoStall`, `BothStop`, `CallsEnd`, `Settles`), which the proof system
does not reach. All invariants and action properties of the passing runs, and the refinement,
are proved.

## 5. Not modelled

Node registration, node drain and the channels' own fields are planned below. Left
out for good: the resource routes of the backend (one Kubernetes call each, no state
here; the pages' side of them is modelled), metrics queries, the vault and the
bridges to other services, provisioning, backup, passwords and token
formats, rate limits; of the frontend, the portal of links that viewers see,
PodDetailModal (it fetches once), the choice of pods in LiveLogsPage, the list
NodesPage, which App never shows, formatting and layout. `refreshAccess` of
AuthContext is called by no page.

## 6. Plan

Order: the two stores of a workload first, as the panel's core and its most
interleaved part; then the clone shared with Jenkins; then the background tasks;
then the interface, which is most of the code.

1. Done: the modules above and their proofs.
2. `Notifications`: channel CRUD with the fields an update may leave
   inconsistent, composed with the dispatch of `AlertHistory`.
3. `Drain`: pods listed, evicted one by one, beside new pods.
4. Proofs: none of the runs' safety properties is left; those of the modules above
   come with them.
5. Pure algorithms: placement (`pick_best_node`) and the parsing of quantities
   against reference definitions.
