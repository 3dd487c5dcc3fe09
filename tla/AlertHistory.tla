---------------------------- MODULE AlertHistory ----------------------------
(***************************************************************************)
(* The alert history: a poller (poll_alert_history_forever) that asks      *)
(* Prometheus which alerts fire, keeps one open row per firing key in      *)
(* PostgreSQL, and sends each new row to the notification channels; and    *)
(* the retention job that deletes old resolved rows.                       *)
(*                                                                         *)
(* Everything the poller compares is read before it awaits: the alerts and *)
(* the open rows are snapshots by the time rows are inserted, channels are *)
(* told and rows are resolved, one commit each.  Prometheus, the retention *)
(* job and the administrators who edit the channels go on meanwhile.       *)
(*                                                                         *)
(* An alert is a label set.  The poller tells alerts apart by alertname    *)
(* and node_name only (KeyOf), and does not look at when one began.        *)
(***************************************************************************)
EXTENDS Naturals, FiniteSets

CONSTANTS
    Alerts,       \* label sets of Prometheus' alerts
    KeyOf,        \* Alerts -> (alertname, node_name)
    Critical,     \* the alerts of severity critical, the others are warnings
    Channels,     \* notification channels
    MaxEpisodes,  \* bound on how often an alert begins to fire
    Troubles,     \* what may happen: "prometheus", "db", "channels", "crash", "edit"
    MaxTroubles   \* bound on how often it does

VARIABLES
    firing,       \* the alerts that fire: what Prometheus would answer
    episode,      \* how often each alert has begun to fire
    rows,         \* the alert_history table
    channels,     \* the notification_channels table
    sent,         \* deliveries: <<channel, firing>> -> how many
    pc,           \* the poller: where it is,
    current,      \* its snapshot of the firings,
    open,         \* its snapshot of the open rows, less those it resolved,
    todo,         \* the keys it has yet to insert,
    told,         \* the firing it has just inserted (none or one),
    telling,      \* the channels it has yet to tell of it
    completed,    \* the last sync went through
    troubles      \* how much has gone wrong

world  == <<firing, episode>>
table  == <<rows, channels, sent>>
local  == <<current, open, todo, told, telling, completed>>
vars   == <<world, table, pc, local, troubles>>

Keys    == {KeyOf[a] : a \in Alerts}
Firing  == Alerts \X (1 .. MaxEpisodes)
\* old: resolved_at is past the cutoff (for an open row: fired_at is).
Row     == [of: Firing, open: BOOLEAN, old: BOOLEAN]
Channel == [enabled: BOOLEAN, min: {"warning", "critical"}]

ASSUME ConstantAssumption ==
    /\ MaxEpisodes \in Nat /\ MaxTroubles \in Nat
    /\ DOMAIN KeyOf = Alerts

TypeOK ==
    /\ firing \subseteq Alerts
    /\ episode \in [Alerts -> 0 .. MaxEpisodes]
    /\ rows \subseteq Row
    /\ channels \in [Channels -> Channel]
    /\ sent \in [Channels \X Firing -> Nat]
    /\ pc \in {"sleep", "open", "insert", "dispatch", "send", "resolve"}
    /\ current \subseteq Firing
    /\ open \subseteq Row
    /\ todo \subseteq Keys
    /\ told \subseteq Firing
    /\ telling \subseteq Channels
    /\ completed \in BOOLEAN
    /\ troubles \in 0 .. MaxTroubles

-----------------------------------------------------------------------------
Key(f)     == KeyOf[f[1]]
KeysOf(fs) == {Key(f) : f \in fs}
OpenRows   == {r \in rows : r.open}
OpenOf     == {r.of : r \in OpenRows}
OpenKeys   == KeysOf(OpenOf)
Live(f)    == f[1] \in firing /\ episode[f[1]] = f[2]
FiringKeys == {KeyOf[a] : a \in firing}

Init ==
    /\ firing = {} /\ episode = [a \in Alerts |-> 0]
    /\ rows = {}
    /\ channels \in [Channels -> Channel]
    /\ sent = [d \in Channels \X Firing |-> 0]
    /\ pc = "sleep"
    /\ current = {} /\ open = {} /\ todo = {} /\ told = {} /\ telling = {}
    /\ completed = FALSE
    /\ troubles = 0

Trouble(what) ==
    what \in Troubles /\ troubles < MaxTroubles /\ troubles' = troubles + 1

-----------------------------------------------------------------------------
(* Prometheus and the administrators.                                      *)

Begin(a) ==
    /\ a \notin firing /\ episode[a] < MaxEpisodes
    /\ firing' = firing \union {a}
    /\ episode' = [episode EXCEPT ![a] = @ + 1]
    /\ UNCHANGED <<table, pc, local, troubles>>

End(a) ==
    /\ a \in firing
    /\ firing' = firing \ {a}
    /\ UNCHANGED <<episode, table, pc, local, troubles>>

\* A channel is created, updated or deleted (which is as good as disabled).
SetChannel(c) ==
    /\ Trouble("edit")
    /\ \E cfg \in Channel : channels' = [channels EXCEPT ![c] = cfg]
    /\ UNCHANGED <<world, rows, sent, pc, local>>

-----------------------------------------------------------------------------
(* One sync.                                                               *)

Fetch ==
    /\ pc = "sleep" /\ pc' = "open"
    /\ current' = {f \in Firing : Live(f)}
    /\ completed' = FALSE
    /\ UNCHANGED <<world, table, open, todo, told, telling, troubles>>

\* Mutant of FetchFails: an answer of 5xx has no alerts in it, and nobody looks
\* at its status.
FetchFailsUnseen ==
    /\ pc = "sleep" /\ pc' = "open"
    /\ Trouble("prometheus")
    /\ current' = {} /\ completed' = FALSE
    /\ UNCHANGED <<world, table, open, todo, told, telling>>

\* Prometheus does not answer, or with an error: the sync is skipped.
FetchFails ==
    /\ pc = "sleep"
    /\ Trouble("prometheus")
    /\ UNCHANGED <<world, table, pc, local>>

\* Mutant of NewKeys: firings are looked up by their labels.
NewKeysByLabels == KeysOf(current \ {r.of : r \in OpenRows})

NewKeys == KeysOf(current) \ OpenKeys

ReadOpen ==
    /\ pc = "open" /\ pc' = "insert"
    /\ open' = OpenRows
    /\ todo' = NewKeys
    /\ UNCHANGED <<world, table, current, told, telling, completed, troubles>>

\* create_firing for a key that has no open row.  Of several firings of the
\* key the entry is that of the last in Prometheus' answer.
Insert(f) ==
    /\ pc = "insert" /\ Key(f) \in todo /\ pc' = "dispatch"
    /\ rows' = rows \union {[of |-> f, open |-> TRUE, old |-> FALSE]}
    /\ todo' = todo \ {Key(f)}
    /\ told' = {f}
    /\ UNCHANGED <<world, channels, sent, current, open, telling, completed, troubles>>

\* dispatch_alert_notification: the enabled channels whose threshold is met.
ListChannels ==
    /\ pc = "dispatch" /\ pc' = "send"
    /\ telling' = {c \in Channels :
                     /\ channels[c].enabled
                     /\ channels[c].min = "critical" => \A f \in told : f[1] \in Critical}
    /\ UNCHANGED <<world, table, current, open, todo, told, completed, troubles>>

\* Mutant of Send: a delivery that arrived but timed out is dispatched again.
SendRetries(c) ==
    /\ pc = "send" /\ c \in telling
    /\ sent' = [d \in DOMAIN sent |->
                  IF d[1] = c /\ d[2] \in told THEN sent[d] + 1 ELSE sent[d]]
    /\ \/ telling' = telling \ {c} /\ UNCHANGED <<pc, troubles>>
       \/ Trouble("channels") /\ pc' = "dispatch" /\ UNCHANGED telling
    /\ UNCHANGED <<world, rows, channels, current, open, todo, told, completed>>

\* A delivery that fails is logged, and the next channel is told.
Send(c) ==
    /\ pc = "send" /\ c \in telling
    /\ \/ /\ sent' = [d \in DOMAIN sent |->
                        IF d[1] = c /\ d[2] \in told THEN sent[d] + 1 ELSE sent[d]]
          /\ UNCHANGED troubles
       \/ Trouble("channels") /\ UNCHANGED sent
    /\ telling' = telling \ {c}
    /\ UNCHANGED <<world, rows, channels, pc, current, open, todo, told, completed>>

\* All channels have been told, or reading them failed: the next key.
Dispatched ==
    /\ \/ pc = "send" /\ telling = {} /\ UNCHANGED troubles
       \/ pc = "dispatch" /\ Trouble("db")
    /\ pc' = "insert" /\ told' = {}
    /\ UNCHANGED <<world, table, current, open, todo, telling, completed>>

AllInserted ==
    /\ pc = "insert" /\ todo = {} /\ pc' = "resolve"
    /\ UNCHANGED <<world, table, local, troubles>>

\* Mutant of Cleared: the firing of the row is not in the answer, whether or
\* not another of its key is.
ClearedByLabels == {r \in open : r.of \notin current}

Cleared == {r \in open : Key(r.of) \notin KeysOf(current)}

\* resolve_firing looks the row up by its id.
Resolve(r) ==
    /\ pc = "resolve" /\ r \in Cleared
    /\ rows' = {IF w.of = r.of THEN [w EXCEPT !.open = FALSE, !.old = FALSE] ELSE w :
                  w \in rows}
    /\ open' = open \ {r}
    /\ UNCHANGED <<world, channels, sent, pc, current, todo, told, telling, completed, troubles>>

Completed ==
    /\ pc = "resolve" /\ Cleared = {} /\ pc' = "sleep"
    /\ completed' = TRUE
    /\ open' = {}
    /\ UNCHANGED <<world, table, current, todo, told, telling, troubles>>

\* Mutant of Abandon: the exception ends the polling task.
AbandonForGood ==
    /\ pc' = "dead"
    /\ current' = {} /\ open' = {} /\ todo' = {} /\ told' = {} /\ telling' = {}
    /\ UNCHANGED completed

Abandon ==
    /\ pc' = "sleep"
    /\ current' = {} /\ open' = {} /\ todo' = {} /\ told' = {} /\ telling' = {}
    /\ UNCHANGED completed

\* A statement of the sync fails: the loop logs the exception and sleeps.
SyncFails ==
    /\ \/ pc = "open"
       \/ pc = "insert" /\ todo # {}
       \/ pc = "resolve" /\ Cleared # {}
    /\ Trouble("db")
    /\ Abandon
    /\ UNCHANGED <<world, table>>

\* The backend is killed and started again: the poller starts with a sync.
Crash ==
    /\ pc # "sleep"
    /\ Trouble("crash")
    /\ Abandon
    /\ UNCHANGED <<world, table>>

-----------------------------------------------------------------------------
(* The retention job, once a day.                                          *)

Age(r) ==
    /\ r \in rows /\ ~r.old
    /\ rows' = (rows \ {r}) \union {[r EXCEPT !.old = TRUE]}
    /\ UNCHANGED <<world, channels, sent, pc, local, troubles>>

Expired == {r \in rows : ~r.open /\ r.old}

Cleanup ==
    /\ Expired # {}
    /\ rows' = rows \ Expired
    /\ UNCHANGED <<world, channels, sent, pc, local, troubles>>

-----------------------------------------------------------------------------
Sync ==
    \/ Fetch \/ ReadOpen \/ \E f \in current : Insert(f)
    \/ ListChannels \/ \E c \in Channels : Send(c)
    \/ Dispatched \/ AllInserted
    \/ \E r \in open : Resolve(r)
    \/ Completed

Next ==
    \/ \E a \in Alerts : Begin(a) \/ End(a)
    \/ \E c \in Channels : SetChannel(c)
    \/ Sync \/ FetchFails \/ SyncFails \/ Crash
    \/ \E r \in rows : Age(r)
    \/ Cleanup

\* The poller is a task of the event loop: it goes on as long as it can.
Fairness == WF_vars(Sync)

Spec == Init /\ [][Next]_vars /\ Fairness

-----------------------------------------------------------------------------
(* What holds.                                                             *)

\* A key that keeps firing has one open row, however a sync was cut short
\* before: the poller is alone to insert and compares with what is committed.
OneOpenRow == \A r, s \in OpenRows : Key(r.of) = Key(s.of) => r = s

\* No channel hears of a firing twice: the row is committed before anyone is
\* told, so that neither a crash nor a failed delivery makes it new again.
NotifiedOnce == \A d \in DOMAIN sent : sent[d] <= 1

\* A sync that went through leaves open the keys that Prometheus answered with,
\* although it works from snapshots and other jobs change the table.
Synced == pc = "sleep" /\ completed => OpenKeys = KeysOf(current)

\* A firing that lasts keeps its open row: no sync, however old its answer and
\* its open rows are when it resolves, no answer that failed, no restart and no
\* clean-up takes a row from the open ones whose firing is not over.
OpenWhileFiring ==
    [][\A f \in OpenOf : f \notin OpenOf' => ~Live(f)]_vars

\* When Prometheus has settled and nothing fails any more, the open rows come
\* to be those of the keys that fire: every failed sync is made good by a later.
CatchesUp == <>[](OpenKeys = FiringKeys)

-----------------------------------------------------------------------------
(* The inductive invariant behind these.                                   *)

\* Firings are numbered as they begin.
Begun ==
    /\ \A a \in firing : episode[a] > 0
    /\ \A f \in OpenOf \union current : f[2] <= episode[f[1]]

\* A key about to be inserted has no open row.
Fresh == KeysOf(OpenOf) \cap todo = {}

\* During a sync the snapshot has every open firing that still lasts: those the
\* sync resolves are over.
Covered == pc # "sleep" => \A f \in OpenOf : Live(f) => f \in current

\* A firing that was sent to someone has its open row, or is over and will not
\* be taken for new by this sync or a later one.
Heard ==
    \A c \in Channels, f \in Firing :
        sent[<<c, f>>] > 0 =>
            f \in OpenOf \/ (~Live(f) /\ f \notin current /\ f[2] <= episode[f[1]])

\* The firing under dispatch is open, and unheard by the channels yet to tell.
Dispatching ==
    /\ told # {} => pc \in {"dispatch", "send"}
    /\ told \subseteq OpenOf
    /\ \A c \in Channels, f \in told :
          pc = "dispatch" \/ c \in telling => sent[<<c, f>>] = 0

\* What a sync has open is what it found open and what it inserted.
Snapshot ==
    /\ completed => pc = "sleep"
    /\ pc = "resolve" => todo = {}
    /\ pc \in {"insert", "dispatch", "send", "resolve"} =>
          /\ OpenKeys \union todo = KeysOf({r.of : r \in open} \union current)
          /\ \A r, s \in open : Key(r.of) = Key(s.of) => r = s
          /\ \A f \in OpenOf : Key(f) \notin KeysOf(current) => \E r \in open : r.of = f

HistoryInv == /\ TypeOK /\ Begun /\ OneOpenRow /\ Fresh /\ Covered
              /\ Heard /\ Dispatching /\ NotifiedOnce /\ Snapshot /\ Synced

=============================================================================
