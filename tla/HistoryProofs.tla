---------------------------- MODULE HistoryProofs ----------------------------
(***************************************************************************)
(* Proofs about AlertHistory, for any alerts, keys, channels and troubles: *)
(* HistoryInv is inductive, and the safety properties follow from it.      *)
(***************************************************************************)
EXTENDS AlertHistory, TLAPS

\* Every firing and key that the actions speak of is one of the instance's.
LEMMA KeyTypes ==
    /\ \A f \in Firing : f[1] \in Alerts /\ f[2] \in 1 .. MaxEpisodes /\ Key(f) \in Keys
    /\ \A r \in Row : r.of \in Firing /\ r.open \in BOOLEAN /\ r.old \in BOOLEAN
<1>1. \A f \in Firing : f[1] \in Alerts /\ f[2] \in 1 .. MaxEpisodes
  BY DEF Firing
<1>2. \A f \in Firing : Key(f) \in Keys
  BY <1>1 DEF Key, Keys
<1>3. \A r \in Row : r.of \in Firing /\ r.open \in BOOLEAN /\ r.old \in BOOLEAN
  BY DEF Row
<1> QED
  BY <1>1, <1>2, <1>3

\* The types hold at first.
LEMMA TypeInit == Init => TypeOK
<1> SUFFICES ASSUME Init PROVE TypeOK
  OBVIOUS
<1>1. sent \in [Channels \X Firing -> Nat]
  BY DEF Init
<1>2. episode \in [Alerts -> 0 .. MaxEpisodes] /\ troubles \in 0 .. MaxTroubles
  BY ConstantAssumption DEF Init
<1> QED
  BY <1>1, <1>2 DEF Init, TypeOK

\* What a step that counts a trouble does to the count.
LEMMA TroubleCounts ==
    ASSUME troubles \in 0 .. MaxTroubles, NEW what, Trouble(what)
    PROVE  troubles' \in 0 .. MaxTroubles
  BY ConstantAssumption DEF Trouble

\* What can become of the table: the poller inserts one row or resolves one,
\* and every other step leaves the open rows but for their age.
LEMMA RowTypes == TypeOK /\ [Next]_vars => rows' \subseteq Row
<1> SUFFICES ASSUME TypeOK, [Next]_vars PROVE rows' \subseteq Row
  OBVIOUS
<1> USE DEF TypeOK
<1>1. ASSUME NEW f \in current, Insert(f) PROVE rows' \subseteq Row
  <2>1. f \in Firing
    BY <1>1 DEF TypeOK
  <2>2. [of |-> f, open |-> TRUE, old |-> FALSE] \in Row
    BY <2>1 DEF Row
  <2> QED
    BY <1>1, <2>2 DEF Insert
<1>2. ASSUME NEW r \in open, Resolve(r) PROVE rows' \subseteq Row
  <2>1. ASSUME NEW w \in rows
        PROVE  (IF w.of = r.of THEN [w EXCEPT !.open = FALSE, !.old = FALSE] ELSE w) \in Row
    BY DEF Row
  <2> QED
    BY <1>2, <2>1 DEF Resolve
<1>3. ASSUME NEW r \in rows, Age(r) PROVE rows' \subseteq Row
  BY <1>3 DEF Age, Row
<1>4. CASE Cleanup
  BY <1>4 DEF Cleanup
<1>5. CASE UNCHANGED rows
  BY <1>5
<1>6. \/ \E f \in current : Insert(f)
      \/ \E r \in open : Resolve(r)
      \/ \E r \in rows : Age(r)
      \/ Cleanup
      \/ UNCHANGED rows
  BY DEF Next, Sync, vars, world, table, Begin, End, SetChannel, Fetch, FetchFails,
     ReadOpen, ListChannels, Send, Dispatched, AllInserted, Completed, SyncFails, Crash
<1> QED
  BY <1>1, <1>2, <1>3, <1>4, <1>5, <1>6

\* Deliveries are counted up by the poller only.
LEMMA SentTypes ==
    ASSUME TypeOK, NEW c \in Channels, Send(c)
    PROVE  sent' \in [Channels \X Firing -> Nat]
<1>1. \A d \in Channels \X Firing : sent[d] \in Nat
  BY DEF TypeOK
<1>2. DOMAIN sent = Channels \X Firing
  BY DEF TypeOK
<1>3. CASE UNCHANGED sent
  BY <1>3 DEF TypeOK
<1>4. CASE sent' = [d \in DOMAIN sent |->
                      IF d[1] = c /\ d[2] \in told THEN sent[d] + 1 ELSE sent[d]]
  BY <1>1, <1>2, <1>4
<1> QED
  BY <1>3, <1>4 DEF Send

\* Every step keeps the types.
LEMMA TypeStep == TypeOK /\ Begun /\ [Next]_vars => TypeOK'
<1> SUFFICES ASSUME TypeOK, Begun, [Next]_vars PROVE TypeOK'
  OBVIOUS
<1>1. rows' \subseteq Row
  BY RowTypes
<1> USE DEF world, table, local
<1>2. ASSUME NEW a \in Alerts, Begin(a) \/ End(a) PROVE TypeOK'
  <2>1. CASE Begin(a)
    BY <2>1, ConstantAssumption DEF Begin, TypeOK
  <2>2. CASE End(a)
    BY <2>2 DEF End, TypeOK
  <2> QED
    BY <1>2, <2>1, <2>2
<1>3. ASSUME NEW c \in Channels, SetChannel(c) PROVE TypeOK'
  BY <1>3, TroubleCounts DEF SetChannel, TypeOK
<1>4. CASE Fetch \/ ReadOpen
  <2>1. NewKeys \subseteq Keys
    BY KeyTypes DEF NewKeys, KeysOf, TypeOK
  <2> QED
    BY <1>4, <2>1 DEF Fetch, ReadOpen, TypeOK, OpenRows
<1>5. ASSUME NEW f \in current, Insert(f) PROVE TypeOK'
  BY <1>5, <1>1 DEF Insert, TypeOK
<1>6. CASE ListChannels \/ AllInserted \/ Completed
  BY <1>6 DEF ListChannels, AllInserted, Completed, TypeOK
<1>7. ASSUME NEW c \in Channels, Send(c) PROVE TypeOK'
  <2>1. troubles' \in 0 .. MaxTroubles
    BY <1>7, TroubleCounts DEF Send, TypeOK
  <2> QED
    BY <1>7, <2>1, SentTypes DEF Send, TypeOK
<1>8. CASE Dispatched
  BY <1>8, TroubleCounts DEF Dispatched, TypeOK
<1>9. ASSUME NEW r \in open, Resolve(r) PROVE TypeOK'
  BY <1>9, <1>1 DEF Resolve, TypeOK
<1>10. CASE FetchFails \/ SyncFails \/ Crash
  BY <1>10, TroubleCounts DEF FetchFails, SyncFails, Crash, Abandon, TypeOK
<1>11. CASE Cleanup \/ \E r \in rows : Age(r)
  BY <1>11, <1>1 DEF Cleanup, Age, TypeOK
<1>12. CASE UNCHANGED vars
  BY <1>12 DEF vars, TypeOK
<1> QED
  BY <1>2, <1>3, <1>4, <1>5, <1>6, <1>7, <1>8, <1>9, <1>10, <1>11, <1>12 DEF Next, Sync

-----------------------------------------------------------------------------
(* How the open rows and the snapshots change.                             *)

\* Which rows are open after an insertion.
LEMMA InsertOpens ==
    ASSUME TypeOK, NEW f \in current, Insert(f)
    PROVE  /\ OpenRows' = OpenRows \union {[of |-> f, open |-> TRUE, old |-> FALSE]}
           /\ OpenOf' = OpenOf \union {f}
<1> DEFINE new == [of |-> f, open |-> TRUE, old |-> FALSE]
<1>1. OpenRows' = OpenRows \union {new}
  BY DEF Insert, OpenRows
<1>2. new.of = f
  OBVIOUS
<1> HIDE DEF new
<1>3. OpenOf' = OpenOf \union {f}
  BY <1>1, <1>2 DEF OpenOf
<1> QED
  BY <1>1, <1>3 DEF new

\* Which rows are open after one is resolved: those that are of another firing.
LEMMA ResolveCloses ==
    ASSUME TypeOK, NEW r \in open, Resolve(r)
    PROVE  /\ OpenRows' = {w \in OpenRows : w.of # r.of}
           /\ OpenOf' = OpenOf \ {r.of}
<1> DEFINE New(w) == IF w.of = r.of THEN [w EXCEPT !.open = FALSE, !.old = FALSE] ELSE w
<1>1. rows' = {New(w) : w \in rows}
  BY DEF Resolve
<1>2. \A w \in rows : New(w).open <=> (w.open /\ w.of # r.of)
  BY DEF TypeOK, Row
<1>3. \A w \in rows : w.of # r.of => New(w) = w
  OBVIOUS
<1> HIDE DEF New
<1>4. OpenRows' = {w \in OpenRows : w.of # r.of}
  BY <1>1, <1>2, <1>3 DEF OpenRows
<1> QED
  BY <1>4 DEF OpenOf

\* Ageing and the retention job leave the firings that are open, one row each.
LEMMA RetentionKeeps ==
    ASSUME TypeOK, Cleanup \/ \E r \in rows : Age(r)
    PROVE  /\ OpenOf' = OpenOf
           /\ OneOpenRow => OneOpenRow'
<1>1. CASE Cleanup
  <2>1. OpenRows' = OpenRows
    BY <1>1 DEF Cleanup, Expired, OpenRows
  <2> QED
    BY <2>1 DEF OpenOf, OneOpenRow
<1>2. ASSUME NEW r \in rows, Age(r)
      PROVE  /\ OpenOf' = OpenOf
             /\ OneOpenRow => OneOpenRow'
  <2> DEFINE s == [r EXCEPT !.old = TRUE]
  <2>1. rows' = (rows \ {r}) \union {s}
    BY <1>2 DEF Age
  <2>2. s.of = r.of /\ s.open = r.open
    BY DEF TypeOK, Row
  <2> HIDE DEF s
  <2>3. OpenOf' = OpenOf
    BY <2>1, <2>2 DEF OpenOf, OpenRows
  <2>4. ASSUME OneOpenRow PROVE OneOpenRow'
    BY <2>1, <2>2, <2>4 DEF OneOpenRow, OpenRows
  <2> QED
    BY <2>3, <2>4
<1> QED
  BY <1>1, <1>2

\* Steps that leave the table leave what is open.
LEMMA SameRows ==
    ASSUME UNCHANGED rows
    PROVE  OpenRows' = OpenRows /\ OpenOf' = OpenOf /\ (OneOpenRow => OneOpenRow')
  BY DEF OpenRows, OpenOf, OneOpenRow

-----------------------------------------------------------------------------
(* The inductive invariant, one lemma for each kind of step.               *)

\* The conjuncts of HistoryInv but for the types.
Relations == /\ Begun /\ OneOpenRow /\ Fresh /\ Covered /\ Heard
             /\ Dispatching /\ NotifiedOnce /\ Snapshot /\ Synced

\* An alert that begins or ends makes no firing known so far last again.
LEMMA WorldStep ==
    ASSUME HistoryInv, NEW a \in Alerts, Begin(a) \/ End(a)
    PROVE  Relations'
<1> USE DEF HistoryInv, world, table, local
<1>1. UNCHANGED <<rows, sent, pc, current, open, todo, told, telling, completed>>
  BY DEF Begin, End
<1>2. \A f \in Firing : f[2] <= episode[f[1]] =>
         /\ f[2] <= episode'[f[1]]
         /\ Live(f)' => Live(f)
  BY ConstantAssumption DEF Begin, End, TypeOK, Live, Firing
<1>3. \A b \in firing' : episode'[b] > 0
  BY ConstantAssumption DEF Begin, End, TypeOK, Begun
<1>4. OpenOf \subseteq Firing /\ current \subseteq Firing
  BY KeyTypes DEF TypeOK, OpenOf, OpenRows
<1>5. OpenRows' = OpenRows /\ OpenOf' = OpenOf
  BY <1>1, SameRows
<1>6. Begun' /\ Covered'
  BY <1>1, <1>2, <1>3, <1>4, <1>5 DEF Begun, Covered
<1>7. Heard'
  BY <1>1, <1>2, <1>5 DEF Heard
<1>8. OneOpenRow' /\ Fresh' /\ Dispatching' /\ NotifiedOnce' /\ Snapshot' /\ Synced'
  BY <1>1, <1>5 DEF OneOpenRow, Fresh, Dispatching, NotifiedOnce, Snapshot, Synced,
     OpenKeys, KeysOf
<1> QED
  BY <1>6, <1>7, <1>8 DEF Relations

\* Steps that touch neither the firings, the table nor the poller.
LEMMA IdleStep ==
    ASSUME HistoryInv, UNCHANGED <<firing, episode, rows, sent, pc, local>>
    PROVE  Relations'
<1>1. OpenRows' = OpenRows /\ OpenOf' = OpenOf
  BY SameRows
<1> QED
  BY <1>1 DEF HistoryInv, local, Relations, Begun, OneOpenRow, Fresh, Covered, Heard, Live,
     Dispatching, NotifiedOnce, Snapshot, Synced, OpenKeys, KeysOf

\* A fetch takes the firings that last: none that is over comes back.
LEMMA FetchStep == ASSUME HistoryInv, Fetch PROVE Relations'
<1> USE DEF HistoryInv, world, table
<1>1. /\ UNCHANGED <<firing, episode, rows, sent, open, todo, told, telling>>
      /\ pc = "sleep" /\ pc' = "open" /\ completed' = FALSE
      /\ current' = {f \in Firing : Live(f)}
  BY DEF Fetch
<1>2. OpenRows' = OpenRows /\ OpenOf' = OpenOf
  BY <1>1, SameRows
<1>3. OpenOf \subseteq Firing
  BY KeyTypes DEF TypeOK, OpenOf, OpenRows
<1>4. Begun'
  <2>1. \A f \in current' : f[2] <= episode[f[1]]
    BY <1>1, KeyTypes, ConstantAssumption DEF Live, TypeOK
  <2> QED
    BY <1>1, <1>2, <2>1 DEF Begun
<1>5. Covered' /\ Heard'
  BY <1>1, <1>2, <1>3 DEF Covered, Heard, Live
<1>6. OneOpenRow' /\ Fresh' /\ Dispatching' /\ NotifiedOnce' /\ Snapshot' /\ Synced'
  BY <1>1, <1>2 DEF OneOpenRow, Fresh, Dispatching, NotifiedOnce, Snapshot, Synced, KeysOf
<1> QED
  BY <1>4, <1>5, <1>6 DEF Relations

\* Reading the open rows: the keys to insert are those without one.
LEMMA ReadStep == ASSUME HistoryInv, ReadOpen PROVE Relations'
<1> USE DEF HistoryInv, world, table
<1>1. /\ UNCHANGED <<firing, episode, rows, sent, current, told, telling, completed>>
      /\ pc = "open" /\ pc' = "insert"
      /\ open' = OpenRows /\ todo' = KeysOf(current) \ KeysOf(OpenOf)
  BY DEF ReadOpen, NewKeys, OpenKeys
<1>2. OpenRows' = OpenRows /\ OpenOf' = OpenOf
  BY <1>1, SameRows
<1>3. {r.of : r \in open'} = OpenOf
  BY <1>1 DEF OpenOf
<1>4. Snapshot'
  BY <1>1, <1>2, <1>3 DEF Snapshot, OneOpenRow, OpenKeys, KeysOf, OpenOf
<1>5. Begun' /\ Covered' /\ Heard'
  BY <1>1, <1>2 DEF Begun, Covered, Heard, Live
<1>6. OneOpenRow' /\ Fresh' /\ Dispatching' /\ NotifiedOnce' /\ Synced'
  BY <1>1, <1>2 DEF OneOpenRow, Fresh, Dispatching, NotifiedOnce, Synced, Snapshot, KeysOf
<1> QED
  BY <1>4, <1>5, <1>6 DEF Relations

\* An insertion is of a key without an open row, and of a firing that nobody
\* has heard of: those that were sent are open, or not in the answer.
LEMMA InsertStep == ASSUME HistoryInv, NEW f \in current, Insert(f) PROVE Relations'
<1> USE DEF HistoryInv, world
<1> DEFINE new == [of |-> f, open |-> TRUE, old |-> FALSE]
<1>1. /\ UNCHANGED <<firing, episode, sent, current, open, telling, completed>>
      /\ pc = "insert" /\ pc' = "dispatch"
      /\ Key(f) \in todo /\ todo' = todo \ {Key(f)} /\ told' = {f}
  BY DEF Insert
<1>2. OpenRows' = OpenRows \union {new} /\ OpenOf' = OpenOf \union {f}
  BY InsertOpens
<1>3. \A g \in OpenOf : Key(g) # Key(f)
  BY <1>1 DEF Fresh, KeysOf
<1>4. OneOpenRow'
  <2>1. \A r \in OpenRows : r.of \in OpenOf
    BY DEF OpenOf
  <2>2. new.of = f
    OBVIOUS
  <2> HIDE DEF new
  <2> QED
    BY <1>2, <1>3, <2>1, <2>2 DEF OneOpenRow
<1>5. Fresh'
  BY <1>1, <1>2, <1>3 DEF Fresh, KeysOf
<1>6. Begun' /\ Covered' /\ Heard'
  BY <1>1, <1>2 DEF Begun, Covered, Heard, Live
<1>7. Dispatching'
  <2>1. \A c \in Channels : sent[<<c, f>>] = 0
    BY <1>3 DEF Heard, TypeOK
  <2> QED
    BY <1>1, <1>2, <2>1 DEF Dispatching
<1>8. Snapshot'
  <2>1. Key(f) \in KeysOf(current)
    BY DEF KeysOf
  <2>2. OpenKeys' \union todo' = OpenKeys \union todo
    BY <1>1, <1>2 DEF OpenKeys, KeysOf
  <2> QED
    BY <1>1, <1>2, <2>1, <2>2 DEF Snapshot, KeysOf
<1> QED
  BY <1>1, <1>4, <1>5, <1>6, <1>7, <1>8 DEF Relations, NotifiedOnce, Synced

\* Moving on without touching the table: the channels to tell of the firing,
\* the next key, the rows to resolve.
LEMMA MoveStep ==
    ASSUME HistoryInv, ListChannels \/ Dispatched \/ AllInserted
    PROVE  Relations'
<1> USE DEF HistoryInv, world, table, local
<1>1. /\ UNCHANGED <<firing, episode, rows, sent, current, open, todo, completed>>
      /\ \/ pc = "dispatch" /\ pc' = "send" /\ told' = told
         \/ pc' = "insert" /\ told' = {} /\ pc \in {"dispatch", "send"}
         \/ pc = "insert" /\ pc' = "resolve" /\ told' = told /\ todo = {}
  BY DEF ListChannels, Dispatched, AllInserted
<1>2. OpenRows' = OpenRows /\ OpenOf' = OpenOf
  BY <1>1, SameRows
<1>3. Dispatching'
  BY <1>1, <1>2 DEF Dispatching
<1>4. Snapshot' /\ Covered' /\ Heard' /\ Begun'
  BY <1>1, <1>2 DEF Snapshot, Covered, Heard, Begun, Live, OpenKeys, KeysOf
<1>5. OneOpenRow' /\ Fresh' /\ NotifiedOnce' /\ Synced'
  BY <1>1, <1>2 DEF OneOpenRow, Fresh, NotifiedOnce, Synced, KeysOf
<1> QED
  BY <1>3, <1>4, <1>5 DEF Relations

\* A delivery is the first to its channel, of a firing whose row is open.
LEMMA SendStep == ASSUME HistoryInv, NEW c \in Channels, Send(c) PROVE Relations'
<1> USE DEF HistoryInv, world
<1>1. /\ UNCHANGED <<firing, episode, rows, pc, current, open, todo, told, completed>>
      /\ pc = "send" /\ c \in telling /\ telling' = telling \ {c}
  BY DEF Send
<1>2. OpenRows' = OpenRows /\ OpenOf' = OpenOf
  BY <1>1, SameRows
<1>3. /\ DOMAIN sent' = DOMAIN sent
      /\ \A d \in Channels, f \in Firing :
            \/ sent'[<<d, f>>] = sent[<<d, f>>]
            \/ d = c /\ f \in told /\ sent'[<<d, f>>] = sent[<<d, f>>] + 1
  <2>1. CASE UNCHANGED sent
    BY <2>1
  <2>2. CASE sent' = [d \in DOMAIN sent |->
                        IF d[1] = c /\ d[2] \in told THEN sent[d] + 1 ELSE sent[d]]
    BY <2>2 DEF TypeOK
  <2> QED
    BY <2>1, <2>2 DEF Send
<1>4. Dispatching'
  BY <1>1, <1>2, <1>3 DEF Dispatching, TypeOK
<1>5. Heard'
  BY <1>1, <1>2, <1>3 DEF Heard, Dispatching, Live
<1>6. NotifiedOnce'
  <2>1. \A d \in Channels, f \in Firing : sent[<<d, f>>] \in Nat /\ sent[<<d, f>>] <= 1
    BY DEF NotifiedOnce, TypeOK
  <2>2. \A f \in told : f \in Firing /\ sent[<<c, f>>] = 0
    BY <1>1 DEF Dispatching, TypeOK
  <2>3. ASSUME NEW d \in Channels, NEW f \in Firing PROVE sent'[<<d, f>>] <= 1
    <3>1. CASE sent'[<<d, f>>] = sent[<<d, f>>]
      BY <2>1, <3>1
    <3>2. CASE d = c /\ f \in told /\ sent'[<<d, f>>] = sent[<<d, f>>] + 1
      <4>1. sent[<<d, f>>] = 0
        BY <2>2, <3>2
      <4> QED
        BY <3>2, <4>1
    <3> QED
      BY <1>3, <3>1, <3>2
  <2> QED
    BY <1>3, <2>3 DEF NotifiedOnce, TypeOK
<1>7. Snapshot' /\ Covered' /\ Begun' /\ OneOpenRow' /\ Fresh' /\ Synced'
  BY <1>1, <1>2 DEF Snapshot, Covered, Begun, Live, OneOpenRow, Fresh, Synced, OpenKeys, KeysOf
<1> QED
  BY <1>4, <1>5, <1>6, <1>7 DEF Relations

\* A row is resolved when its firing is over, and takes its key out of what is
\* open and out of what is yet to be resolved.
LEMMA ResolveStep == ASSUME HistoryInv, NEW r \in open, Resolve(r) PROVE Relations'
<1> USE DEF HistoryInv, world
<1>1. /\ UNCHANGED <<firing, episode, sent, pc, current, todo, told, telling, completed>>
      /\ pc = "resolve" /\ open' = open \ {r} /\ Key(r.of) \notin KeysOf(current)
  BY DEF Resolve, Cleared
<1>2. OpenRows' = {w \in OpenRows : w.of # r.of} /\ OpenOf' = OpenOf \ {r.of}
  BY ResolveCloses
<1>3. r.of \notin current
  BY <1>1 DEF KeysOf
<1>4. Heard'
  BY <1>1, <1>2, <1>3 DEF Heard, Covered, Begun, Live
<1>5. Snapshot'
  <2>1. /\ todo = {} /\ ~completed
        /\ KeysOf(OpenOf) = KeysOf({s.of : s \in open} \union current)
        /\ \A s, t \in open : Key(s.of) = Key(t.of) => s = t
        /\ \A g \in OpenOf : Key(g) \notin KeysOf(current) => \E s \in open : s.of = g
    BY <1>1 DEF Snapshot, OpenKeys
  <2>2. \A g \in OpenOf' : Key(g) \notin KeysOf(current) => \E s \in open' : s.of = g
    BY <1>1, <1>2, <2>1
  <2>3. KeysOf(OpenOf') \subseteq KeysOf({s.of : s \in open'} \union current)
    BY <2>2 DEF KeysOf
  <2>4. ASSUME NEW g \in {s.of : s \in open'} \union current
        PROVE  Key(g) \in KeysOf(OpenOf')
    <3>1. Key(g) # Key(r.of)
      BY <1>1, <2>1 DEF KeysOf
    <3>2. Key(g) \in KeysOf(OpenOf)
      BY <1>1, <2>1 DEF KeysOf
    <3> QED
      BY <1>2, <3>1, <3>2 DEF KeysOf
  <2>5. KeysOf(OpenOf') = KeysOf({s.of : s \in open'} \union current)
    BY <2>3, <2>4 DEF KeysOf
  <2> QED
    BY <1>1, <2>1, <2>2, <2>5 DEF Snapshot, OpenKeys, KeysOf
<1>6. Covered' /\ Begun' /\ OneOpenRow' /\ Fresh'
  BY <1>1, <1>2 DEF Covered, Begun, Live, OneOpenRow, Fresh, KeysOf
<1>7. Dispatching' /\ NotifiedOnce' /\ Synced'
  BY <1>1 DEF Dispatching, NotifiedOnce, Synced
<1> QED
  BY <1>4, <1>5, <1>6, <1>7 DEF Relations

\* When no row is left to resolve, what is open is what Prometheus answered.
LEMMA CompletedStep == ASSUME HistoryInv, Completed PROVE Relations'
<1> USE DEF HistoryInv, world, table
<1>1. /\ UNCHANGED <<firing, episode, rows, sent, current, todo, told, telling>>
      /\ pc = "resolve" /\ pc' = "sleep"
      /\ \A r \in open : Key(r.of) \in KeysOf(current)
  BY DEF Completed, Cleared
<1>2. OpenRows' = OpenRows /\ OpenOf' = OpenOf
  BY <1>1, SameRows
<1>3. OpenKeys = KeysOf(current)
  BY <1>1 DEF Snapshot, KeysOf
<1>4. Synced'
  BY <1>1, <1>2, <1>3 DEF Synced, OpenKeys, KeysOf
<1>5. OneOpenRow' /\ Fresh' /\ Covered' /\ Begun' /\ Heard'
  BY <1>1, <1>2 DEF OneOpenRow, Fresh, Covered, Begun, Heard, Live, KeysOf
<1>6. Dispatching' /\ NotifiedOnce' /\ Snapshot'
  BY <1>1 DEF Dispatching, NotifiedOnce, Snapshot
<1> QED
  BY <1>4, <1>5, <1>6 DEF Relations

\* A sync cut short has not completed, and forgets its snapshots.
LEMMA AbandonStep == ASSUME HistoryInv, SyncFails \/ Crash PROVE Relations'
<1> USE DEF HistoryInv, world, table
<1>1. /\ UNCHANGED <<firing, episode, rows, sent, completed>>
      /\ pc # "sleep" /\ pc' = "sleep"
      /\ current' = {} /\ open' = {} /\ todo' = {} /\ told' = {}
  BY DEF SyncFails, Crash, Abandon
<1>2. OpenRows' = OpenRows /\ OpenOf' = OpenOf
  BY <1>1, SameRows
<1>3. ~completed
  BY <1>1 DEF Snapshot
<1> QED
  BY <1>1, <1>2, <1>3 DEF Relations, Begun, OneOpenRow, Fresh, Covered, Heard, Live,
     Dispatching, NotifiedOnce, Snapshot, Synced

\* The retention job leaves the open rows: ageing and deleting old ones.
LEMMA RetentionStep ==
    ASSUME HistoryInv, Cleanup \/ \E r \in rows : Age(r)
    PROVE  Relations'
<1> USE DEF HistoryInv, world, local
<1>1. UNCHANGED <<firing, episode, sent, pc, current, open, todo, told, telling, completed>>
  BY DEF Cleanup, Age
<1>2. OpenOf' = OpenOf /\ OneOpenRow'
  BY RetentionKeeps
<1> QED
  BY <1>1, <1>2 DEF Relations, Begun, Fresh, Covered, Heard, Live,
     Dispatching, NotifiedOnce, Snapshot, Synced, OpenKeys, KeysOf

-----------------------------------------------------------------------------
\* The inductive invariant holds at first.
LEMMA InvInit == Init => HistoryInv
<1> SUFFICES ASSUME Init PROVE HistoryInv
  OBVIOUS
<1>1. OpenRows = {} /\ OpenOf = {}
  BY DEF Init, OpenRows, OpenOf
<1>2. \A d \in Channels \X Firing : sent[d] = 0
  BY DEF Init
<1>3. Begun /\ OneOpenRow /\ Fresh /\ Covered /\ Dispatching /\ Snapshot /\ Synced
  BY <1>1 DEF Init, Begun, OneOpenRow, Fresh, Covered, Dispatching, Snapshot, Synced, KeysOf
<1>4. Heard /\ NotifiedOnce
  BY <1>2 DEF Heard, NotifiedOnce, Init
<1> QED
  BY <1>3, <1>4, TypeInit DEF HistoryInv

\* Every step keeps the inductive invariant.
LEMMA InvStep == HistoryInv /\ [Next]_vars => HistoryInv'
<1> SUFFICES ASSUME HistoryInv, [Next]_vars PROVE HistoryInv'
  OBVIOUS
<1>1. TypeOK'
  BY TypeStep DEF HistoryInv
<1>2. Relations'
  <2>1. ASSUME NEW c \in Channels, SetChannel(c) PROVE Relations'
    BY <2>1, IdleStep DEF SetChannel, world, local
  <2>2. CASE FetchFails
    BY <2>2, IdleStep DEF FetchFails, world, table, local
  <2>3. CASE UNCHANGED vars
    BY <2>3, IdleStep DEF vars, world, table, local
  <2>4. CASE Sync
    BY <2>4, FetchStep, ReadStep, InsertStep, MoveStep, SendStep, ResolveStep, CompletedStep
       DEF Sync
  <2> QED
    BY <2>1, <2>2, <2>3, <2>4, WorldStep, AbandonStep, RetentionStep DEF Next
<1> QED
  BY <1>1, <1>2 DEF Relations, HistoryInv

\* Every reachable state satisfies the inductive invariant.
THEOREM Invariance == Spec => []HistoryInv
<1> QED
  BY InvInit, InvStep, PTL DEF Spec

\* A key that keeps firing has one open row.
THEOREM OneRowPerKey == Spec => []OneOpenRow
<1>1. HistoryInv => OneOpenRow
  BY DEF HistoryInv
<1> QED
  BY Invariance, <1>1, PTL

\* No channel is sent a firing twice, whatever fails and restarts.
THEOREM NobodyToldTwice == Spec => []NotifiedOnce
<1>1. HistoryInv => NotifiedOnce
  BY DEF HistoryInv
<1> QED
  BY Invariance, <1>1, PTL

\* A completed sync leaves open the keys that Prometheus answered with.
THEOREM SyncIsRight == Spec => []Synced
<1>1. HistoryInv => Synced
  BY DEF HistoryInv
<1> QED
  BY Invariance, <1>1, PTL

\* What a step takes from the open firings was resolved by a sync, whose answer
\* has every open firing that lasts.
LEMMA LeavesStep ==
    ASSUME HistoryInv, [Next]_vars, NEW f \in OpenOf, f \notin OpenOf'
    PROVE  ~Live(f)
<1> USE DEF HistoryInv
<1>1. CASE UNCHANGED rows
  BY <1>1, SameRows
<1>2. ASSUME NEW g \in current, Insert(g) PROVE FALSE
  BY <1>2, InsertOpens
<1>3. ASSUME NEW r \in open, Resolve(r) PROVE ~Live(f)
  <2>1. f = r.of
    BY <1>3, ResolveCloses
  <2>2. pc = "resolve" /\ Key(r.of) \notin KeysOf(current)
    BY <1>3 DEF Resolve, Cleared
  <2>3. f \notin current
    BY <2>1, <2>2 DEF KeysOf
  <2> QED
    BY <2>2, <2>3 DEF Covered
<1>4. CASE Cleanup \/ \E r \in rows : Age(r)
  BY <1>4, RetentionKeeps
<1> QED
  BY <1>1, <1>2, <1>3, <1>4 DEF Next, Sync, vars, world, table, Begin, End, SetChannel,
     Fetch, FetchFails, ReadOpen, ListChannels, Send, Dispatched, AllInserted,
     Completed, SyncFails, Crash

\* A firing that lasts keeps its open row.
THEOREM FiringStaysOpen == Spec => OpenWhileFiring
<1>1. HistoryInv /\ [Next]_vars => [\A f \in OpenOf : f \notin OpenOf' => ~Live(f)]_vars
  BY LeavesStep
<1> QED
  BY Invariance, <1>1, PTL DEF Spec, OpenWhileFiring
=============================================================================
