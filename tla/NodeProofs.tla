----------------------------- MODULE NodeProofs -----------------------------
(***************************************************************************)
(* Proofs about NodeHealth: for any nodes, requests, pool and troubles,    *)
(* commands and threads match, one check of a sweep gets through, and a    *)
(* shutdown comes to the control node last.                                *)
(***************************************************************************)
EXTENDS NodeHealth, Functions, FiniteSetTheorems, SequenceTheorems, TLAPS

\* What a task is at, and what it has found.
Task == [pc: TaskPc, found: Found]

\* The types of what a step of a check looks at.
LEMMA Typed ==
    ASSUME TypeOK, NEW o \in Owners, NEW n \in Nodes
    PROVE  /\ <<o, n>> \in Tasks /\ task[<<o, n>>] \in Task
           /\ owner[o] \in Owner /\ owner[o].seen \in [Nodes -> Status]
           /\ owner[o].todo \subseteq Nodes /\ owner[o].lost \subseteq Nodes
           /\ owner[o].wrote \in BOOLEAN /\ owner[o].op \in Ops
           /\ Truth(n) \in Found
<1>1. <<o, n>> \in Tasks /\ task[<<o, n>>] \in Task /\ owner[o] \in Owner
  BY DEF TypeOK, Tasks, Task
<1> QED
  BY <1>1 DEF Owner, Truth, Found

\* An owner that waits for nothing.
LEMMA IdleTyped == Idle \in Owner
  BY DEF Idle, Owner, Ops, Status, Found

LEMMA AsTaskTyped ==
    ASSUME NEW p \in TaskPc
    PROVE  AsTask(p) \in Task /\ AsTask(p).pc = p
  BY DEF AsTask, Task, Found

-----------------------------------------------------------------------------
(* The queue and the threads.                                              *)

\* Every order of some nodes has all of them.
LEMMA OrdersReachAll ==
    ASSUME NEW ns \in SUBSET Nodes, NEW q \in Orders(ns)
    PROVE  /\ Cardinality(ns) \in Nat
           /\ q \in [1 .. Cardinality(ns) -> ns]
           /\ \A i, j \in DOMAIN q : q[i] = q[j] => i = j
           /\ \A n \in ns : \E i \in DOMAIN q : q[i] = n
<1>1. IsFiniteSet(ns)
  BY FS_Subset, ConstantAssumption
<1> DEFINE k == Cardinality(ns)
<1>2. k \in Nat /\ IsFiniteSet(1 .. k) /\ Cardinality(1 .. k) = k
  BY <1>1, FS_CardinalityType, FS_Interval
<1>3. q \in [1 .. k -> ns] /\ \A i, j \in DOMAIN q : q[i] = q[j] => i = j
  BY DEF Orders
<1>4. q \in Injection(1 .. k, ns)
  BY <1>3 DEF Injection, IsInjective
<1>5. q \in Surjection(1 .. k, ns)
  BY <1>1, <1>2, <1>4, FS_Injection
<1>6. \A n \in ns : \E i \in 1 .. k : q[i] = n
  BY <1>5 DEF Surjection
<1> QED
  BY <1>2, <1>3, <1>6

\* What QueueMatches says, for a reader who asks about one task.
LEMMA Queued ==
    ASSUME TypeOK
    PROVE  QueueMatches <=>
             /\ \A i, j \in 1 .. Len(queue) : queue[i] = queue[j] => i = j
             /\ \A t \in Tasks : task[t].pc = "queued" <=> \E i \in 1 .. Len(queue) : queue[i] = t
<1>1. DOMAIN queue = 1 .. Len(queue) /\ \A i \in 1 .. Len(queue) : queue[i] \in Tasks
  BY DEF TypeOK
<1> QED
  BY <1>1 DEF QueueMatches

\* Commands of an owner that waits for none are queued, each once, and no
\* thread is touched.
LEMMA SubmitQueues ==
    ASSUME TypeOK, QueueMatches, Pooled, NEW o \in Owners, NEW ns \in SUBSET Nodes,
           Quiet(o), Submit(o, ns)
    PROVE  /\ queue' \in Seq(Tasks) /\ task' \in [Tasks -> Task]
           /\ \A i, j \in 1 .. Len(queue') : queue'[i] = queue'[j] => i = j
           /\ \A t \in Tasks : task'[t].pc = "queued" <=> \E i \in 1 .. Len(queue') : queue'[i] = t
           /\ Pooled'
           /\ \A p \in Owners, n \in Nodes :
                 IF p = o /\ n \in ns THEN task'[<<p, n>>].pc = "queued"
                                      ELSE task'[<<p, n>>] = task[<<p, n>>]
<1> DEFINE k == Cardinality(ns)
<1>1. PICK q \in Orders(ns) : queue' = queue \o [i \in DOMAIN q |-> <<o, q[i]>>]
  BY DEF Submit
<1> DEFINE new == [i \in DOMAIN q |-> <<o, q[i]>>]
<1>2. /\ k \in Nat /\ DOMAIN q = 1 .. k /\ \A i \in 1 .. k : q[i] \in ns
      /\ \A i, j \in 1 .. k : q[i] = q[j] => i = j
      /\ \A n \in ns : \E i \in 1 .. k : q[i] = n
  BY OrdersReachAll
<1>3. /\ new \in Seq(Tasks) /\ Len(new) = k
      /\ \A i \in 1 .. k : new[i] = <<o, q[i]>>
  <2>1. new \in [1 .. k -> Tasks]
    BY <1>2 DEF Tasks
  <2>2. new \in Seq(Tasks)
    BY <1>2, <2>1
  <2>3. DOMAIN new = 1 .. k
    BY <2>1
  <2> QED
    BY <1>2, <2>2, <2>3
<1>4. queue \in Seq(Tasks) /\ task \in [Tasks -> Task]
  BY DEF TypeOK, Task
<1>5. /\ queue' \in Seq(Tasks) /\ Len(queue') = Len(queue) + k /\ Len(queue) \in Nat
      /\ \A i \in 1 .. Len(queue') :
            queue'[i] = IF i <= Len(queue) THEN queue[i] ELSE <<o, q[i - Len(queue)]>>
  <2>1. /\ queue' \in Seq(Tasks) /\ Len(queue') = Len(queue) + Len(new)
        /\ \A i \in 1 .. Len(queue) + Len(new) :
              queue'[i] = IF i <= Len(queue) THEN queue[i] ELSE new[i - Len(queue)]
    <3> HIDE DEF new
    <3>1. queue' = queue \o new
      BY <1>1 DEF new
    <3> QED
      BY <1>3, <1>4, <3>1, ConcatProperties
  <2>2. Len(queue) \in Nat
    BY <1>4
  <2>3. \A i \in 1 .. Len(queue) + k : ~(i <= Len(queue)) => i - Len(queue) \in 1 .. k
    BY <1>2, <2>2
  <2> QED
    BY <1>3, <2>1, <2>2, <2>3
<1>6. task' \in [Tasks -> Task]
  BY <1>4, AsTaskTyped DEF Submit, TaskPc
<1>7. \A p \in Owners, n \in Nodes :
         IF p = o /\ n \in ns THEN task'[<<p, n>>].pc = "queued"
                              ELSE task'[<<p, n>>] = task[<<p, n>>]
  BY AsTaskTyped DEF Submit, Tasks, TaskPc
<1>8. /\ \A i, j \in 1 .. Len(queue) : queue[i] = queue[j] => i = j
      /\ \A t \in Tasks : task[t].pc = "queued" <=> \E i \in 1 .. Len(queue) : queue[i] = t
  BY <1>4, Queued
<1>9. \A i \in 1 .. Len(queue), n \in Nodes : queue[i] # <<o, n>>
  <2>1. \A n \in Nodes : task[<<o, n>>].pc # "queued" /\ <<o, n>> \in Tasks
    BY Typed DEF Quiet, At
  <2> QED
    BY <1>8, <2>1
<1>10. ASSUME NEW i \in 1 .. Len(queue'), NEW j \in 1 .. Len(queue'), queue'[i] = queue'[j]
       PROVE  i = j
  <2>1. \A a \in 1 .. Len(queue') : IF a <= Len(queue) THEN a \in 1 .. Len(queue)
                                    ELSE a - Len(queue) \in 1 .. k
    BY <1>2, <1>5
  <2>2. CASE i <= Len(queue) /\ j <= Len(queue)
    BY <1>5, <1>8, <1>10, <2>1, <2>2
  <2>3. \A a, b \in 1 .. Len(queue') : a <= Len(queue) /\ ~(b <= Len(queue)) => queue'[a] # queue'[b]
    <3> SUFFICES ASSUME NEW a \in 1 .. Len(queue'), NEW b \in 1 .. Len(queue'),
                        a <= Len(queue), ~(b <= Len(queue))
                 PROVE  queue'[a] # queue'[b]
      OBVIOUS
    <3>1. a \in 1 .. Len(queue) /\ queue'[a] = queue[a]
      BY <1>5, <2>1
    <3>2. queue'[b] = <<o, q[b - Len(queue)]>> /\ q[b - Len(queue)] \in Nodes
      BY <1>2, <1>5, <2>1
    <3> QED
      BY <1>9, <3>1, <3>2
  <2>4. CASE (i <= Len(queue)) # (j <= Len(queue))
    BY <1>10, <2>3, <2>4
  <2>5. CASE ~(i <= Len(queue)) /\ ~(j <= Len(queue))
    <3>1. q[i - Len(queue)] = q[j - Len(queue)]
      BY <1>5, <1>10, <2>5
    <3>2. i - Len(queue) = j - Len(queue)
      BY <1>2, <2>1, <2>5, <3>1
    <3> QED
      BY <1>5, <3>2
  <2> QED
    BY <2>2, <2>3, <2>4, <2>5
<1>11. ASSUME NEW p \in Owners, NEW n \in Nodes
       PROVE  task'[<<p, n>>].pc = "queued" <=> \E i \in 1 .. Len(queue') : queue'[i] = <<p, n>>
  <2>1. <<p, n>> \in Tasks
    BY Typed
  <2>2. CASE p = o /\ n \in ns
    <3>1. PICK i \in 1 .. k : q[i] = n
      BY <1>2, <2>2
    <3>2. /\ Len(queue) + i \in 1 .. Len(queue') /\ ~(Len(queue) + i <= Len(queue))
          /\ (Len(queue) + i) - Len(queue) = i
      BY <1>2, <1>5
    <3>3. queue'[Len(queue) + i] = <<p, n>>
      BY <1>5, <2>2, <3>1, <3>2
    <3> QED
      BY <1>7, <2>2, <3>2, <3>3
  <2>3. CASE ~(p = o /\ n \in ns)
    <3>1. \A i \in 1 .. Len(queue') : ~(i <= Len(queue)) => queue'[i] # <<p, n>>
      <4> SUFFICES ASSUME NEW i \in 1 .. Len(queue'), ~(i <= Len(queue))
                   PROVE  queue'[i] # <<p, n>>
        OBVIOUS
      <4>1. i - Len(queue) \in 1 .. k
        BY <1>2, <1>5
      <4>2. queue'[i] = <<o, q[i - Len(queue)]>> /\ q[i - Len(queue)] \in ns
        BY <1>2, <1>5, <4>1
      <4> QED
        BY <2>3, <4>2
    <3>2. (\E i \in 1 .. Len(queue') : queue'[i] = <<p, n>>)
             <=> \E i \in 1 .. Len(queue) : queue[i] = <<p, n>>
      <4>1. \A i \in 1 .. Len(queue) : i \in 1 .. Len(queue') /\ i <= Len(queue)
        BY <1>2, <1>5
      <4>2. \A i \in 1 .. Len(queue') : i <= Len(queue) => i \in 1 .. Len(queue)
        BY <1>5
      <4> QED
        BY <1>5, <3>1, <4>1, <4>2
    <3> QED
      BY <1>7, <1>8, <2>1, <2>3, <3>2
  <2> QED
    BY <2>2, <2>3
<1>12. Pooled'
  <2>1. ASSUME NEW p \in Owners, NEW n \in Nodes
        PROVE  task'[<<p, n>>].pc = "running" <=> task[<<p, n>>].pc = "running"
    BY <1>7 DEF Quiet, At
  <2>2. Threads' = Threads
    BY <2>1 DEF Threads, Tasks
  <2> QED
    BY <2>2 DEF Pooled
<1>13. \A t \in Tasks : \E p \in Owners, n \in Nodes : t = <<p, n>>
  BY DEF Tasks
<1>14. \A t \in Tasks : task'[t].pc = "queued" <=> \E i \in 1 .. Len(queue') : queue'[i] = t
  BY <1>11, <1>13
<1>15. \A i, j \in 1 .. Len(queue') : queue'[i] = queue'[j] => i = j
  BY <1>10
<1>16. queue' \in Seq(Tasks)
  BY <1>5
<1> QED
  BY <1>6, <1>7, <1>12, <1>14, <1>15, <1>16

\* The command that has waited longest gets a thread.
LEMMA StartRuns ==
    ASSUME TypeOK, QueueMatches, Pooled, Start
    PROVE  /\ queue' \in Seq(Tasks) /\ task' \in [Tasks -> Task]
           /\ \A i, j \in 1 .. Len(queue') : queue'[i] = queue'[j] => i = j
           /\ \A t \in Tasks : task'[t].pc = "queued" <=> \E i \in 1 .. Len(queue') : queue'[i] = t
           /\ Pooled'
           /\ \A t \in Tasks : \/ task'[t] = task[t]
                               \/ task[t].pc = "queued" /\ task'[t].pc = "running"
<1> DEFINE h == Head(queue)
<1>1. queue \in Seq(Tasks) /\ task \in [Tasks -> Task] /\ queue # <<>> /\ queue' = Tail(queue)
  BY DEF TypeOK, Task, Start
<1>2. /\ Len(queue) \in Nat \ {0} /\ h = queue[1] /\ h \in Tasks
      /\ queue' \in Seq(Tasks) /\ Len(queue') = Len(queue) - 1
      /\ \A i \in 1 .. Len(queue') : queue'[i] = queue[i + 1] /\ i + 1 \in 1 .. Len(queue)
  BY <1>1
<1>3. /\ \A i, j \in 1 .. Len(queue) : queue[i] = queue[j] => i = j
      /\ \A t \in Tasks : task[t].pc = "queued" <=> \E i \in 1 .. Len(queue) : queue[i] = t
  BY <1>1, Queued
<1>4. task' = [task EXCEPT ![h] = [task[h] EXCEPT !.pc = "running"]]
  BY <1>1 DEF Start
<1>5. /\ task' \in [Tasks -> Task] /\ task'[h].pc = "running"
      /\ \A t \in Tasks \ {h} : task'[t] = task[t]
  BY <1>1, <1>2, <1>4 DEF Task, TaskPc
<1>6. task[h].pc = "queued"
  BY <1>2, <1>3
<1>7. ASSUME NEW i \in 1 .. Len(queue'), NEW j \in 1 .. Len(queue'), queue'[i] = queue'[j]
      PROVE  i = j
  BY <1>2, <1>3, <1>7
<1>8. ASSUME NEW t \in Tasks
      PROVE  task'[t].pc = "queued" <=> \E i \in 1 .. Len(queue') : queue'[i] = t
  <2>1. CASE t = h
    <3>1. \A i \in 1 .. Len(queue') : queue'[i] # h
      BY <1>2, <1>3
    <3> QED
      BY <1>5, <2>1, <3>1
  <2>2. CASE t # h
    <3>1. ASSUME NEW i \in 1 .. Len(queue), queue[i] = t
          PROVE  \E j \in 1 .. Len(queue') : queue'[j] = t
      <4>1. i - 1 \in 1 .. Len(queue') /\ (i - 1) + 1 = i
        BY <1>2, <2>2, <3>1
      <4>2. queue'[i - 1] = t
        BY <1>2, <3>1, <4>1
      <4> QED
        BY <4>1, <4>2
    <3>2. ASSUME NEW j \in 1 .. Len(queue'), queue'[j] = t
          PROVE  \E i \in 1 .. Len(queue) : queue[i] = t
      BY <1>2, <3>2
    <3> QED
      BY <1>3, <1>5, <2>2, <3>1, <3>2
  <2> QED
    BY <2>1, <2>2
<1>9. Pooled'
  <2>1. h \notin Threads /\ Threads' = Threads \cup {h}
    BY <1>2, <1>5, <1>6 DEF Threads
  <2>2. IsFiniteSet(Threads') /\ Cardinality(Threads') = Cardinality(Threads) + 1
    BY <2>1, FS_AddElement DEF Pooled
  <2>3. Cardinality(Threads) \in Nat /\ Cardinality(Threads) < PoolSize
    BY FS_CardinalityType DEF Pooled, Start
  <2> QED
    BY <2>2, <2>3, ConstantAssumption DEF Pooled
<1> QED
  BY <1>2, <1>5, <1>6, <1>7, <1>8, <1>9

-----------------------------------------------------------------------------
(* Each kind of step.                                                      *)

\* A check or a command goes on with its task; of its owner's record what
\* it sees, what is lost and what it wrote may change, and a request may be over.
LEMMA Works ==
    ASSUME NodesInv, NEW o \in Owners, NEW n \in Nodes, NEW new \in Task, NEW own \in Owner,
           ~At(o, n, "none"), ~At(o, n, "queued"),
           task' = [task EXCEPT ![<<o, n>>] = new], owner' = [owner EXCEPT ![o] = own],
           up' \subseteq Nodes, Control \in up' <=> Control \in up,
           status' \in [Nodes -> Status], cache' \in [Nodes -> Found \union {"none"}],
           troubles' \in 0 .. MaxTroubles, UNCHANGED queue,
           new.pc \notin {"queued", "running"},
           new.pc \in {"found", "commit", "refresh", "cache"} => Checks(o),
           new.pc = "commit" => ~Committing(o, n),
           new.pc = "refresh" => own.wrote,
           own.op = owner[o].op, own.pc = owner[o].pc, own.todo \subseteq owner[o].todo,
           owner[o].wrote => own.wrote,
           o \in Requests => own.lost = {},
           own.lost # {} => own.wrote \/ new.pc = "commit" \/ Committing(o, n)
    PROVE  NodesInv'
<1>1. /\ task \in [Tasks -> Task] /\ owner \in [Owners -> Owner] /\ <<o, n>> \in Tasks
      /\ \A p \in Owners, m \in Nodes : <<p, m>> \in Tasks
      /\ task[<<o, n>>].pc \notin {"none", "queued"}
  BY DEF NodesInv, TypeOK, Task, Tasks, At
<1>2. /\ task' \in [Tasks -> Task] /\ task'[<<o, n>>] = new
      /\ \A t \in Tasks : t # <<o, n>> => task'[t] = task[t]
      /\ owner' \in [Owners -> Owner] /\ owner'[o] = own
      /\ \A p \in Owners : p # o => owner'[p] = owner[p]
  BY <1>1
<1>3. TypeOK'
  BY <1>2 DEF NodesInv, TypeOK, Task
<1>4. QueueMatches'
  <2>1. \A t \in Tasks : task'[t].pc = "queued" <=> task[t].pc = "queued"
    BY <1>1, <1>2
  <2>2. /\ \A i, j \in 1 .. Len(queue) : queue[i] = queue[j] => i = j
        /\ \A t \in Tasks : task[t].pc = "queued" <=> \E i \in 1 .. Len(queue) : queue[i] = t
    BY Queued DEF NodesInv
  <2>3. \A i \in 1 .. Len(queue) : queue[i] \in Tasks
    BY DEF NodesInv, TypeOK
  <2> QED
    BY <2>1, <2>2, <2>3 DEF QueueMatches
<1>5. Pooled'
  <2>1. Threads' \subseteq Threads
    BY <1>2 DEF Threads
  <2>2. /\ IsFiniteSet(Threads') /\ Cardinality(Threads') <= Cardinality(Threads)
        /\ Cardinality(Threads) \in Nat /\ Cardinality(Threads') \in Nat
    BY <2>1, FS_Subset, FS_CardinalityType DEF NodesInv, Pooled
  <2> QED
    BY <2>2, ConstantAssumption DEF NodesInv, Pooled
<1>6. \A p \in Owners, m \in Nodes :
         IF p = o /\ m = n THEN task'[<<p, m>>] = new ELSE task'[<<p, m>>] = task[<<p, m>>]
  BY <1>1, <1>2
<1>7. OneCommit'
  <2>1. ASSUME NEW p \in Owners, NEW a \in Nodes, NEW b \in Nodes,
               task'[<<p, a>>].pc = "commit", task'[<<p, b>>].pc = "commit"
        PROVE  a = b
    <3>1. CASE p = o /\ (a = n \/ b = n)
      <4>1. new.pc = "commit" /\ \A m \in Nodes \ {n} : task[<<o, m>>].pc # "commit"
        BY <1>2, <1>6, <2>1, <3>1 DEF Committing, At
      <4> QED
        BY <1>6, <2>1, <3>1, <4>1
    <3>2. CASE ~(p = o /\ (a = n \/ b = n))
      <4>1. task[<<p, a>>].pc = "commit" /\ task[<<p, b>>].pc = "commit"
        BY <1>6, <2>1, <3>2
      <4> QED
        BY <4>1 DEF NodesInv, OneCommit, At
    <3> QED
      BY <3>1, <3>2
  <2>2. \A r \in Requests : owner'[r].lost = {}
    BY <1>2 DEF NodesInv, OneCommit, Owners
  <2> QED
    BY <2>1, <2>2 DEF OneCommit, At
<1>8. \A p \in Owners : /\ owner'[p].op = owner[p].op /\ owner'[p].pc = owner[p].pc
                        /\ owner'[p].todo \subseteq owner[p].todo
                        /\ owner[p].wrote => owner'[p].wrote
  BY <1>2
<1>9. \A p \in Owners, m \in Nodes : task[<<p, m>>].pc = "none" => task'[<<p, m>>].pc = "none"
  BY <1>1, <1>6
<1>10. OneCheck'
  <2>1. ASSUME NEW p \in Owners, NEW m \in Nodes,
               task'[<<p, m>>].pc \in {"found", "commit", "refresh", "cache"}
        PROVE  Checks(p)'
    <3>1. Checks(p)
      BY <1>6, <2>1 DEF NodesInv, OneCheck
    <3> QED
      BY <1>8, <3>1 DEF Checks
  <2>2. ASSUME NEW r \in Requests, NEW a \in Nodes, NEW b \in Nodes, Checks(r)',
               task'[<<r, a>>].pc # "none", task'[<<r, b>>].pc # "none"
        PROVE  a = b
    <3>1. r \in Owners
      BY DEF Owners
    <3>2. Checks(r) /\ task[<<r, a>>].pc # "none" /\ task[<<r, b>>].pc # "none"
      BY <1>8, <1>9, <2>2, <3>1 DEF Checks
    <3> QED
      BY <3>2 DEF NodesInv, OneCheck, At
  <2>3. ASSUME NEW m \in Nodes, task'[<<Sweep, m>>].pc = "refresh"
        PROVE  owner'[Sweep].wrote
    <3>1. Sweep \in Owners
      BY DEF Owners
    <3>2. CASE o = Sweep /\ m = n
      BY <1>2, <1>6, <2>3, <3>2
    <3>3. CASE ~(o = Sweep /\ m = n)
      <4>1. owner[Sweep].wrote
        BY <1>6, <2>3, <3>1, <3>3 DEF NodesInv, OneCheck, At
      <4> QED
        BY <1>8, <3>1, <4>1
    <3> QED
      BY <3>2, <3>3
  <2> QED
    BY <2>1, <2>2, <2>3 DEF OneCheck, At
<1>11. Tended'
  <2>1. \A p \in Owners : (~Busy(p))' => ~Busy(p)
    BY <1>8 DEF Busy
  <2>2. \A p \in Owners : Quiet(p) => Quiet(p)'
    BY <1>9 DEF Quiet, At
  <2>3. \A p \in Owners : (~Busy(p))' => Quiet(p)'
    BY <2>1, <2>2 DEF NodesInv, Tended
  <2>4. ~Alive' => \A p \in Owners : ~Busy(p)'
    BY <1>8 DEF NodesInv, Tended, Busy, Alive
  <2> QED
    BY <2>3, <2>4 DEF Tended
<1>12. OneGetsThrough'
  <2>1. CASE o = Sweep
    <3>1. Committing(o, n) => \E m \in Nodes : At(Sweep, m, "commit")'
      BY <1>6, <2>1 DEF Committing, At
    <3>2. new.pc = "commit" => \E m \in Nodes : At(Sweep, m, "commit")'
      <4>1. task'[<<Sweep, n>>] = new
        BY <1>2, <2>1
      <4> QED
        BY <4>1 DEF At
    <3> QED
      BY <1>2, <2>1, <3>1, <3>2 DEF OneGetsThrough
  <2>2. CASE o # Sweep
    <3>1. owner'[Sweep] = owner[Sweep] /\ \A m \in Nodes : task'[<<Sweep, m>>] = task[<<Sweep, m>>]
      BY <1>2, <1>6, <2>2 DEF Owners
    <3>2. (\E m \in Nodes : At(Sweep, m, "commit")) => \E m \in Nodes : At(Sweep, m, "commit")'
      BY <3>1 DEF At
    <3>3. OneGetsThrough
      BY DEF NodesInv
    <3> QED
      BY <3>1, <3>2, <3>3 DEF OneGetsThrough
  <2> QED
    BY <2>1, <2>2
<1>13. ControlLast'
  <2> SUFFICES ASSUME NEW r \in Requests, owner'[r].op = "shutdown",
                      task'[<<r, Control>>].pc # "none", NEW m \in Workers
               PROVE  task'[<<r, m>>].pc = "none" /\ m \notin owner'[r].todo
    BY DEF ControlLast, At
  <2>1. r \in Owners /\ m \in Nodes /\ Control \in Nodes
    BY ConstantAssumption DEF Owners, Workers
  <2>2. task[<<r, m>>].pc = "none" /\ m \notin owner[r].todo
    BY <1>8, <1>9, <2>1 DEF NodesInv, ControlLast, At
  <2> QED
    BY <1>8, <1>9, <2>1, <2>2
<1> QED
  BY <1>3, <1>4, <1>5, <1>7, <1>10, <1>11, <1>12, <1>13 DEF NodesInv

\* An owner that waits for no command goes on, and may hand in some.
LEMMA Submits ==
    ASSUME NodesInv, NEW o \in Owners, NEW ns \in SUBSET Nodes, NEW own \in Owner,
           Alive, Quiet(o), owner' = [owner EXCEPT ![o] = own],
           \/ Submit(o, ns)
           \/ ns = {} /\ UNCHANGED <<queue, task>>,
           UNCHANGED <<up, status, cache, troubles>>,
           ns # {} => own.pc = "busy",
           own.op \in {"sweep", "health"} /\ o \in Requests => \A a, b \in ns : a = b,
           own.lost = {},
           own.op = "shutdown" /\ Control \in ns => ns = {Control} /\ own.todo \cap Workers = {}
    PROVE  NodesInv'
<1>1. TypeOK /\ QueueMatches /\ Pooled /\ owner \in [Owners -> Owner] /\ task \in [Tasks -> Task]
  BY DEF NodesInv, TypeOK, Task
<1>2. /\ owner' \in [Owners -> Owner] /\ owner'[o] = own
      /\ \A p \in Owners : p # o => owner'[p] = owner[p]
  BY <1>1
<1>3. /\ queue' \in Seq(Tasks) /\ task' \in [Tasks -> Task]
      /\ \A i, j \in 1 .. Len(queue') : queue'[i] = queue'[j] => i = j
      /\ \A t \in Tasks : task'[t].pc = "queued" <=> \E i \in 1 .. Len(queue') : queue'[i] = t
      /\ Pooled'
      /\ \A p \in Owners, n \in Nodes :
            IF p = o /\ n \in ns THEN task'[<<p, n>>].pc = "queued"
                                 ELSE task'[<<p, n>>] = task[<<p, n>>]
  <2>1. CASE Submit(o, ns)
    BY <1>1, <2>1, SubmitQueues
  <2>2. CASE ns = {} /\ UNCHANGED <<queue, task>>
    <3>1. queue \in Seq(Tasks)
      BY <1>1 DEF TypeOK
    <3>2. Pooled'
      BY <1>1, <2>2 DEF Pooled, Threads
    <3> QED
      BY <1>1, <2>2, <3>1, <3>2, Queued
  <2> QED
    BY <2>1, <2>2
<1>4. TypeOK'
  BY <1>1, <1>2, <1>3 DEF TypeOK, Task
<1>5. QueueMatches'
  <2>1. \A i \in 1 .. Len(queue') : queue'[i] \in Tasks
    BY <1>3
  <2> QED
    BY <1>3, <2>1 DEF QueueMatches
<1>6. \A n \in Nodes : task[<<o, n>>].pc = "none"
  BY DEF Quiet, At
<1>7. \A p \in Owners, n \in Nodes :
         task'[<<p, n>>].pc \notin {"none", "queued"} => p # o /\ task'[<<p, n>>] = task[<<p, n>>]
  BY <1>3, <1>6
<1>8. OneCommit'
  <2>1. \A p \in Owners, a, b \in Nodes :
           task'[<<p, a>>].pc = "commit" /\ task'[<<p, b>>].pc = "commit" => a = b
    BY <1>7 DEF NodesInv, OneCommit, At
  <2>2. \A r \in Requests : owner'[r].lost = {}
    BY <1>2 DEF NodesInv, OneCommit, Owners
  <2> QED
    BY <2>1, <2>2 DEF OneCommit, At
<1>9. OneCheck'
  <2>1. ASSUME NEW p \in Owners, NEW m \in Nodes,
               task'[<<p, m>>].pc \in {"found", "commit", "refresh", "cache"}
        PROVE  Checks(p)'
    <3>1. p # o /\ Checks(p)
      BY <1>7, <2>1 DEF NodesInv, OneCheck
    <3> QED
      BY <1>2, <3>1 DEF Checks
  <2>2. ASSUME NEW r \in Requests, NEW a \in Nodes, NEW b \in Nodes, Checks(r)',
               task'[<<r, a>>].pc # "none", task'[<<r, b>>].pc # "none"
        PROVE  a = b
    <3>1. r \in Owners
      BY DEF Owners
    <3>2. CASE r # o
      <4>1. Checks(r) /\ task[<<r, a>>].pc # "none" /\ task[<<r, b>>].pc # "none"
        BY <1>2, <1>3, <2>2, <3>1, <3>2 DEF Checks
      <4> QED
        BY <4>1 DEF NodesInv, OneCheck, At
    <3>3. CASE r = o
      BY <1>2, <1>3, <1>6, <2>2, <3>1, <3>3 DEF Checks
    <3> QED
      BY <3>2, <3>3
  <2>3. ASSUME NEW m \in Nodes, task'[<<Sweep, m>>].pc = "refresh"
        PROVE  owner'[Sweep].wrote
    <3>1. Sweep \in Owners
      BY DEF Owners
    <3>2. Sweep # o /\ task[<<Sweep, m>>].pc = "refresh"
      BY <1>7, <2>3, <3>1
    <3> QED
      BY <1>2, <3>1, <3>2 DEF NodesInv, OneCheck, At
  <2> QED
    BY <2>1, <2>2, <2>3 DEF OneCheck, At
<1>10. Tended'
  <2>1. ASSUME NEW p \in Owners, ~Busy(p)' PROVE Quiet(p)'
    <3>1. CASE p = o
      BY <1>2, <1>3, <1>6, <2>1, <3>1 DEF Busy, Quiet, At
    <3>2. CASE p # o
      BY <1>2, <1>3, <2>1, <3>2 DEF NodesInv, Tended, Busy, Quiet, At
    <3> QED
      BY <3>1, <3>2
  <2> QED
    BY <2>1 DEF Tended, Alive
<1>11. OneGetsThrough'
  <2>1. CASE o = Sweep
    BY <1>2, <2>1 DEF OneGetsThrough
  <2>2. CASE o # Sweep
    <3>1. /\ Sweep \in Owners /\ owner'[Sweep] = owner[Sweep]
          /\ \A m \in Nodes : task'[<<Sweep, m>>] = task[<<Sweep, m>>]
      <4>1. Sweep \in Owners
        BY DEF Owners
      <4> QED
        BY <1>2, <1>3, <2>2, <4>1
    <3>2. (\E m \in Nodes : At(Sweep, m, "commit")) => \E m \in Nodes : At(Sweep, m, "commit")'
      BY <3>1 DEF At
    <3>3. OneGetsThrough
      BY DEF NodesInv
    <3> QED
      BY <3>1, <3>2, <3>3 DEF OneGetsThrough
  <2> QED
    BY <2>1, <2>2
<1>12. ControlLast'
  <2> SUFFICES ASSUME NEW r \in Requests, owner'[r].op = "shutdown",
                      task'[<<r, Control>>].pc # "none", NEW m \in Workers
               PROVE  task'[<<r, m>>].pc = "none" /\ m \notin owner'[r].todo
    BY DEF ControlLast, At
  <2>1. r \in Owners /\ m \in Nodes /\ m # Control /\ Control \in Nodes
    BY ConstantAssumption DEF Owners, Workers
  <2>2. CASE r = o
    <3>1. Control \in ns
      BY <1>3, <1>6, <2>1, <2>2
    <3>2. ns = {Control} /\ own.todo \cap Workers = {}
      BY <1>2, <2>2, <3>1
    <3> QED
      BY <1>2, <1>3, <1>6, <2>1, <2>2, <3>2
  <2>3. CASE r # o
    <3>1. owner'[r] = owner[r] /\ \A a \in Nodes : task'[<<r, a>>] = task[<<r, a>>]
      BY <1>2, <1>3, <2>1, <2>3
    <3> QED
      BY <2>1, <3>1 DEF NodesInv, ControlLast, At
  <2> QED
    BY <2>2, <2>3
<1> QED
  BY <1>3, <1>4, <1>5, <1>8, <1>9, <1>10, <1>11, <1>12 DEF NodesInv

\* With the control node the backend stops: nothing waits, and nobody is waited for.
LEMMA ControlDown ==
    ASSUME NodesInv, Down(Control), UNCHANGED <<status, cache>>, troubles' \in 0 .. MaxTroubles
    PROVE  NodesInv'
<1>1. /\ queue' = <<>> /\ up' = up \ {Control}
      /\ task' = [t \in Tasks |-> AsTask("none")]
      /\ owner' = [o \in Owners |->
                     IF o = Sweep \/ Busy(o)
                       THEN [Idle EXCEPT !.pc = IF o = Sweep THEN "idle" ELSE "done"]
                       ELSE owner[o]]
  BY DEF Down
<1>2. task' \in [Tasks -> Task] /\ \A t \in Tasks : task'[t].pc = "none"
  BY <1>1, AsTaskTyped DEF TaskPc
<1>3. /\ owner' \in [Owners -> Owner] /\ owner'[Sweep].lost = {}
      /\ \A o \in Owners : /\ owner'[o].pc # "busy"
                           /\ owner'[o].lost = {} \/ owner'[o] = owner[o]
  <2>1. \A p \in {"idle", "done"} : /\ [Idle EXCEPT !.pc = p] \in Owner
                                    /\ [Idle EXCEPT !.pc = p].pc = p
                                    /\ [Idle EXCEPT !.pc = p].lost = {}
    BY IdleTyped DEF Idle, Owner
  <2>2. owner \in [Owners -> Owner] /\ Sweep \in Owners
    BY DEF NodesInv, TypeOK, Owners
  <2> QED
    BY <1>1, <2>1, <2>2 DEF Busy
<1>4. TypeOK'
  <2>1. queue' \in Seq(Tasks) /\ up' \subseteq Nodes
    BY <1>1 DEF NodesInv, TypeOK
  <2> QED
    BY <1>2, <1>3, <2>1 DEF NodesInv, TypeOK, Task
<1>5. QueueMatches'
  BY <1>1, <1>2 DEF QueueMatches
<1>6. Pooled'
  <2>1. Threads' = {}
    BY <1>2 DEF Threads
  <2> QED
    BY <2>1, FS_EmptySet, ConstantAssumption DEF Pooled
<1>7. \A o \in Owners, n \in Nodes : task'[<<o, n>>].pc = "none"
  BY <1>2 DEF Tasks
<1>8. OneCommit'
  <2>1. \A r \in Requests : owner'[r].lost = {}
    BY <1>3 DEF NodesInv, OneCommit, Owners
  <2> QED
    BY <1>7, <2>1 DEF OneCommit, At
<1>9. OneCheck' /\ Tended' /\ ControlLast'
  <2>1. \A r \in Requests : r \in Owners
    BY DEF Owners
  <2>2. Sweep \in Owners /\ Control \in Nodes
    BY ConstantAssumption DEF Owners
  <2> QED
    BY <1>3, <1>7, <2>1, <2>2 DEF OneCheck, Tended, ControlLast, Quiet, Busy, At
<1>10. OneGetsThrough'
  BY <1>3 DEF OneGetsThrough
<1> QED
  BY <1>4, <1>5, <1>6, <1>8, <1>9, <1>10 DEF NodesInv

-----------------------------------------------------------------------------
(* The actions.                                                            *)

\* The sweep and the requests hand in the next commands.
LEMMA OwnersGoOn ==
    ASSUME NodesInv, SweepBegin \/ SweepEnd \/ \E r \in Requests : Serve(r)
    PROVE  NodesInv'
<1>1. Sweep \in Owners /\ Sweep \notin Requests /\ Requests \subseteq Owners
  BY ConstantAssumption DEF Owners
<1>2. CASE SweepBegin
  <2> DEFINE own == [Idle EXCEPT !.op = "sweep", !.pc = "busy", !.seen = status]
  <2>1. own \in Owner /\ own.pc = "busy" /\ own.lost = {} /\ own.op = "sweep"
    BY IdleTyped DEF NodesInv, TypeOK, Idle, Owner, Ops
  <2>2. Quiet(Sweep)
    BY <1>1, <1>2 DEF NodesInv, Tended, SweepBegin
  <2>3. Alive /\ owner' = [owner EXCEPT ![Sweep] = own] /\ Submit(Sweep, Nodes)
        /\ UNCHANGED <<up, status, cache, troubles>>
    BY <1>2 DEF SweepBegin
  <2> HIDE DEF own
  <2> QED
    BY <1>1, <2>1, <2>2, <2>3, Submits
<1>3. CASE SweepEnd
  <2>1. Idle.lost = {} /\ Idle.op = "health"
    BY DEF Idle
  <2> QED
    BY <1>1, <1>3, <2>1, IdleTyped, Submits DEF SweepEnd
<1>4. ASSUME NEW r \in Requests, Serve(r) PROVE NodesInv'
  <2>1. owner[r] \in Owner /\ owner[r].lost = {} /\ owner[r].todo \subseteq Nodes /\ r \in Owners
    BY <1>1 DEF NodesInv, TypeOK, OneCommit, Owner
  <2>2. ASSUME NEW a \in Asks, Arrive(r, a) PROVE NodesInv'
    <3> DEFINE own == [Idle EXCEPT !.op = a.op, !.pc = "busy", !.todo = a.on,
                         !.seen = IF a.op = "health" THEN status ELSE @]
    <3>1. a.op \in Ops /\ a.on \subseteq Nodes
      BY ConstantAssumption DEF Ask
    <3>2. own \in Owner /\ own.lost = {}
      BY <3>1, IdleTyped DEF NodesInv, TypeOK, Idle, Owner
    <3>3. Quiet(r)
      BY <2>1, <2>2 DEF NodesInv, Tended, Arrive, Busy
    <3>4. Alive /\ owner' = [owner EXCEPT ![r] = own]
          /\ UNCHANGED <<up, status, cache, queue, task, troubles>>
      BY <2>2 DEF Arrive
    <3> HIDE DEF own
    <3> QED
      BY <2>1, <3>2, <3>3, <3>4, Submits
  <2>3. ASSUME NEW n \in Nodes, GetOrCheck(r, n) PROVE NodesInv'
    <3> DEFINE own == [owner[r] EXCEPT !.todo = owner[r].todo \ {n}]
    <3>1. own \in Owner /\ own.lost = {} /\ own.op = owner[r].op /\ own.pc = owner[r].pc
      BY <2>1 DEF Owner
    <3>2. owner' = [owner EXCEPT ![r] = own]
      BY <2>1, <2>3 DEF GetOrCheck, NodesInv, TypeOK
    <3>3. Alive /\ owner[r].pc = "busy" /\ Quiet(r) /\ owner[r].op = "health"
          /\ UNCHANGED <<up, status, cache, troubles>>
      BY <2>3 DEF GetOrCheck, Busy
    <3>4. UNCHANGED <<queue, task>> \/ Submit(r, {n})
      BY <2>3 DEF GetOrCheck
    <3> HIDE DEF own
    <3>5. CASE UNCHANGED <<queue, task>>
      BY <2>1, <3>1, <3>2, <3>3, <3>5, Submits
    <3>6. CASE Submit(r, {n})
      BY <2>1, <3>1, <3>2, <3>3, <3>6, Submits
    <3> QED
      BY <3>4, <3>5, <3>6
  <2>4. CASE Command(r)
    <3> DEFINE own == [owner[r] EXCEPT !.todo = owner[r].todo \ Batch(r)]
    <3>1. /\ own \in Owner /\ own.lost = {} /\ own.op = owner[r].op /\ own.pc = owner[r].pc
          /\ own.todo = owner[r].todo \ Batch(r)
      BY <2>1 DEF Owner
    <3>2. owner' = [owner EXCEPT ![r] = own]
      BY <2>1, <2>4 DEF Command, NodesInv, TypeOK
    <3>3. Alive /\ owner[r].pc = "busy" /\ Quiet(r) /\ owner[r].op \notin {"sweep", "health"}
          /\ Submit(r, Batch(r)) /\ UNCHANGED <<up, status, cache, troubles>>
      BY <2>4 DEF Command, Busy, Checks
    <3>4. /\ Batch(r) \subseteq Nodes
          /\ owner[r].op = "shutdown" /\ Control \in Batch(r) =>
                Batch(r) = {Control} /\ (owner[r].todo \ Batch(r)) \cap Workers = {}
      BY <2>1 DEF Batch, Workers
    <3> HIDE DEF own
    <3> QED
      BY <2>1, <3>1, <3>2, <3>3, <3>4, Submits
  <2>5. CASE Answer(r)
    <3>1. [Idle EXCEPT !.pc = "done"] \in Owner /\ [Idle EXCEPT !.pc = "done"].lost = {}
      BY IdleTyped DEF Idle, Owner
    <3>2. Alive /\ Quiet(r) /\ owner' = [owner EXCEPT ![r] = [Idle EXCEPT !.pc = "done"]]
          /\ UNCHANGED <<up, status, cache, queue, task, troubles>>
      BY <2>5 DEF Answer
    <3> QED
      BY <2>1, <3>1, <3>2, Submits
  <2> QED
    BY <1>4, <2>2, <2>3, <2>4, <2>5 DEF Serve
<1> QED
  BY <1>2, <1>3, <1>4

\* A thread is free.
LEMMA ThreadStarts == ASSUME NodesInv, Start PROVE NodesInv'
<1>1. TypeOK /\ QueueMatches /\ Pooled /\ UNCHANGED <<up, status, cache, owner, troubles>>
  BY DEF NodesInv, Start
<1>2. /\ queue' \in Seq(Tasks) /\ task' \in [Tasks -> Task]
      /\ \A i, j \in 1 .. Len(queue') : queue'[i] = queue'[j] => i = j
      /\ \A t \in Tasks : task'[t].pc = "queued" <=> \E i \in 1 .. Len(queue') : queue'[i] = t
      /\ Pooled'
      /\ \A t \in Tasks : \/ task'[t] = task[t]
                          \/ task[t].pc = "queued" /\ task'[t].pc = "running"
  BY <1>1, StartRuns
<1>3. TypeOK'
  BY <1>1, <1>2 DEF TypeOK, Task
<1>4. QueueMatches'
  <2>1. DOMAIN queue' = 1 .. Len(queue') /\ \A i \in 1 .. Len(queue') : queue'[i] \in Tasks
    BY <1>2
  <2> QED
    BY <1>2, <2>1 DEF QueueMatches
<1>5. \A o \in Owners, n \in Nodes :
         /\ \/ task'[<<o, n>>] = task[<<o, n>>]
            \/ task[<<o, n>>].pc = "queued" /\ task'[<<o, n>>].pc = "running"
  BY <1>2 DEF Tasks
<1>6. Sweep \in Owners /\ Requests \subseteq Owners /\ Control \in Nodes /\ Workers \subseteq Nodes
  BY ConstantAssumption DEF Owners, Workers
<1>7. OneCommit'
  BY <1>1, <1>5 DEF NodesInv, OneCommit, At
<1>8. OneCheck'
  <2>1. \A o \in Owners : Checks(o)' = Checks(o)
    BY <1>1 DEF Checks
  <2> QED
    BY <1>1, <1>5, <1>6, <2>1 DEF NodesInv, OneCheck, At
<1>9. Tended'
  BY <1>1, <1>5 DEF NodesInv, Tended, Busy, Quiet, At, Alive
<1>10. OneGetsThrough'
  BY <1>1, <1>5, <1>6 DEF NodesInv, OneGetsThrough, At
<1>11. ControlLast'
  BY <1>1, <1>5, <1>6 DEF NodesInv, ControlLast, At
<1> QED
  BY <1>2, <1>3, <1>4, <1>7, <1>8, <1>9, <1>10, <1>11 DEF NodesInv

\* A task is over and its owner's record is as it was.
LEMMA Leaves ==
    ASSUME NodesInv, NEW o \in Owners, NEW n \in Nodes, ~At(o, n, "none"), ~At(o, n, "queued"),
           ~At(o, n, "commit"), Leave(o, n), UNCHANGED <<owner, status, queue>>,
           up' \subseteq Nodes, Control \in up' <=> Control \in up,
           cache' \in [Nodes -> Found \union {"none"}], troubles' \in 0 .. MaxTroubles
    PROVE  NodesInv'
<1>1. owner[o] \in Owner /\ owner' = [owner EXCEPT ![o] = owner[o]] /\ status \in [Nodes -> Status]
  BY DEF NodesInv, TypeOK
<1>2. AsTask("none") \in Task /\ AsTask("none").pc = "none"
  BY AsTaskTyped DEF TaskPc
<1>3. owner[o].lost # {} => owner[o].wrote \/ Committing(o, n)
  BY DEF NodesInv, OneGetsThrough, OneCommit, Owners, Committing, At
<1>4. o \in Requests => owner[o].lost = {}
  BY DEF NodesInv, OneCommit
<1> QED
  BY <1>1, <1>2, <1>3, <1>4, Works DEF Leave

\* A check goes on, its owner's record as it was.
LEMMA GoesOn ==
    ASSUME NodesInv, NEW o \in Owners, NEW n \in Nodes, NEW new \in Task,
           task[<<o, n>>].pc \in {"running", "found", "refresh"},
           task' = [task EXCEPT ![<<o, n>>] = new], new.pc \in {"found", "cache"}, Checks(o),
           UNCHANGED <<owner, up, status, cache, queue>>, troubles' \in 0 .. MaxTroubles
    PROVE  NodesInv'
<1>1. /\ owner[o] \in Owner /\ owner' = [owner EXCEPT ![o] = owner[o]]
      /\ status \in [Nodes -> Status] /\ up \subseteq Nodes /\ cache \in [Nodes -> Found \union {"none"}]
  BY DEF NodesInv, TypeOK
<1>2. ~At(o, n, "none") /\ ~At(o, n, "queued") /\ ~At(o, n, "commit")
  BY DEF At
<1>3. owner[o].lost # {} => owner[o].wrote \/ Committing(o, n)
  BY <1>2 DEF NodesInv, OneGetsThrough, OneCommit, Owners, Committing, At
<1>4. o \in Requests => owner[o].lost = {}
  BY DEF NodesInv, OneCommit
<1> QED
  BY <1>1, <1>2, <1>3, <1>4, Works

\* What takes a thread ends.
LEMMA ThreadEnds ==
    ASSUME NodesInv, NEW o \in Owners, NEW n \in Nodes,
           MetricsEnd(o, n) \/ CommandEnd(o, n) \/ PowerOff(o, n)
    PROVE  NodesInv'
<1>1. /\ up \subseteq Nodes /\ cache \in [Nodes -> Found \union {"none"}]
      /\ troubles \in 0 .. MaxTroubles /\ Truth(n) \in Found /\ "OFFLINE" \in Found
  BY Typed DEF NodesInv, TypeOK, Found
<1>2. \A what : Trouble(what) => troubles' \in 0 .. MaxTroubles
  BY <1>1, ConstantAssumption DEF Trouble
<1>3. \A f \in Found : [pc |-> "found", found |-> f] \in Task
  BY DEF Task, TaskPc
<1>4. CASE MetricsEnd(o, n)
  <2>1. PICK f \in Found : task' = [task EXCEPT ![<<o, n>>] = [pc |-> "found", found |-> f]]
    BY <1>1, <1>4 DEF MetricsEnd
  <2>2. troubles' \in 0 .. MaxTroubles
    BY <1>1, <1>2, <1>4 DEF MetricsEnd
  <2> QED
    BY <1>3, <1>4, <2>1, <2>2, GoesOn DEF MetricsEnd, At
<1>5. CASE CommandEnd(o, n)
  <2>1. troubles' \in 0 .. MaxTroubles
    BY <1>1, <1>2, <1>5 DEF CommandEnd
  <2> QED
    BY <1>1, <1>5, <2>1, Leaves DEF CommandEnd, At
<1>6. CASE PowerOff(o, n)
  <2>1. CASE n = Control
    BY <1>1, <1>6, <2>1, ControlDown DEF PowerOff
  <2>2. CASE n # Control
    BY <1>1, <1>6, <2>2, Leaves DEF PowerOff, Down, At
  <2> QED
    BY <2>1, <2>2
<1> QED
  BY <1>4, <1>5, <1>6

\* A session is rolled back.
LEMMA RollsBack ==
    ASSUME NodesInv, NEW o \in Owners, NEW n \in Nodes, ~At(o, n, "none"), ~At(o, n, "queued"),
           Rollback(o, n), UNCHANGED <<up, status, cache, queue>>, troubles' \in 0 .. MaxTroubles
    PROVE  NodesInv'
<1> DEFINE own == [owner[o] EXCEPT !.broken = TRUE, !.todo = {}, !.lost = {}]
<1>1. /\ owner[o] \in Owner /\ owner \in [Owners -> Owner]
      /\ status \in [Nodes -> Status] /\ up \subseteq Nodes /\ cache \in [Nodes -> Found \union {"none"}]
  BY DEF NodesInv, TypeOK
<1>2. owner' = [owner EXCEPT ![o] = own]
  BY <1>1 DEF Rollback
<1>3. /\ own \in Owner /\ own.op = owner[o].op /\ own.pc = owner[o].pc /\ own.todo = {}
      /\ own.lost = {} /\ own.wrote = owner[o].wrote
  BY <1>1 DEF Owner
<1>4. AsTask("none") \in Task /\ AsTask("none").pc = "none"
  BY AsTaskTyped DEF TaskPc
<1> HIDE DEF own
<1> QED
  BY <1>1, <1>2, <1>3, <1>4, Works DEF Rollback, Leave

\* A check compares what it has found, commits, reads the row again, caches.
LEMMA CheckSteps ==
    ASSUME NodesInv, NEW o \in Owners, NEW n \in Nodes,
           Compare(o, n) \/ Commit(o, n) \/ Refresh(o, n) \/ Cache(o, n)
    PROVE  NodesInv'
<1>1. /\ <<o, n>> \in Tasks /\ task[<<o, n>>] \in Task /\ owner[o] \in Owner
      /\ status \in [Nodes -> Status] /\ up \subseteq Nodes /\ cache \in [Nodes -> Found \union {"none"}]
      /\ owner \in [Owners -> Owner] /\ task \in [Tasks -> Task] /\ troubles \in 0 .. MaxTroubles
      /\ task[<<o, n>>].found \in Found /\ owner[o].seen \in [Nodes -> Status]
      /\ owner[o].lost \subseteq Nodes
  BY DEF NodesInv, TypeOK, Tasks, Task, Owner
<1>2. UNCHANGED troubles
  BY DEF Compare, Commit, Refresh, Cache
<1>3. task[<<o, n>>].pc \in {"found", "commit", "refresh", "cache"} /\ Checks(o)
  BY DEF Compare, Commit, Refresh, Cache, At, NodesInv, OneCheck
<1>4. ~At(o, n, "none") /\ ~At(o, n, "queued")
  BY <1>3 DEF At
<1>5. ASSUME NEW p \in {"commit", "refresh", "cache"}, Move(o, n, p)
      PROVE  \E new \in Task : new.pc = p /\ task' = [task EXCEPT ![<<o, n>>] = new]
  <2>1. /\ [task[<<o, n>>] EXCEPT !.pc = p] \in Task
        /\ [task[<<o, n>>] EXCEPT !.pc = p].pc = p
    BY <1>1 DEF Task, TaskPc
  <2>2. task' = [task EXCEPT ![<<o, n>>] = [task[<<o, n>>] EXCEPT !.pc = p]]
    BY <1>1, <1>5 DEF Move
  <2> QED
    BY <2>1, <2>2
<1>6. o \in Requests => owner[o].lost = {} /\ ~Committing(o, n) /\ ~Refreshing(o, n)
  BY <1>3, <1>4 DEF NodesInv, OneCommit, OneCheck, Committing, Refreshing, At
<1>7. CASE Compare(o, n)
  <2>1. CASE Leave(o, n) /\ UNCHANGED owner
    BY <1>1, <1>2, <1>4, <1>7, <2>1, Leaves DEF Compare, At
  <2>2. CASE Move(o, n, "cache") /\ UNCHANGED owner
    <3>1. PICK new \in Task : new.pc = "cache" /\ task' = [task EXCEPT ![<<o, n>>] = new]
      BY <1>5, <2>2
    <3> QED
      BY <1>1, <1>2, <1>3, <1>7, <2>2, <3>1, GoesOn DEF Compare, At
  <2>3. CASE (Committing(o, n) \/ Refreshing(o, n)) /\ Lose(o, n)
    <3>1. PICK b \in BOOLEAN :
             owner' = [owner EXCEPT ![o].seen[n] = task[<<o, n>>].found,
                                    ![o].lost = @ \union {n}, ![o].broken = b]
      BY <1>1, <2>3 DEF Lose, Owner
    <3> DEFINE own == [owner[o] EXCEPT !.seen = [owner[o].seen EXCEPT ![n] = task[<<o, n>>].found],
                         !.lost = owner[o].lost \union {n}, !.broken = b]
    <3>2. owner' = [owner EXCEPT ![o] = own]
      BY <1>1, <3>1 DEF Owner
    <3>3. /\ own \in Owner /\ own.op = owner[o].op /\ own.pc = owner[o].pc
          /\ own.todo = owner[o].todo /\ own.wrote = owner[o].wrote
      BY <1>1 DEF Owner, Status
    <3>4. o \notin Requests /\ o = Sweep
      BY <1>6, <2>3 DEF Owners
    <3>5. owner[o].wrote \/ Committing(o, n)
      BY <2>3, <3>4 DEF NodesInv, OneCheck, Refreshing
    <3>6. AsTask("none") \in Task /\ AsTask("none").pc = "none" /\ Leave(o, n)
      BY <2>3, AsTaskTyped DEF TaskPc, Lose
    <3>7. UNCHANGED <<up, status, cache, queue, troubles>> /\ own.todo \subseteq owner[o].todo
      BY <1>7, <3>3 DEF Compare
    <3> HIDE DEF own
    <3> QED
      BY <1>1, <1>4, <3>2, <3>3, <3>4, <3>5, <3>6, <3>7, Works DEF Leave
  <2>4. CASE /\ ~Committing(o, n) /\ Move(o, n, "commit")
             /\ owner' = [owner EXCEPT ![o].seen[n] = task[<<o, n>>].found]
    <3> DEFINE own == [owner[o] EXCEPT !.seen = [owner[o].seen EXCEPT ![n] = task[<<o, n>>].found]]
    <3>1. owner' = [owner EXCEPT ![o] = own]
      BY <1>1, <2>4 DEF Owner
    <3>2. /\ own \in Owner /\ own.op = owner[o].op /\ own.pc = owner[o].pc
          /\ own.todo = owner[o].todo /\ own.wrote = owner[o].wrote /\ own.lost = owner[o].lost
      BY <1>1 DEF Owner, Status
    <3>3. UNCHANGED <<up, status, cache, queue, troubles>> /\ own.todo \subseteq owner[o].todo
      BY <1>7, <3>2 DEF Compare
    <3>4. PICK new \in Task : new.pc = "commit" /\ task' = [task EXCEPT ![<<o, n>>] = new]
      BY <1>5, <2>4
    <3> HIDE DEF own
    <3> QED
      BY <1>1, <1>3, <1>4, <1>6, <2>4, <3>1, <3>2, <3>3, <3>4, Works
  <2> QED
    BY <1>7, <2>1, <2>2, <2>3, <2>4 DEF Compare
<1>8. CASE Commit(o, n)
  <2>1. ASSUME NEW ns \in SUBSET owner[o].lost,
               status' = [m \in Nodes |-> IF m = n \/ m \in ns THEN owner[o].seen[m] ELSE status[m]],
               owner' = [owner EXCEPT ![o].wrote = TRUE, ![o].lost = @ \ ns],
               Move(o, n, "refresh")
        PROVE  NodesInv'
    <3> DEFINE own == [owner[o] EXCEPT !.wrote = TRUE, !.lost = owner[o].lost \ ns]
    <3>1. owner' = [owner EXCEPT ![o] = own]
      BY <1>1, <2>1
    <3>2. /\ own \in Owner /\ own.op = owner[o].op /\ own.pc = owner[o].pc
          /\ own.todo = owner[o].todo /\ own.wrote /\ own.lost \subseteq owner[o].lost
      BY <1>1 DEF Owner
    <3>3. status' \in [Nodes -> Status]
      BY <1>1, <2>1
    <3>4. UNCHANGED <<up, cache, queue, troubles>> /\ own.todo \subseteq owner[o].todo
      BY <1>8, <3>2 DEF Commit
    <3>5. o \in Requests => own.lost = {}
      BY <1>6, <3>2
    <3>6. PICK new \in Task : new.pc = "refresh" /\ task' = [task EXCEPT ![<<o, n>>] = new]
      BY <1>5, <2>1
    <3> HIDE DEF own
    <3> QED
      BY <1>1, <1>3, <1>4, <2>1, <3>1, <3>2, <3>3, <3>4, <3>5, <3>6, Works
  <2>2. CASE Rollback(o, n) /\ UNCHANGED status
    BY <1>1, <1>4, <1>8, <2>2, RollsBack DEF Commit
  <2> QED
    BY <1>8, <2>1, <2>2 DEF Commit
<1>9. CASE Refresh(o, n)
  <2>1. CASE Move(o, n, "cache")
    <3>1. PICK new \in Task : new.pc = "cache" /\ task' = [task EXCEPT ![<<o, n>>] = new]
      BY <1>5, <2>1
    <3> QED
      BY <1>1, <1>2, <1>3, <1>9, <2>1, <3>1, GoesOn DEF Refresh, At
  <2>2. CASE Leave(o, n)
    BY <1>1, <1>2, <1>4, <1>9, <2>2, Leaves DEF Refresh, At
  <2> QED
    BY <1>9, <2>1, <2>2 DEF Refresh
<1>10. CASE Cache(o, n)
  <2>1. cache' \in [Nodes -> Found \union {"none"}]
    BY <1>1, <1>10 DEF Cache
  <2> QED
    BY <1>1, <1>2, <1>4, <1>10, <2>1, Leaves DEF Cache, At
<1> QED
  BY <1>7, <1>8, <1>9, <1>10

\* What happens around the backend.
LEMMA Surroundings ==
    ASSUME NodesInv, NEW n \in Nodes,
           \/ NodeFails(n) \/ NodeComesUp(n) \/ Expire(n)
           \/ \E o \in Owners : DbFails(o, n)
    PROVE  NodesInv'
<1>1. /\ up \subseteq Nodes /\ cache \in [Nodes -> Found \union {"none"}]
      /\ troubles \in 0 .. MaxTroubles
  BY DEF NodesInv, TypeOK
<1>2. \A what : Trouble(what) => troubles' \in 0 .. MaxTroubles
  BY <1>1, ConstantAssumption DEF Trouble
<1>3. ASSUME UNCHANGED <<status, queue, task, owner>>, up' \subseteq Nodes,
             Control \in up => Control \in up',
             cache' \in [Nodes -> Found \union {"none"}], troubles' \in 0 .. MaxTroubles
      PROVE  NodesInv'
  <2>1. TypeOK'
    BY <1>3 DEF NodesInv, TypeOK
  <2>2. QueueMatches' /\ Pooled' /\ OneCommit' /\ OneCheck' /\ OneGetsThrough' /\ ControlLast'
    BY <1>3 DEF NodesInv, QueueMatches, Pooled, Threads, OneCommit, OneCheck, OneGetsThrough,
                ControlLast, At, Checks
  <2>3. Tended'
    BY <1>3 DEF NodesInv, Tended, Busy, Quiet, At, Alive
  <2> QED
    BY <2>1, <2>2, <2>3 DEF NodesInv
<1>4. CASE NodeFails(n)
  <2>1. CASE n = Control
    BY <1>2, <1>4, <2>1, ControlDown DEF NodeFails
  <2>2. CASE n # Control
    BY <1>1, <1>2, <1>3, <1>4, <2>2 DEF NodeFails, Down
  <2> QED
    BY <2>1, <2>2
<1>5. CASE NodeComesUp(n)
  BY <1>1, <1>3, <1>5 DEF NodeComesUp
<1>6. CASE Expire(n)
  BY <1>1, <1>3, <1>6 DEF Expire
<1>7. ASSUME NEW o \in Owners, DbFails(o, n) PROVE NodesInv'
  BY <1>2, <1>7, RollsBack DEF DbFails, At
<1> QED
  BY <1>4, <1>5, <1>6, <1>7

-----------------------------------------------------------------------------
\* At first nothing waits.
LEMMA NodesInit == Init => NodesInv
<1> SUFFICES ASSUME Init PROVE NodesInv
  OBVIOUS
<1>1. /\ \A t \in Tasks : task[t].pc = "none"
      /\ task \in [Tasks -> Task] /\ queue = <<>>
  BY AsTaskTyped DEF Init, TaskPc
<1>2. /\ \A o \in Owners : owner[o].pc = "idle" /\ owner[o].lost = {} /\ owner[o].op = "health"
      /\ owner \in [Owners -> Owner]
  BY IdleTyped DEF Init, Idle
<1>3. TypeOK
  BY <1>1, <1>2, ConstantAssumption DEF Init, TypeOK, Task, Status
<1>4. QueueMatches
  BY <1>1 DEF QueueMatches
<1>5. Pooled
  <2>1. Threads = {}
    BY <1>1 DEF Threads
  <2> QED
    BY <2>1, FS_EmptySet, ConstantAssumption DEF Pooled
<1>6. \A o \in Owners, n \in Nodes : task[<<o, n>>].pc = "none"
  BY <1>1 DEF Tasks
<1>7. Sweep \in Owners /\ Requests \subseteq Owners /\ Control \in Nodes
  BY ConstantAssumption DEF Owners
<1> QED
  BY <1>2, <1>3, <1>4, <1>5, <1>6, <1>7
     DEF NodesInv, OneCommit, OneCheck, Tended, OneGetsThrough, ControlLast, Busy, Quiet, At

LEMMA NodesStep == NodesInv /\ [Next]_vars => NodesInv'
<1> SUFFICES ASSUME NodesInv, [Next]_vars PROVE NodesInv'
  OBVIOUS
<1>1. CASE UNCHANGED vars
  BY <1>1 DEF vars, NodesInv, TypeOK, QueueMatches, Pooled, Threads, OneCommit, OneCheck, Tended,
              OneGetsThrough, ControlLast, Busy, Quiet, Alive, Checks, At
<1> QED
  BY <1>1, OwnersGoOn, ThreadStarts, ThreadEnds, CheckSteps, Surroundings DEF Next, Work

\* Commands and threads match, within the pool; a session commits for one check
\* at a time; without a backend nothing waits.
THEOREM NodesInvariance == Spec => []NodesInv
<1> QED
  BY NodesInit, NodesStep, PTL DEF Spec

\* As long as a result of a sweep is lost, another was committed or is about to be.
THEOREM SweepGetsThrough == Spec => []OneGetsThrough
<1>1. NodesInv => OneGetsThrough
  BY DEF NodesInv
<1> QED
  BY NodesInvariance, <1>1, PTL

\* A shutdown takes the control node when it is through with the workers.
THEOREM ControlNodeLast == Spec => WorkersFirst
<1> DEFINE Through ==
      \A r \in Requests :
          owner[r].op = "shutdown" /\ At(r, Control, "running") /\ Control \in up \ up' =>
              \A n \in Workers : At(r, n, "none") /\ n \notin owner[r].todo
<1>1. NodesInv => Through
  BY DEF NodesInv, ControlLast, At
<1>2. NodesInv /\ [Next]_vars => [Through]_vars
  BY <1>1
<1> QED
  BY NodesInvariance, <1>2, PTL DEF Spec, WorkersFirst
=============================================================================
