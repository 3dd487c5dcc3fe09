---------------------------- MODULE MCAlertRules ----------------------------
(* Instances of AlertRules for TLC: two rules, cpu and disk.                *)
EXTENDS AlertRules, TLC

CONSTANTS Cpu, Disk

\* A create, an update and a delete, of different rules or of the same, and an
\* update with an expression Prometheus refuses.
SomeAsks ==
    {[op |-> "create", rule |-> Cpu, body |-> 1],
     [op |-> "update", rule |-> Cpu, body |-> 2],
     [op |-> "update", rule |-> Cpu, body |-> 3],
     [op |-> "delete", rule |-> Disk, body |-> 0]}

\* A create of each rule.
TwoCreates == {[op |-> "create", rule |-> r, body |-> 1] : r \in Rules}

\* Disk is there; cpu is not, or is as SomeAsks would create it.
SomeDrafts == {b \in Books : b[Cpu] \in {0, 1} /\ b[Disk] = 1}
NoRules    == {[r \in Rules |-> 0]}

Symmetric == Permutations(Editors)
=============================================================================
