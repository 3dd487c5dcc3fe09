----------------------------- MODULE MCAccounts -----------------------------
(* Instances of Accounts for TLC: ada and bob, and an account for either     *)
(* name created later.                                                       *)
EXTENDS Accounts, TLC

CONSTANTS Ada, Bob

Row(name, role) == [there |-> TRUE, name |-> name, role |-> role]

TwoAdmins == {[i \in 1 .. MaxId |-> IF i = 1 THEN Row(Ada, "admin")
                                   ELSE IF i = 2 THEN Row(Bob, "admin")
                                   ELSE NoUser]}

Ask_(op, by, on, name, role, ip) ==
    [op |-> op, by |-> by, on |-> on, name |-> name, role |-> role, ip |-> ip]

AnIp == CHOOSE ip \in Ips : TRUE

Logins    == {Ask_("login", n, 1, n, "viewer", ip) : n \in Names, ip \in Ips}
Creates   == {Ask_("create", Ada, 1, Bob, role, AnIp) : role \in {"admin", "viewer"}}
Changes   == {Ask_("role", n, i, n, "viewer", AnIp) : n \in Names, i \in 1 .. 2}
Promotion == Ask_("role", Ada, 2, Ada, "admin", AnIp)
Deletes   == {Ask_("delete", n, i, n, "viewer", AnIp) : n \in Names, i \in 1 .. 2}

AllAsks   == Logins \union Creates \union Changes \union {Promotion} \union Deletes

Symmetric == Permutations(Requests)
=============================================================================
