----------------------------- MODULE MCWorkload -----------------------------
(* Instances of WorkloadLifecycle for TLC: the requests the clients send.   *)
EXTENDS WorkloadLifecycle, TLC

CONSTANTS MCNames, MCSpaces, MCVars

Want(v, p, vars_) ==
    [knobs |-> [k \in {"replicas", "image", "limits", "probes"} |->
                  IF k = "probes" THEN p ELSE v],
     env |-> vars_]

Ask_(op, name, ns, port, want) ==
    [op |-> op, name |-> name, ns |-> ns, port |-> port, want |-> want]

Home == CHOOSE ns \in MCSpaces : TRUE

\* Creations, with and without a port and a probe path, in every namespace.
Creates(Port) ==
    {Ask_("create", n, ns, p, Want(1, IF p THEN 1 ELSE 0, {})) :
        n \in MCNames, ns \in MCSpaces, p \in Port}

\* Operations on a workload: an update asks for the value 1 or 2.
Calls(ops, vs) ==
    {Ask_(op, n, Home, FALSE, Want(v, v, {})) :
        op \in ops, n \in MCNames, v \in vs}

EnvCalls == {Ask_("env", n, Home, FALSE, Want(0, 0, e)) :
                n \in MCNames, e \in {{v} : v \in MCVars}}

\* One client at a time, every operation that the table knows of.
SerialAsks ==
    Creates(BOOLEAN) \union EnvCalls
        \union Calls({"delete", "restart", "rollback"}, {0})
        \union Calls({"replicas", "image", "probes"}, {2})
        \union Calls({"limits"}, {2})

\* Overlapping creates and deletes of the same name in several namespaces,
\* with an update and the autoscaler routes racing them.
RaceAsks ==
    Creates({TRUE}) \union Calls({"delete", "rollback", "hpa_put", "hpa_delete"}, {0})
        \union Calls({"replicas"}, {2})

\* Names, namespaces and request slots are interchangeable but for Home.
Symmetric == Permutations(Requests)
=============================================================================
