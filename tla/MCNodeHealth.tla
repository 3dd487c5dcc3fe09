---------------------------- MODULE MCNodeHealth ----------------------------
(* Instances of NodeHealth for TLC.                                          *)
EXTENDS NodeHealth

AllAsks ==
    [op: {"health"}, on: {Nodes}]
        \union [op: {"stress", "reboot", "shutdown"}, on: {Nodes}]
=============================================================================
