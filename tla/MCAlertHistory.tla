--------------------------- MODULE MCAlertHistory ---------------------------
(* Instances of AlertHistory for TLC.                                       *)
EXTENDS AlertHistory

CONSTANTS PodA, PodB, Node

\* PodNotReady carries no node_name: the alerts of two pods have one key.
SharedKey == [a \in Alerts |-> IF a = Node THEN "NodeDown" ELSE "PodNotReady"]
=============================================================================
