----------------------------- MODULE MCFrontend -----------------------------
(* Instances of Frontend for TLC.                                          *)
EXTENDS Frontend, TLC

\* Handlers under way are told apart by what they do only, and rows by what is
\* done with them.
Alike == Permutations(Slots) \union Permutations(Rows)
=============================================================================
