------------------------------ MODULE MCMessenger ------------------------------
(* Constants of the runs of Messenger. *)
EXTENDS Messenger, TLC

\* Clients and logins differ in nothing but their names; used only in runs
\* that check safety.
Symmetry == Permutations(Clients) \cup Permutations(Logins)
=============================================================================
