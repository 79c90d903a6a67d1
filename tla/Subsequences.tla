----------------------------- MODULE Subsequences -----------------------------
(***************************************************************************)
(* What is picked out of a sequence, in its order.                         *)
(***************************************************************************)
EXTENDS Naturals, Sequences

\* The elements of s that are in S; taken[n] is what the first n of them leave.
Among(s, S) ==
  LET taken[n \in 0..Len(s)] ==
        IF n = 0 THEN <<>>
        ELSE IF s[n] \in S THEN Append(taken[n - 1], s[n]) ELSE taken[n - 1]
  IN  taken[Len(s)]
=============================================================================
