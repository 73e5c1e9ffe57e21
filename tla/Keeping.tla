------------------------------- MODULE Keeping -------------------------------
(***************************************************************************)
(* Selecting from a sequence, by a set and not by a test, so that what it  *)
(* selects can be proved (see Keeping_proofs).                             *)
(***************************************************************************)
EXTENDS Integers, Sequences

\* The elements of s that are in S, in their order.
Keep(s, S) ==
    LET kept[n \in 0..Len(s)] == IF n = 0 THEN <<>>
                                 ELSE IF s[n] \in S THEN Append(kept[n - 1], s[n])
                                 ELSE kept[n - 1]
    IN  kept[Len(s)]

\* The numbers from 1 to n.
UpTo(n) == [i \in 1..n |-> i]
==============================================================================
