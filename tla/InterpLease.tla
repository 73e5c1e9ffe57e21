---------------------------- MODULE InterpLease ----------------------------
(***************************************************************************)
(* Interp implements TstateLease: the lock is the GIL, and the thread      *)
(* states lent to a thread are those of its unreleased get_interpreter()   *)
(* calls.                                                                  *)
(***************************************************************************)
EXTENDS Interp

lentOf == [t \in Thread |-> [k \in DOMAIN stack[t] |-> stack[t][k].ts]]

Lease == INSTANCE TstateLease WITH holder <- gil, lent <- lentOf

\* Every step of get_interpreter(), release_interpreter() and of the code
\* between them, failures included, is a step of the lease or leaves it as it is.
ImplementsLease == Lease!Spec
=============================================================================
