------------------------------ MODULE MC_Interp ------------------------------
(* Instances of Interp for TLC. *)
EXTENDS InterpLease, TLC

Symmetry == Permutations(Thread)

AllFails == {"new", "save", "init"}

\* inits counts what has happened: no action reads it, nor a property of Interp_fail.
NoHistory == <<gil, current, pc, want, stack, table, obcb, names, pool, home, ninterp>>

\* Every call of get_interpreter() gets to its dispatch method, which it would not if a thread
\* kept the GIL in Apache; no tstate is made where one is there, and tstates change hands only
\* through the array.
Served == CallServed /\ []TstatesBounded /\ HandedOverThroughPool
=============================================================================
