----------------------------- MODULE MC_Locks ------------------------------
(* Instances of FileCleanup and of GlobalLock for TLC, the other at rest. *)
EXTENDS Locks, TLC

CONSTANT s1

Sids  == {s1}
Where == s1 :> 2

Config(fast, verify, loads, limit, most, ds) ==
    [fast |-> fast, verify |-> verify, loads |-> loads, limit |-> limit, crashes |-> most,
     dirs |-> ds]

\* The fast way alone, the default, verification alone (with and without a load that works);
\* with directories that are missing, one that the session needs,
\* and with children that die.
AllConfigs == {Config(TRUE, FALSE, TRUE, TRUE, 0, 0..2),
               Config(TRUE, TRUE, TRUE, TRUE, 0, {0, 2}),
               Config(FALSE, TRUE, TRUE, FALSE, 1, 0..2),
               Config(TRUE, TRUE, FALSE, TRUE, 1, {2}),
               Config(TRUE, FALSE, TRUE, TRUE, 0, {0})}

Rest == /\ phase = "boot" /\ made = 0 /\ nlocks = 1 /\ alive = {} /\ hash = <<>>
        /\ at = <<>> /\ index = <<>> /\ byKey = <<>> /\ owner = <<>>

SweepInit == Init /\ Rest

SweepSpec == SweepInit /\ [][Next /\ UNCHANGED mutexVars]_<<vars, mutexVars>> /\ Fairness

(* The mutexes: hashes that leave the remainders 0, 1 and 2 of the divisors in use, a negative *)
(* one, and the one that is refused.                                                           *)

Symmetry   == Permutations(Worker)
Int32      == 2147483647
SomeHashes == {-7, -1, 0, 4, Int32}
FailNever2 == {0, 1, 3, 4}

NoSweep == /\ conf = <<>> /\ file = <<>> /\ lockfile = <<>> /\ status = 0 /\ pc = <<>> /\ i = <<>>
           /\ next = <<>> /\ todo = <<>> /\ cur = <<>> /\ req = <<>> /\ since = <<>> /\ crashes = 0

MutexInit == NoSweep /\ G!Init

MutexSpec == MutexInit /\ [][G!Next /\ UNCHANGED vars]_<<vars, mutexVars>>
=============================================================================
