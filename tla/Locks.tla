------------------------------- MODULE Locks --------------------------------
(***************************************************************************)
(* What keeps the children of the server apart: the lock file of a sweep   *)
(* of session files, and the global mutexes.  A sweep takes no mutex, and  *)
(* the two share nothing: a behaviour here is one of one of them.          *)
(***************************************************************************)
EXTENDS FileCleanup

CONSTANTS
    Worker, Key, MaxClients, MutexLocks, MayFail, Hashes, IntMax, NoWorker  \* see GlobalLock

VARIABLES phase, made, nlocks, alive, hash, at, index, byKey, owner

mutexVars == <<phase, made, nlocks, alive, hash, at, index, byKey, owner>>

G == INSTANCE GlobalLock WITH n <- made, pc <- at

ASSUME MutexAssumption == G!CountAssumption /\ G!HashAssumption /\ G!WorkerAssumption

MutexesAlive == G!MutexesAlive
ZeroReserved == G!ZeroReserved
=============================================================================
