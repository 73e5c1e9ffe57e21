----------------------------- MODULE GlobalLock -----------------------------
(***************************************************************************)
(* The global mutexes of the server: init_mutexes() makes them before the  *)
(* children are forked (src/mod_python.c), and _apache._global_lock(),     *)
(* _global_trylock() and _global_unlock() find one by its index, or by the *)
(* hash of a key (src/_apachemodule.c). Mutex 0 is for dbm files, the keys *)
(* of sessions share the others. The children inherit the string hash of   *)
(* the parent, where Py_Initialize() ran, so "hash" is the same in all.    *)
(***************************************************************************)
EXTENDS Integers

CONSTANTS
    Worker,      \* threads of all the child processes
    Key,         \* session ids
    MaxClients,  \* threads times processes, as the MPM reports them
    MutexLocks,  \* PythonOption mod_python.mutex_locks, or MAX_LOCKS
    MayFail,     \* the mutexes apr_global_mutex_create() may fail to make
    Hashes,      \* values PyObject_Hash() may have once cut to a C int
    IntMax,      \* INT_MAX
    NoWorker

CountAssumption  == MaxClients \in Nat \ {0} /\ MutexLocks \in Nat \ {0}
HashAssumption   == IntMax \in Nat /\ Hashes \subseteq (-IntMax - 1)..IntMax
WorkerAssumption == NoWorker \notin Worker

VARIABLES
    phase,   \* "boot" while init_mutexes() runs, then "up", or "failed" if Apache gives up
    n,       \* the mutex init_mutexes() is about to make
    nlocks,  \* glb->nlocks
    alive,   \* the mutexes of glb->g_locks that are made and not destroyed
    hash,    \* the hash of each key
    pc,      \* "python", "waiting" in apr_global_mutex_lock(), or "crashed"
    index,   \* the index the thread last computed
    byKey,   \* it was computed from a key
    owner    \* who holds each mutex

vars == <<phase, n, nlocks, alive, hash, pc, index, byKey, owner>>

locks == IF MaxClients > MutexLocks THEN MutexLocks ELSE MaxClients
Mutex == 0..(locks - 1)

Init ==
    /\ phase = "boot" /\ n = 0 /\ nlocks = locks /\ alive = {}
    /\ hash \in [Key -> Hashes]
    /\ pc = [w \in Worker |-> "python"]
    /\ index = [w \in Worker |-> 0]
    /\ byKey = [w \in Worker |-> FALSE]
    /\ owner = [i \in Mutex |-> NoWorker]

Boot == phase = "boot" /\ UNCHANGED <<hash, pc, index, byKey, owner>>

\* apr_global_mutex_create() makes mutex n.
CreateOk ==
    /\ Boot
    /\ n < locks
    /\ alive' = alive \cup {n}
    /\ n' = n + 1
    /\ phase' = IF n + 1 = locks THEN "up" ELSE "boot"
    /\ UNCHANGED nlocks

\* Fault: two mutexes are given back and one is subtracted.
CreateFailMiscounts ==
    /\ Boot
    /\ n < locks /\ n \in MayFail /\ n > 1
    /\ nlocks' = n - 1
    /\ alive' = alive \ (IF n > 2 THEN {n - 1, n - 2} ELSE {n - 1})
    /\ phase' = "up"
    /\ UNCHANGED n

\* It fails with two or more made: one or two are given back and the server goes on.
CreateFailLate ==
    /\ Boot
    /\ n < locks /\ n \in MayFail /\ n > 1
    /\ nlocks' = IF n > 2 THEN n - 2 ELSE n - 1
    /\ alive' = alive \ (IF n > 2 THEN {n - 1, n - 2} ELSE {n - 1})
    /\ phase' = "up"
    /\ UNCHANGED n

\* It fails earlier: python_init() returns the error.
CreateFailEarly ==
    /\ Boot
    /\ n < locks /\ n \in MayFail /\ n <= 1
    /\ phase' = "failed"
    /\ UNCHANGED <<n, nlocks, alive>>

-----------------------------------------------------------------------------
\* C's abs(), which leaves INT_MIN alone, and C's %, which truncates towards zero.
CAbs(x) == IF x < 0 /\ x # -IntMax - 1 THEN -x ELSE x
CMod(x, m) == LET r == x % m IN IF x < 0 /\ r # 0 THEN r - m ELSE r

\* Fault: no mutex is reserved.
IndexFromZero(k) == CMod(CAbs(hash[k]), nlocks)

IndexOf(k) == CMod(CAbs(hash[k]), nlocks - 1) + 1

\* Index -1, the default, stands for "take the hash of the key".
InRange(i) == i < nlocks /\ i >= 0

Call(w) == phase = "up" /\ pc[w] = "python" /\ UNCHANGED <<phase, n, nlocks, alive, hash>>

\* The index a call by key computes: none if the hash is -1, which returns NULL.
KeyCall(w, k) ==
    /\ Call(w)
    /\ hash[k] # -1
    /\ nlocks # 1
    /\ index' = [index EXCEPT ![w] = IndexOf(k)]
    /\ byKey' = [byKey EXCEPT ![w] = TRUE]

\* hash % (glb->nlocks-1) divides by zero: the process dies.
DivideByZero(w, k) ==
    /\ Call(w)
    /\ hash[k] # -1
    /\ nlocks = 1
    /\ pc' = [pc EXCEPT ![w] = "crashed"]
    /\ UNCHANGED <<index, byKey, owner>>

\* An index out of range raises ValueError.
IndexCall(w, i) ==
    /\ Call(w)
    /\ InRange(i)
    /\ index' = [index EXCEPT ![w] = i]
    /\ byKey' = [byKey EXCEPT ![w] = FALSE]

Asks(w) == (\E k \in Key : KeyCall(w, k)) \/ (\E i \in 0..locks : IndexCall(w, i))

\* _global_lock(): the GIL is released and the thread waits.
GlobalLock(w) ==
    /\ Asks(w)
    /\ pc' = [pc EXCEPT ![w] = "waiting"]
    /\ UNCHANGED owner

Acquire(w) ==
    /\ pc[w] = "waiting"
    /\ owner[index[w]] = NoWorker
    /\ owner' = [owner EXCEPT ![index[w]] = w]
    /\ pc' = [pc EXCEPT ![w] = "python"]
    /\ UNCHANGED <<phase, n, nlocks, alive, hash, index, byKey>>

\* _global_trylock(): True and the mutex, or False.
GlobalTrylock(w) ==
    /\ Asks(w)
    /\ owner' = IF owner[index'[w]] = NoWorker
                THEN [owner EXCEPT ![index'[w]] = w] ELSE owner
    /\ UNCHANGED pc

\* _global_unlock(): the callers unlock what they hold.
GlobalUnlock(w) ==
    /\ Asks(w)
    /\ owner[index'[w]] = w
    /\ owner' = [owner EXCEPT ![index'[w]] = NoWorker]
    /\ UNCHANGED pc

Next ==
    \/ CreateOk \/ CreateFailLate \/ CreateFailEarly
    \/ \E w \in Worker :
         \/ GlobalLock(w) \/ Acquire(w) \/ GlobalTrylock(w) \/ GlobalUnlock(w)
         \/ \E k \in Key : DivideByZero(w, k)

Spec == Init /\ [][Next]_vars
-----------------------------------------------------------------------------
TypeOK ==
    /\ phase \in {"boot", "up", "failed"}
    /\ n \in 0..locks /\ nlocks \in 1..locks
    /\ alive \subseteq Mutex
    /\ hash \in [Key -> Hashes]
    /\ pc \in [Worker -> {"python", "waiting", "crashed"}]
    /\ index \in [Worker -> Mutex]
    /\ byKey \in [Worker -> BOOLEAN]
    /\ owner \in [Mutex -> Worker \cup {NoWorker}]

\* glb->nlocks never counts a mutex that was not made, or that was destroyed again
\* to leave some for other modules (mod_python.c, init_mutexes).
MutexesAlive == phase = "up" => 0..(nlocks - 1) \subseteq alive

\* A thread only waits for, and only owns, a mutex that exists.
OwnedAlive ==
    /\ \A w \in Worker : pc[w] = "waiting" => index[w] \in alive
    /\ \A i \in Mutex : owner[i] # NoWorker => i \in alive

\* "note that this will never result in 0, which is reserved for things like dbm
\* locking (see Session.py)": a key never gets the mutex of the dbm files.
ZeroReserved == \A w \in Worker : byKey[w] => index[w] # 0

\* "We can probably continue, but with diminished ability to process session locks"
\* (mod_python.c, init_mutexes, when it could not make all mutexes).
GoesOn == \A w \in Worker : pc[w] # "crashed"
=============================================================================
