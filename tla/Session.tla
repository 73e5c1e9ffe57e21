------------------------------ MODULE Session ------------------------------
(***************************************************************************)
(* BaseSession and its subclasses DbmSession, FileSession, MemorySession   *)
(* (src/lib/python/mod_python/Session.py), used by one handler per worker  *)
(* thread. The constructor locks the session id, loads the session, and    *)
(* renews the id of a session that is not there or has expired; the        *)
(* handler saves, deletes or invalidates it; cleanups run when the request *)
(* is done. Session ids share the mutexes of GlobalLock, mutex 0 guards    *)
(* the dbm file. What a session holds is the number of the save that wrote *)
(* it. The sweep of FileSession is left out.                               *)
(***************************************************************************)
EXTENDS Integers, FiniteSets

CONSTANTS
    Worker,       \* threads that serve requests, of one or more processes
    Sid,          \* session ids
    SlotOf,       \* the mutex a session id hashes to
    Configs,      \* the ways the sessions of a server may be used: see conf
    MaxSaves,     \* bound: saves in a run
    NoSid, NoWorker

ASSUME SlotAssumption == SlotOf \in [Sid -> Nat \ {0}]
ASSUME ConfigAssumption == Configs \subseteq [kind : {"dbm", "file", "memory"}, lock : BOOLEAN,
                                              fails : BOOLEAN, unlocks : BOOLEAN]
ASSUME SavesAssumption == MaxSaves \in Nat
ASSUME NoneAssumption == NoSid \notin Sid /\ NoWorker \notin Worker

VARIABLES
    conf,   \* the class and lock argument in use, if the session file or dbm file may fail to
            \* open, and if handlers call unlock() and lock() themselves; never changes
    pc,     \* where the request of each worker is
    op,     \* the store operation it is in: "load", "save", "delete", "invalidate"
    sess,   \* its session object: _sid, _locked, _invalid, the save in memory, if a store
            \* cleanup was registered, and if lock() was called again after it
    mutex,  \* who holds each global mutex
    store,  \* the save in the store under each id, 0 if none, and if it has expired
    saves,  \* saves so far
    dead,   \* ids whose session was invalidated
    doomed  \* MemorySession: ids mem_cleanup() has yet to look at, and the one it will delete

vars == <<pc, op, sess, mutex, store, saves, dead, doomed>>

Kind        == conf.kind
LockOn      == conf.lock
StoreFails  == conf.fails
UserUnlocks == conf.unlocks

Slots   == {SlotOf[s] : s \in Sid}
Object  == [sid : Sid \cup {NoSid}, locked : BOOLEAN, invalid : BOOLEAN,
            base : 0..MaxSaves, sweep : BOOLEAN, again : BOOLEAN]
NoObject == [sid |-> NoSid, locked |-> FALSE, invalid |-> FALSE, base |-> 0,
             sweep |-> FALSE, again |-> FALSE]
Absent  == [ver |-> 0, expired |-> FALSE]

slot(w)    == SlotOf[sess[w].sid]
Goto(w, l) == pc' = [pc EXCEPT ![w] = l]

Init ==
    /\ conf \in Configs
    /\ pc = [w \in Worker |-> "idle"]
    /\ op = [w \in Worker |-> "load"]
    /\ sess = [w \in Worker |-> NoObject]
    /\ mutex = [m \in Slots \cup {0} |-> NoWorker]
    /\ store = [s \in Sid |-> Absent]
    /\ saves = 0
    /\ dead = {}
    /\ doomed = [w \in Worker |-> [todo |-> {}, next |-> NoSid]]

\* Ids _new_sid() may return: no request, no cookie and no store has them.
Fresh == {s \in Sid \ dead : store[s].ver = 0 /\ \A w \in Worker : sess[w].sid # s}

\* Fault: the constructor loads the session of a cookie before it locks it.
RequestNoLock(w, s, sweep) ==
    /\ pc[w] = "idle"
    /\ Cardinality(Fresh \ {s}) >= Cardinality(Worker)
    /\ sess' = [sess EXCEPT ![w] = [NoObject EXCEPT !.sid = s, !.sweep = sweep]]
    /\ Goto(w, IF s = NoSid THEN "renew" ELSE "op")
    /\ UNCHANGED <<op, mutex, store, saves, dead, doomed>>

\* A request arrives, with the session id of a cookie or none; one in CLEANUP_CHANCE
\* registers a cleanup.
\* Bound: it waits until there are ids to spare for all constructors.
Request(w, s, sweep) ==
    /\ pc[w] = "idle"
    /\ Cardinality(Fresh \ {s}) >= Cardinality(Worker)
    /\ sess' = [sess EXCEPT ![w] = [NoObject EXCEPT !.sid = s, !.sweep = sweep]]
    /\ Goto(w, IF s = NoSid THEN "renew" ELSE "lock")
    /\ UNCHANGED <<op, mutex, store, saves, dead, doomed>>

\* BaseSession.lock(): for the id of the cookie, then for the new one, if there is one.
Lock(w) ==
    /\ pc[w] \in {"lock", "locknew", "relock"}
    /\ IF LockOn
       THEN /\ mutex[slot(w)] = NoWorker
            /\ mutex' = [mutex EXCEPT ![slot(w)] = w]
            /\ sess' = [sess EXCEPT ![w].locked = TRUE, ![w].again = pc[w] = "relock"]
       ELSE UNCHANGED <<mutex, sess>>
    /\ Goto(w, IF pc[w] = "lock" THEN "op" ELSE "handler")
    /\ op' = [op EXCEPT ![w] = "load"]
    /\ UNCHANGED <<store, saves, dead, doomed>>

\* BaseSession.unlock() as part of another step; FileSession.unlock_file() has the other condition.
Unlocked(w)    == LockOn /\ sess[w].locked
UnlockMutex(w) == IF Unlocked(w) THEN [mutex EXCEPT ![slot(w)] = NoWorker] ELSE mutex

\* Fault: the old id stays locked.
RenewKeepsLock(w) ==
    /\ pc[w] = "renew"
    /\ \E s \in Fresh : sess' = [sess EXCEPT ![w].sid = s]
    /\ Goto(w, "locknew")
    /\ UNCHANGED <<op, mutex, store, saves, dead, doomed>>

\* The session is new: the old id is unlocked, another takes its place.
Renew(w) ==
    /\ pc[w] = "renew"
    /\ mutex' = UnlockMutex(w)
    /\ \E s \in Fresh : sess' = [sess EXCEPT ![w].sid = s, ![w].locked = @ /\ ~LockOn]
    /\ Goto(w, "locknew")
    /\ UNCHANGED <<op, store, saves, dead, doomed>>

-----------------------------------------------------------------------------
(***************************************************************************)
(* do_load, do_save and do_delete: a bracket around one access to the      *)
(* store. DbmSession holds mutex 0 in it, FileSession the mutex of the     *)
(* session if lock() did not take it, MemorySession nothing.               *)
(***************************************************************************)
Enter(w) ==
    /\ pc[w] = "op"
    /\ CASE Kind = "dbm" ->
              /\ mutex[0] = NoWorker
              /\ mutex' = [mutex EXCEPT ![0] = w]
              /\ UNCHANGED sess
         [] Kind = "file" /\ ~sess[w].locked ->
              /\ mutex[slot(w)] = NoWorker
              /\ mutex' = [mutex EXCEPT ![slot(w)] = w]
              /\ sess' = [sess EXCEPT ![w].locked = TRUE]
         [] OTHER -> UNCHANGED <<mutex, sess>>
    /\ Goto(w, "in")
    /\ UNCHANGED <<op, store, saves, dead, doomed>>

\* FileSession.unlock_file() releases what lock_file() took, unless locking is on.
FileUnlocks(w) == Kind = "file" /\ sess[w].locked /\ ~LockOn

\* Fault: the dbm file stays locked.
LeaveDbmLocked(w) == IF FileUnlocks(w) THEN [mutex EXCEPT ![slot(w)] = NoWorker] ELSE mutex

LeaveMutex(w) == CASE Kind = "dbm"   -> [mutex EXCEPT ![0] = NoWorker]
                   [] FileUnlocks(w) -> [mutex EXCEPT ![slot(w)] = NoWorker]
                   [] OTHER          -> mutex

In(w, o) == pc[w] = "in" /\ op[w] = o

\* What the end of an access makes of the session object.
Leave(w, base, invalid) ==
    /\ mutex' = LeaveMutex(w)
    /\ sess' = [sess EXCEPT ![w].base = base, ![w].invalid = invalid,
                            ![w].locked = @ /\ ~FileUnlocks(w)]
    /\ UNCHANGED <<op, doomed>>

\* load() finds the session.
Load(w) ==
    /\ In(w, "load")
    /\ store[sess[w].sid].ver # 0 /\ ~store[sess[w].sid].expired
    /\ Leave(w, store[sess[w].sid].ver, FALSE)
    /\ Goto(w, "handler")
    /\ UNCHANGED <<store, saves, dead>>

\* There is none, it has expired, or FileSession could not read it.
LoadNothing(w) ==
    /\ In(w, "load")
    /\ \/ store[sess[w].sid].ver = 0
       \/ store[sess[w].sid].expired
       \/ Kind = "file" /\ StoreFails
    /\ Leave(w, 0, FALSE)
    /\ Goto(w, "renew")
    /\ UNCHANGED <<store, saves, dead>>

Save(w) ==
    /\ In(w, "save")
    /\ store' = [store EXCEPT ![sess[w].sid] = [ver |-> saves + 1, expired |-> FALSE]]
    /\ saves' = saves + 1
    /\ Leave(w, saves + 1, sess[w].invalid)
    /\ Goto(w, "handler")
    /\ UNCHANGED dead

\* delete() and invalidate().
Delete(w, o) ==
    /\ In(w, o)
    /\ store' = [store EXCEPT ![sess[w].sid] = Absent]
    /\ dead' = IF o = "invalidate" THEN dead \cup {sess[w].sid} ELSE dead
    /\ Leave(w, 0, sess[w].invalid \/ o = "invalidate")
    /\ Goto(w, "handler")
    /\ UNCHANGED saves

\* FileSession logs that it could not save, and ignores that it could not delete.
FileFails(w) ==
    /\ Kind = "file" /\ StoreFails
    /\ pc[w] = "in" /\ op[w] # "load"
    /\ Leave(w, IF op[w] = "save" THEN sess[w].base ELSE 0,
             sess[w].invalid \/ op[w] = "invalidate")
    /\ dead' = IF op[w] = "invalidate" THEN dead \cup {sess[w].sid} ELSE dead
    /\ Goto(w, "handler")
    /\ UNCHANGED <<store, saves>>

\* The handler is over. Cleanups run in the reverse order of their registration: the
\* store cleanup of the constructor, if there is one, before its unlock.
AfterHandler(w) == IF ~sess[w].sweep THEN "end"
                   ELSE CASE Kind = "dbm"    -> "dbmsweep"
                          [] Kind = "memory" -> "memsweep"
                          [] Kind = "file"   -> "end"

\* DbmSession calls _get_dbm() between _global_lock() and "try:": the exception ends
\* the handler and skips _global_unlock().
DbmFails(w) ==
    /\ Kind = "dbm" /\ StoreFails
    /\ pc[w] = "in"
    /\ Goto(w, IF op[w] = "load" THEN "end" ELSE AfterHandler(w))
    /\ UNCHANGED <<op, sess, mutex, store, saves, dead, doomed>>

-----------------------------------------------------------------------------
\* The handler calls save(), which does nothing once the session is invalid, delete()
\* or invalidate(). Bound: MaxSaves, also for the saves under way.
Saving == Cardinality({w \in Worker : pc[w] \in {"op", "in"} /\ op[w] = "save"})

\* Fault: save() saves in any case.
CallAnyway(w, o) ==
    /\ pc[w] = "handler"
    /\ op' = [op EXCEPT ![w] = o]
    /\ Goto(w, "op")
    /\ UNCHANGED <<sess, mutex, store, saves, dead, doomed>>

Call(w, o) ==
    /\ pc[w] = "handler"
    /\ o = "save" => ~sess[w].invalid /\ saves + Saving < MaxSaves
    /\ op' = [op EXCEPT ![w] = o]
    /\ Goto(w, "op")
    /\ UNCHANGED <<sess, mutex, store, saves, dead, doomed>>

UserUnlock(w) ==
    /\ UserUnlocks
    /\ pc[w] = "handler" /\ Unlocked(w)
    /\ mutex' = UnlockMutex(w)
    /\ sess' = [sess EXCEPT ![w].locked = FALSE]
    /\ UNCHANGED <<pc, op, store, saves, dead, doomed>>

UserLock(w) ==
    /\ UserUnlocks
    /\ pc[w] = "handler" /\ ~sess[w].locked
    /\ Goto(w, "relock")
    /\ UNCHANGED <<op, sess, mutex, store, saves, dead, doomed>>

\* The handler returns. The unlock of a second lock() runs before the store cleanup,
\* mem_cleanup() starts with a list of the ids.
EndHandler(w) ==
    /\ pc[w] = "handler"
    /\ Goto(w, AfterHandler(w))
    /\ IF sess[w].again
       THEN /\ mutex' = UnlockMutex(w)
            /\ sess' = [sess EXCEPT ![w].locked = FALSE]
       ELSE UNCHANGED <<mutex, sess>>
    /\ doomed' = [doomed EXCEPT ![w].todo =
                      IF AfterHandler(w) = "memsweep" THEN {s \in Sid : store[s].ver # 0} ELSE @]
    /\ UNCHANGED <<op, store, saves, dead>>

\* dbm_cleanup(): mutex 0, then the dbm file.
DbmSweepEnter(w) ==
    /\ pc[w] = "dbmsweep"
    /\ mutex[0] = NoWorker
    /\ mutex' = [mutex EXCEPT ![0] = w]
    /\ Goto(w, "sweeping")
    /\ UNCHANGED <<op, sess, store, saves, dead, doomed>>

\* All that has expired goes, or nothing if the dbm module has no first().
DbmSweep(w) ==
    /\ pc[w] = "sweeping"
    /\ store' \in {store, [s \in Sid |-> IF store[s].expired THEN Absent ELSE store[s]]}
    /\ mutex' = [mutex EXCEPT ![0] = NoWorker]
    /\ Goto(w, "end")
    /\ UNCHANGED <<op, sess, saves, dead, doomed>>

\* dbm_cleanup() opens the file between _global_lock() and "try:" as well.
DbmSweepFails(w) ==
    /\ StoreFails
    /\ pc[w] = "sweeping"
    /\ Goto(w, "end")
    /\ UNCHANGED <<op, sess, mutex, store, saves, dead, doomed>>

\* mem_cleanup(): for each id of the list, look if it has expired ...
MemLook(w) ==
    /\ pc[w] = "memsweep" /\ doomed[w].next = NoSid
    /\ \E s \in doomed[w].todo :
         doomed' = [doomed EXCEPT ![w].todo = @ \ {s},
                                  ![w].next = IF store[s].expired THEN s ELSE NoSid]
    /\ UNCHANGED <<pc, op, sess, mutex, store, saves, dead>>

\* ... and delete it.
MemDelete(w) ==
    /\ pc[w] = "memsweep" /\ doomed[w].next # NoSid
    /\ store' = [store EXCEPT ![doomed[w].next] = Absent]
    /\ doomed' = [doomed EXCEPT ![w].next = NoSid]
    /\ UNCHANGED <<pc, op, sess, mutex, saves, dead>>

MemSwept(w) ==
    /\ pc[w] = "memsweep" /\ doomed[w].next = NoSid /\ doomed[w].todo = {}
    /\ Goto(w, "end")
    /\ UNCHANGED <<op, sess, mutex, store, saves, dead, doomed>>

\* unlock_session_cleanup(), then the session object goes with the request.
EndRequest(w) ==
    /\ pc[w] = "end"
    /\ mutex' = UnlockMutex(w)
    /\ sess' = [sess EXCEPT ![w] = NoObject]
    /\ op' = [op EXCEPT ![w] = "load"]
    /\ Goto(w, "idle")
    /\ UNCHANGED <<store, saves, dead, doomed>>

\* Time passes: a session that has not been saved for its timeout expires.
Expire(s) ==
    /\ store[s].ver # 0 /\ ~store[s].expired
    /\ store' = [store EXCEPT ![s].expired = TRUE]
    /\ UNCHANGED <<pc, op, sess, mutex, saves, dead, doomed>>

Access(w) == \/ Load(w) \/ LoadNothing(w) \/ Save(w)
             \/ Delete(w, "delete") \/ Delete(w, "invalidate")
             \/ FileFails(w) \/ DbmFails(w)

Sweep(w) == \/ DbmSweep(w) \/ DbmSweepFails(w)
            \/ MemLook(w) \/ MemDelete(w) \/ MemSwept(w)

Next ==
    \/ \E w \in Worker :
         \/ \E s \in Sid \cup {NoSid}, sweep \in BOOLEAN : Request(w, s, sweep)
         \/ Lock(w) \/ Renew(w) \/ Enter(w) \/ Access(w)
         \/ \E o \in {"save", "delete", "invalidate"} : Call(w, o)
         \/ UserUnlock(w) \/ UserLock(w) \/ EndHandler(w)
         \/ DbmSweepEnter(w) \/ Sweep(w) \/ EndRequest(w)
    \/ \E s \in Sid : Expire(s)

Spec == Init /\ [][Next /\ UNCHANGED conf]_<<conf, vars>>

(***************************************************************************)
(* Fairness: a mutex that is free again and again is granted to a waiter   *)
(* in the end (the mutexes of APR queue their waiters), code that does not *)
(* wait goes on, and handlers return.                                      *)
(***************************************************************************)
Granted(w) == Lock(w) \/ Enter(w) \/ DbmSweepEnter(w)
GoOn(w)    == Renew(w) \/ Access(w) \/ Sweep(w) \/ EndRequest(w)

Fairness == \A w \in Worker : SF_vars(Granted(w)) /\ SF_vars(EndHandler(w)) /\ WF_vars(GoOn(w))

FairSpec == Spec /\ Fairness
-----------------------------------------------------------------------------
(***************************************************************************)
(* Properties                                                              *)
(***************************************************************************)
TypeOK ==
    /\ conf \in Configs
    /\ pc \in [Worker -> {"idle", "lock", "renew", "locknew", "relock", "op", "in", "handler",
                          "dbmsweep", "sweeping", "memsweep", "end"}]
    /\ op \in [Worker -> {"load", "save", "delete", "invalidate"}]
    /\ sess \in [Worker -> Object]
    /\ mutex \in [Slots \cup {0} -> Worker \cup {NoWorker}]
    /\ store \in [Sid -> [ver : 0..MaxSaves, expired : BOOLEAN]]
    /\ saves \in 0..MaxSaves
    /\ dead \subseteq Sid
    /\ doomed \in [Worker -> [todo : SUBSET Sid, next : Sid \cup {NoSid}]]

\* _locked tells the truth: it is set just when this object holds the mutex of its
\* current id, through renewals of the id, lock_file() and unlock_file(), and what
\* the handler unlocks. Else a request unlocks the session of another.
LockedIsHeld ==
    \A w \in Worker : \A m \in Slots :
        mutex[m] = w <=> (sess[w].locked /\ m = slot(w))

\* "When locking is on, only one session object with a particular session id can be
\* instantiated at a time" (Doc/pythonapi.rst): from the end of the constructor to
\* the end of the request, unless the handler unlocks it, no other object has the id.
Constructed(w) == pc[w] \in {"handler", "dbmsweep", "sweeping", "memsweep", "end"}
                  \/ (pc[w] \in {"op", "in"} /\ op[w] # "load")
Locking == LockOn /\ ~UserUnlocks

OneObjectPerSid ==
    Locking => \A v, w \in Worker :
        Constructed(v) /\ Constructed(w) /\ v # w => sess[v].sid # sess[w].sid

\* A request that is over holds no mutex.
IdleHoldsNothing ==
    \A w \in Worker : pc[w] = "idle" => \A m \in DOMAIN mutex : mutex[m] # w

\* No request waits in a circle of requests that hold what the next one wants: who
\* wants a session does not hold the dbm file; nor for one that is over.
Wants(w) == CASE pc[w] \in {"lock", "locknew", "relock"} /\ LockOn -> {slot(w)}
              [] pc[w] = "op" /\ Kind = "dbm" -> {0}
              [] pc[w] = "op" /\ Kind = "file" /\ ~sess[w].locked -> {slot(w)}
              [] pc[w] = "dbmsweep" -> {0}
              [] OTHER -> {}

NoCircularWait ==
    /\ IdleHoldsNothing
    /\ \A W \in SUBSET Worker : W # {} =>
          \E w \in W : \A m \in Wants(w) : mutex[m] \notin W

\* "Lock index 0 is also used by DbmSession for locking it's dbm file, but since the
\* lock is not held for the duration of the request there should not be any
\* additional deadlock issues" (psp.py).
DbmLockShort ==
    \A w \in Worker : mutex[0] = w => pc[w] \in {"in", "sweeping"}

\* An invalidated session never comes back, not by the save of a request that had
\* loaded it before.
StaysInvalid == Locking => \A s \in dead : store[s].ver = 0

\* A save replaces the save that the request which makes it has loaded or made, never one of
\* another request that it has not seen.
NoLostUpdate ==
    [][Locking => \A s \in Sid : store'[s].ver > store[s].ver /\ store[s].ver # 0 =>
         \E w \in Worker : /\ In(w, "save") /\ pc'[w] # "in"
                           /\ sess[w].sid = s /\ sess[w].base = store[s].ver]_vars

\* "A session will timeout if it has not been accessed and a save performed, within
\* the timeout period" (Doc/pythonapi.rst): a session only goes when it has expired
\* or the request that has it open deletes it.
SweepSparesLive ==
    [][\A s \in Sid : store[s].ver # 0 /\ store'[s].ver = 0 =>
         \/ store[s].expired
         \/ \E w \in Worker : sess[w].sid = s /\ pc[w] = "in" /\ pc'[w] = "handler"]_vars

\* Every request comes to an end: its constructor gets its locks, and what it starts
\* on the store it completes.
RequestEnds == \A w \in Worker : pc[w] # "idle" ~> pc[w] = "idle"
=============================================================================
