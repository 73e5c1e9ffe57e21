-------------------------------- MODULE Cache --------------------------------
(***************************************************************************)
(* The caches of cache.py, which the threads of a process share: Cache     *)
(* with its list of least recent use, FileCache, which rebuilds a value    *)
(* whose file has changed, PageCache, the one of publisher.py, which may   *)
(* be told not to look at the file again, and WeakCache, whose values go   *)
(* away by themselves.                                                     *)
(*                                                                         *)
(* A value is the version of the file it was built from, and a time of the *)
(* file the version it belongs to: no two versions have the same time.     *)
(***************************************************************************)
EXTENDS Integers, FiniteSetsExt, SequencesExt

CONSTANTS
    Thread, Key,
    MaxVersion,  \* versions of a file
    MaxCalls,    \* calls in a behaviour
    MaxEntries,  \* entries there may be at once, forgotten ones that are in use among them
    Configs,     \* [max, kind, changing, reload, deletes, sets, fails, cycles]
    NoThread, NoKey

Entry == 1..MaxEntries
None == 0        \* no entry; no value, NOT_INITIALIZED

ASSUME CacheAssumption ==
    /\ MaxVersion \in Nat \ {0} /\ MaxCalls \in Nat /\ MaxEntries \in Nat
    /\ Configs \subseteq [max : Nat, kind : {"plain", "file", "weak"}, changing : SUBSET Key,
                          reload : BOOLEAN, deletes : BOOLEAN, sets : BOOLEAN, fails : BOOLEAN,
                          cycles : BOOLEAN]
    /\ \A c \in Configs : c.sets => c.kind # "file"   \* the content of files is only read
    /\ NoThread \notin Thread /\ NoKey \notin Key

VARIABLES
    conf,       \* fixed in a behaviour; changing: the names whose files change;
                \* cycles: values may be in cycles of references, for the collector to find
    file,       \* the version of each file
    dict, lru,  \* _dict, and the access list, from least to most recent use
    entry,      \* [key, val, time, failed]; failed: not rebuilt after the time was stored
    holder,     \* who has the lock of an entry
    pc, op, name, my, start, got,   \* a thread in a call
    calls       \* calls so far

thread == <<pc, op, name, my, start, got, calls>>
vars == <<conf, file, dict, lru, entry, holder, thread>>

Blank == [key |-> NoKey, val |-> None, time |-> None, failed |-> FALSE]

Init ==
    /\ conf \in Configs
    /\ file = [k \in Key |-> 1]
    /\ dict = [k \in Key |-> None] /\ lru = <<>>
    /\ entry = [e \in Entry |-> Blank] /\ holder = [e \in Entry |-> NoThread]
    /\ pc = [t \in Thread |-> "idle"] /\ op = [t \in Thread |-> "get"]
    /\ name = [t \in Thread |-> NoKey] /\ my = [t \in Thread |-> None]
    /\ start = [t \in Thread |-> 0] /\ got = [t \in Thread |-> None]
    /\ calls = 0

At(t, a) == pc[t] = a
Goes(t, a) == pc' = [pc EXCEPT ![t] = a]

\* The call is over, with an exception or with its caller done with the value.
Ends(t) ==
    /\ Goes(t, "idle")
    /\ name' = [name EXCEPT ![t] = NoKey] /\ my' = [my EXCEPT ![t] = None]
    /\ start' = [start EXCEPT ![t] = 0] /\ got' = [got EXCEPT ![t] = None]
    /\ op' = [op EXCEPT ![t] = "get"]

Cached == {k \in Key : dict[k] # None}

\* A thread waits for the lock of the cache while it has it; nobody gets it any more.
Stuck == \E t \in Thread : At(t, "stuck")

\* The entries that nothing refers to, and the one that Entry() makes next.
Unused == {e \in Entry : /\ e \notin Range(lru) /\ \A k \in Key : dict[k] # e
                         /\ \A t \in Thread : my[t] # e}
Free == CHOOSE e \in Unused : TRUE

\* The file changes.
Modify(k) ==
    /\ k \in conf.changing /\ file[k] < MaxVersion
    /\ file' = [file EXCEPT ![k] = @ + 1]
    /\ UNCHANGED <<conf, dict, lru, entry, holder, thread>>

-----------------------------------------------------------------------------
(* _get_entry(), all of it under the lock of the cache.                    *)

Starts(t, o, k, e) ==
    /\ op' = [op EXCEPT ![t] = o] /\ name' = [name EXCEPT ![t] = k]
    /\ my' = [my EXCEPT ![t] = e] /\ start' = [start EXCEPT ![t] = file[k]]
    /\ Goes(t, "wait") /\ UNCHANGED got

\* The access list without an entry, which it links once.
Unlinked(list, e) ==
    IF e \in Range(list) THEN RemoveAt(list, CHOOSE i \in DOMAIN list : list[i] = e) ELSE list

\* _access(): the entry is the most recently used one now.
Access(list, e) == IF conf.max = 0 THEN list ELSE Append(Unlinked(list, e), e)

Hit(t, o, k) ==
    /\ dict[k] # None
    /\ lru' = Access(lru, dict[k])
    /\ Starts(t, o, k, dict[k])
    /\ UNCHANGED <<dict, entry>>

\* Fault: the discarded entry stays in the dict.
CheckLruListOnly(t, o, k, e, d, list) ==
    IF conf.max = 0 \/ Cardinality({x \in Key : d[x] # None}) <= conf.max
    THEN dict' = d /\ lru' = list /\ Starts(t, o, k, e)
    ELSE lru' = Tail(list) /\ dict' = d /\ Starts(t, o, k, e)

\* _checklru(): with too many entries the least recently used one goes, by its key.  If an
\* entry of that key was deleted before, this is a KeyError, or discards its successor.
CheckLru(t, o, k, e, d, list) ==
    IF conf.max = 0 \/ Cardinality({x \in Key : d[x] # None}) <= conf.max
    THEN dict' = d /\ lru' = list /\ Starts(t, o, k, e)
    ELSE LET old == IF Head(list) = e THEN k ELSE entry[Head(list)].key
         IN /\ lru' = Tail(list)
            /\ IF d[old] # None THEN dict' = [d EXCEPT ![old] = None] /\ Starts(t, o, k, e)
               ELSE dict' = d /\ UNCHANGED <<pc, op, name, my, start, got>>

Miss(t, o, k) ==
    /\ dict[k] = None /\ Unused # {}
    /\ entry' = [entry EXCEPT ![Free] = [Blank EXCEPT !.key = k]]
    /\ CheckLru(t, o, k, Free, [dict EXCEPT ![k] = Free], Access(lru, Free))

\* cache[k], and cache[k] = value.
Call(t, o, k) ==
    /\ At(t, "idle") /\ calls < MaxCalls /\ ~Stuck
    /\ o = "set" => conf.sets
    /\ Hit(t, o, k) \/ Miss(t, o, k)
    /\ calls' = calls + 1
    /\ UNCHANGED <<conf, file, holder>>

-----------------------------------------------------------------------------
(* _checkitem(), under the lock of the entry.                              *)

\* The lock is free.  What is set is as new as the file.
Acquire(t) ==
    /\ At(t, "wait") /\ holder[my[t]] = NoThread
    /\ holder' = [holder EXCEPT ![my[t]] = t]
    /\ IF op[t] = "set" THEN Goes(t, "pack") /\ got' = [got EXCEPT ![t] = file[name[t]]]
       ELSE Goes(t, "check") /\ UNCHANGED got
    /\ UNCHANGED <<conf, file, dict, lru, entry, op, name, my, start, calls>>

Released(t) == holder' = [holder EXCEPT ![my[t]] = NoThread]
Value(t) == entry[my[t]].val

\* Whether check() says that a value must be built: never of a value that is there, unless
\* the cache looks at the file.
Stale(t) ==
    \/ Value(t) = None
    \/ conf.kind = "file" /\ conf.reload /\ entry[my[t]].time # file[name[t]]

\* check() stores the time it found and opens the file.  entry.failed marks that this time
\* is not that of the value.
Stamped(t) ==
    entry' = [entry EXCEPT ![my[t]].time = IF conf.kind = "file" THEN file[name[t]] ELSE @,
                           ![my[t]].failed = TRUE]

CheckStale(t) ==
    /\ At(t, "check") /\ Stale(t)
    /\ Stamped(t)
    /\ Goes(t, "build")
    /\ UNCHANGED <<conf, file, dict, lru, holder, op, name, my, start, got, calls>>

\* Fault: the time is read when the value has been built.
BuildStampsLate(t) ==
    /\ At(t, "build")
    /\ got' = [got EXCEPT ![t] = file[name[t]]]
    /\ Goes(t, "pack")
    /\ \E v \in file[name[t]]..MaxVersion :
        /\ file' = [file EXCEPT ![name[t]] = v]
        /\ entry' = [entry EXCEPT ![my[t]].time = v]
    /\ UNCHANGED <<conf, dict, lru, holder, op, name, my, start, calls>>

\* build() reads the file, or computes a value; the file may have changed since check().
Build(t) ==
    /\ At(t, "build")
    /\ got' = [got EXCEPT ![t] = file[name[t]]]
    /\ Goes(t, "pack")
    /\ UNCHANGED <<conf, file, dict, lru, entry, holder, op, name, my, start, calls>>

\* _pack(), commit(), and the lock is released.  __setitem__ returns nothing.
Pack(t) ==
    /\ At(t, "pack")
    /\ entry' = [entry EXCEPT ![my[t]].val = got[t], ![my[t]].failed = FALSE]
    /\ Released(t)
    /\ IF op[t] = "set" THEN Ends(t) ELSE Goes(t, "got") /\ UNCHANGED <<op, name, my, start, got>>
    /\ UNCHANGED <<conf, file, dict, lru, calls>>

\* The value is there, and fresh.
CheckFresh(t) ==
    /\ At(t, "check") /\ ~Stale(t)
    /\ Released(t)
    /\ got' = [got EXCEPT ![t] = Value(t)] /\ Goes(t, "got")
    /\ UNCHANGED <<conf, file, dict, lru, entry, op, name, my, start, calls>>

\* Fault: the lock is not released on an exception.
FailsLocked(t) ==
    /\ conf.fails
    /\ At(t, "build") \/ (At(t, "check") /\ conf.kind = "file" /\ conf.reload)
    /\ Ends(t)
    /\ UNCHANGED <<conf, file, dict, lru, entry, holder, calls>>

\* An exception in stat(), in open() or in build().  The time that check() stored stays.
Fails(t) ==
    /\ conf.fails
    /\ At(t, "build") \/ (At(t, "check") /\ conf.kind = "file" /\ conf.reload)
    /\ Released(t) /\ Ends(t)
    /\ UNCHANGED <<conf, file, dict, lru, entry, calls>>

\* The caller is done with the value.
LetGo(t) ==
    /\ At(t, "got") /\ Ends(t)
    /\ UNCHANGED <<conf, file, dict, lru, entry, holder, calls>>

-----------------------------------------------------------------------------
\* del cache[k]: the entry stays in the access list.
Delete(k) ==
    /\ conf.deletes /\ dict[k] # None /\ ~Stuck
    /\ dict' = [dict EXCEPT ![k] = None]
    /\ UNCHANGED <<conf, file, lru, entry, holder, thread>>

Clear ==
    /\ conf.deletes /\ Cached # {} /\ ~Stuck
    /\ dict' = [k \in Key |-> None] /\ lru' = <<>>
    /\ UNCHANGED <<conf, file, entry, holder, thread>>

\* The value of a WeakCache that no thread uses.
Unreferenced(e) ==
    /\ conf.kind = "weak"
    /\ entry[e].val # None /\ entry[e].key \in Key
    /\ e \in Range(lru) \cup Range(dict)
    /\ \A t \in Thread : ~(At(t, "got") /\ my[t] = e)

\* It is gone, and its callback runs on thread t, which waits for the lock of the cache.
CallsBack(t, e, at) ==
    /\ entry' = [entry EXCEPT ![e].val = None]
    /\ name' = [name EXCEPT ![t] = entry[e].key] /\ Goes(t, at)
    /\ UNCHANGED <<conf, file, dict, lru, holder, op, my, start, got>>

\* A thread lets go of the last reference, or the collector finds the value on it.  On a
\* thread within a call the callback would do no more than on another one, which is left out.
LastReference(t, e) ==
    /\ At(t, "idle") /\ Unreferenced(e)
    /\ CallsBack(t, e, "callback")
    /\ UNCHANGED calls

\* _get_entry() makes an entry, which makes the collector run and find the value of another
\* one: the callback waits for the lock of the cache on the thread that has it.
Collected(t, k, e) ==
    /\ conf.cycles
    /\ At(t, "idle") /\ calls < MaxCalls /\ ~Stuck
    /\ dict[k] = None /\ Unreferenced(e)
    /\ CallsBack(t, e, "stuck")
    /\ calls' = calls + 1

\* __delitem__() by the key, whichever entry has it by now; a KeyError is ignored.
Callback(t) ==
    /\ At(t, "callback") /\ ~Stuck
    /\ dict' = [dict EXCEPT ![name[t]] = None]
    /\ Ends(t)
    /\ UNCHANGED <<conf, file, lru, entry, holder, calls>>

Step(t) ==
    \/ Acquire(t) \/ CheckStale(t) \/ CheckFresh(t) \/ Build(t) \/ Pack(t) \/ Fails(t)
    \/ LetGo(t) \/ Callback(t)

Next ==
    \/ \E k \in Key : Modify(k) \/ Delete(k)
    \/ Clear
    \/ \E t \in Thread :
        \/ \E k \in Key, o \in {"get", "set"} : Call(t, o, k)
        \/ \E e \in Entry : LastReference(t, e) \/ \E k \in Key : Collected(t, k, e)
        \/ Step(t)

Spec == Init /\ [][Next]_vars

\* Threads go on; the lock of an entry is not fair, but calls are bounded.
FairSpec == Spec /\ \A t \in Thread : WF_vars(Step(t))

-----------------------------------------------------------------------------
TypeOK ==
    /\ conf \in Configs
    /\ file \in [Key -> 1..MaxVersion]
    /\ dict \in [Key -> Entry \cup {None}] /\ lru \in Seq(Entry)
    /\ entry \in [Entry -> [key : Key \cup {NoKey}, val : 0..MaxVersion, time : 0..MaxVersion,
                            failed : BOOLEAN]]
    /\ holder \in [Entry -> Thread \cup {NoThread}]
    /\ pc \in [Thread -> {"idle", "wait", "check", "build", "pack", "got", "callback", "stuck"}]
    /\ op \in [Thread -> {"get", "set"}] /\ name \in [Thread -> Key \cup {NoKey}]
    /\ my \in [Thread -> Entry \cup {None}]
    /\ start \in [Thread -> 0..MaxVersion] /\ got \in [Thread -> 0..MaxVersion]
    /\ calls \in 0..MaxCalls

\* A value that a file cache returns is not older than the file was when it was asked for,
\* whatever changes while the value is built, discarded and built again (class FileCache);
\* but after a build that failed the old value is taken for fresh.
Answers(t) == ~At(t, "got") /\ At(t, "got")'
Fresh ==
    [][conf.kind = "file" /\ conf.reload =>
        \A t \in Thread : Answers(t) => entry'[my[t]].failed \/ got'[t] >= start[t]]_vars

\* No two threads check or build a value of one name (the docstrings of check() and build():
\* "properly isolated"), as long as no entry is discarded or deleted.
Isolated ==
    conf.max = 0 /\ conf.kind # "weak" /\ ~conf.deletes =>
        \A t, u \in Thread :
            t # u /\ {pc[t], pc[u]} \subseteq {"check", "build", "pack"} => name[t] # name[u]

\* Without deletions the dict and the access list have the same entries, each under its key,
\* and there are not more than the limit.
Agree ==
    conf.max > 0 /\ conf.kind # "weak" /\ ~conf.deletes =>
        /\ Range(lru) = {dict[k] : k \in Cached} /\ IsInjective(lru)
        /\ \A k \in Cached : entry[dict[k]].key = k
        /\ Cardinality(Cached) <= conf.max

\* Threads that share a cache keep apart, and what it keeps is what it lists.
WellKept == Isolated /\ Agree

\* Every call and every callback comes to its end, also when another call of the same name
\* fails, unless the collector ran under the lock of the cache.
CallReturns ==
    \A t \in Thread : pc[t] \in {"wait", "callback"} ~> At(t, "idle") \/ Stuck
=============================================================================
