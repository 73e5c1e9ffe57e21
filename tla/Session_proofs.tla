--------------------------- MODULE Session_proofs ---------------------------
(***************************************************************************)
(* Proofs about Session, for any number of workers and session ids, any    *)
(* hash of the ids to mutexes, any class and use of sessions: _locked says *)
(* who holds the mutex of a session id, and with locking on no two session *)
(* objects have one id. The bound on saves plays no part.                  *)
(***************************************************************************)
EXTENDS SessionLocking, FiniteSetTheorems, TLAPS

-----------------------------------------------------------------------------
(* The inductive invariant.                                                *)

SessionObject == [sid : Sid \cup {NoSid}, locked : BOOLEAN, invalid : BOOLEAN,
                  base : Nat, sweep : BOOLEAN, again : BOOLEAN]

Points == {"idle", "lock", "renew", "locknew", "relock", "op", "in", "handler",
           "dbmsweep", "sweeping", "memsweep", "end"}

\* The types the locks depend on, TypeOK without the bounds.
Types ==
    /\ conf \in Configs
    /\ pc \in [Worker -> Points]
    /\ sess \in [Worker -> SessionObject]
    /\ mutex \in [Slots \cup {0} -> Worker \cup {NoWorker}]
    /\ store \in [Sid -> [ver : Nat, expired : BOOLEAN]]
    /\ saves \in Nat

\* What a session object o is like at the point l of its request.
LocalAt(l, o) ==
    /\ l \notin {"idle", "renew"} \/ o.locked => o.sid \in Sid
    /\ l \in {"idle", "lock", "locknew", "relock"} => ~o.locked
    /\ l = "idle" => o.sid = NoSid
    /\ ~LockOn /\ o.locked => Kind = "file" /\ l = "in"
    /\ Locking => ~o.again /\ l # "relock"
    /\ Locking /\ l \notin {"idle", "lock", "renew", "locknew"} => o.locked

Local(w) == LocalAt(pc[w], sess[w])

IInv == Types /\ LockedIsHeld /\ \A w \in Worker : Local(w)

-----------------------------------------------------------------------------
(* Ids have mutexes, none of which is that of the dbm file.                *)
LEMMA SlotType ==
    /\ \A s \in Sid : SlotOf[s] \in Slots
    /\ 0 \notin Slots
BY SlotAssumption DEF Slots

\* What a step of w may do to the mutexes of sessions: nothing, take that of its id,
\* or release it.
Keeps(w, o) ==
    /\ \A m \in Slots : mutex'[m] = mutex[m]
    /\ o.locked <=> sess[w].locked
    /\ o.locked => o.sid = sess[w].sid

Takes(w, o) ==
    /\ sess[w].sid \in Sid
    /\ mutex[slot(w)] = NoWorker
    /\ mutex' = [mutex EXCEPT ![slot(w)] = w]
    /\ o.locked /\ o.sid = sess[w].sid

Releases(w, o) ==
    /\ sess[w].locked
    /\ mutex' = [mutex EXCEPT ![slot(w)] = NoWorker]
    /\ ~o.locked

(* Such a step keeps LockedIsHeld.                                         *)
LEMMA StepHeld ==
    ASSUME IInv, NEW w \in Worker, NEW o \in SessionObject,
           sess' = [sess EXCEPT ![w] = o],
           Keeps(w, o) \/ Takes(w, o) \/ Releases(w, o)
    PROVE  LockedIsHeld'
<1> USE DEF IInv, Types
<1>1. \A v \in Worker : sess'[v] = IF v = w THEN o ELSE sess[v]
  OBVIOUS
<1>2. \A v \in Worker : \A m \in Slots : mutex[m] = v <=> sess[v].locked /\ m = slot(v)
  BY DEF LockedIsHeld
<1>3. SUFFICES ASSUME NEW v \in Worker, NEW m \in Slots
               PROVE  mutex'[m] = v <=> sess'[v].locked /\ m = SlotOf[sess'[v].sid]
  BY DEF LockedIsHeld, slot
<1>4. CASE Keeps(w, o)
  BY <1>1, <1>2, <1>4 DEF Keeps, slot
<1>5. CASE Takes(w, o)
  <2>1. slot(w) \in Slots
    BY <1>5, SlotType DEF Takes, slot
  <2>2. mutex'[m] = IF m = slot(w) THEN w ELSE mutex[m]
    BY <1>5, <2>1 DEF Takes
  <2>3. CASE v = w
    BY <1>1, <1>2, <1>5, <2>2, <2>3, NoneAssumption DEF Takes, slot
  <2>4. CASE v # w
    BY <1>1, <1>2, <1>5, <2>2, <2>4, NoneAssumption DEF Takes, slot
  <2> QED
    BY <2>3, <2>4
<1>6. CASE Releases(w, o)
  <2>1. slot(w) \in Slots
    BY <1>6, SlotType DEF Releases, slot, Local, LocalAt
  <2>2. mutex'[m] = IF m = slot(w) THEN NoWorker ELSE mutex[m]
    BY <1>6, <2>1 DEF Releases
  <2>3. mutex[slot(w)] = w
    BY <1>2, <1>6, <2>1 DEF Releases
  <2>4. CASE v = w
    BY <1>1, <1>2, <1>6, <2>2, <2>4, NoneAssumption DEF Releases, slot
  <2>5. CASE v # w
    BY <1>1, <1>2, <2>2, <2>3, <2>5, NoneAssumption DEF slot
  <2> QED
    BY <2>4, <2>5
<1> QED
  BY <1>4, <1>5, <1>6

(* A step of w that also respects the types and the point it leads to      *)
(* keeps the invariant.                                                    *)
LEMMA StepIInv ==
    ASSUME IInv, NEW w \in Worker, NEW o \in SessionObject, NEW l \in Points,
           sess' = [sess EXCEPT ![w] = o], pc' = [pc EXCEPT ![w] = l], conf' = conf,
           Keeps(w, o) \/ Takes(w, o) \/ Releases(w, o),
           LocalAt(l, o),
           mutex' \in [Slots \cup {0} -> Worker \cup {NoWorker}],
           store' \in [Sid -> [ver : Nat, expired : BOOLEAN]],
           saves' \in Nat
    PROVE  IInv'
<1>1. Types'
  BY DEF IInv, Types
<1>2. LockedIsHeld'
  BY StepHeld
<1>3. ASSUME NEW v \in Worker PROVE Local(v)'
  <2>1. CASE v = w
    <3>1. pc'[v] = l /\ sess'[v] = o
      BY <2>1 DEF IInv, Types
    <3> QED
      BY <3>1 DEF Local, LocalAt, LockOn, Kind, Locking, UserUnlocks
  <2>2. CASE v # w
    <3>1. pc'[v] = pc[v] /\ sess'[v] = sess[v] /\ Local(v)
      BY <2>2 DEF IInv, Types
    <3> QED
      BY <3>1 DEF Local, LocalAt, LockOn, Kind, Locking, UserUnlocks
  <2> QED
    BY <2>1, <2>2
<1> QED
  BY <1>1, <1>2, <1>3 DEF IInv

\* A step that leaves the store alone.
Aside == UNCHANGED <<conf, store, saves>>

(* A step of w that leaves its object, all mutexes of sessions and the     *)
(* store alone.                                                            *)
LEMMA MoveIInv ==
    ASSUME IInv, NEW w \in Worker, NEW l \in Points,
           Goto(w, l), UNCHANGED sess, Aside,
           LocalAt(l, sess[w]),
           \/ UNCHANGED mutex
           \/ \E v \in {w, NoWorker} : mutex' = [mutex EXCEPT ![0] = v]
    PROVE  IInv'
<1>1. sess' = [sess EXCEPT ![w] = sess[w]] /\ sess[w] \in SessionObject
  BY DEF IInv, Types
<1>2. Keeps(w, sess[w])
  BY SlotType DEF Keeps, IInv, Types
<1>3. mutex' \in [Slots \cup {0} -> Worker \cup {NoWorker}]
  BY DEF IInv, Types
<1>4. store' \in [Sid -> [ver : Nat, expired : BOOLEAN]] /\ saves' \in Nat
  BY DEF Aside, IInv, Types
<1> QED
  BY <1>1, <1>2, <1>3, <1>4, StepIInv DEF Goto, Aside

-----------------------------------------------------------------------------
LEMMA InitIInv == Init => IInv
<1> SUFFICES ASSUME Init PROVE IInv
  OBVIOUS
<1>1. NoObject \in SessionObject
  BY DEF NoObject, SessionObject
<1>2. Types
  BY <1>1 DEF Init, Types, Points, Absent
<1>3. \A w \in Worker : /\ pc[w] = "idle" /\ sess[w] = NoObject /\ ~sess[w].locked
                        /\ ~sess[w].again /\ sess[w].sid = NoSid
  BY DEF Init, NoObject
<1>4. LockedIsHeld
  BY <1>3, NoneAssumption DEF Init, LockedIsHeld
<1>5. \A w \in Worker : Local(w)
  BY <1>3 DEF Local, LocalAt
<1> QED
  BY <1>2, <1>4, <1>5 DEF IInv

LEMMA RequestIInv ==
    ASSUME IInv, NEW w \in Worker, NEW s \in Sid \cup {NoSid}, NEW sweep \in BOOLEAN,
           Request(w, s, sweep), UNCHANGED conf
    PROVE  IInv'
<1> DEFINE o == [NoObject EXCEPT !.sid = s, !.sweep = sweep]
           l == IF s = NoSid THEN "renew" ELSE "lock"
<1>1. o \in SessionObject /\ ~o.locked /\ ~o.again /\ o.sid = s
  BY DEF NoObject, SessionObject
<1>2. l \in Points /\ (l = "renew" \/ (l = "lock" /\ s \in Sid))
  BY DEF Points
<1>3. ~sess[w].locked
  BY DEF Request, IInv, Local, LocalAt
<1>4. sess' = [sess EXCEPT ![w] = o] /\ pc' = [pc EXCEPT ![w] = l]
      /\ UNCHANGED <<conf, mutex, store, saves>>
  BY DEF Request, Goto
<1>5. Keeps(w, o)
  BY <1>1, <1>3, <1>4 DEF Keeps
<1>6. LocalAt(l, o)
  BY <1>1, <1>2 DEF LocalAt
<1> HIDE DEF o, l
<1> QED
  BY <1>1, <1>2, <1>4, <1>5, <1>6, StepIInv DEF IInv, Types

LEMMA LockIInv ==
    ASSUME IInv, NEW w \in Worker, Lock(w), UNCHANGED conf
    PROVE  IInv'
<1> DEFINE l == IF pc[w] = "lock" THEN "op" ELSE "handler"
<1>1. l \in {"op", "handler"} /\ l \in Points
  BY DEF Points
<1>2. sess[w] \in SessionObject /\ sess[w].sid \in Sid /\ LocalAt(pc[w], sess[w])
      /\ pc[w] \in {"lock", "locknew", "relock"}
  BY DEF Lock, IInv, Types, Local, LocalAt
<1>3. Goto(w, l) /\ Aside
  BY DEF Lock, Aside
<1>4. CASE LockOn
  <2> DEFINE o == [sess[w] EXCEPT !.locked = TRUE, !.again = pc[w] = "relock"]
  <2>1. o \in SessionObject /\ o.locked /\ o.sid = sess[w].sid /\ o.again = (pc[w] = "relock")
    BY <1>2 DEF SessionObject
  <2>2. sess' = [sess EXCEPT ![w] = o]
    BY <1>4 DEF Lock, IInv, Types
  <2>3. Takes(w, o)
    BY <1>2, <1>4, <2>1 DEF Lock, Takes
  <2>4. LocalAt(l, o)
    BY <1>1, <1>2, <1>4, <2>1 DEF LocalAt
  <2>5. mutex' \in [Slots \cup {0} -> Worker \cup {NoWorker}]
    BY <2>3 DEF Takes, IInv, Types
  <2> HIDE DEF o, l
  <2> QED
    BY <1>1, <1>3, <2>1, <2>2, <2>3, <2>4, <2>5, StepIInv DEF Goto, Aside, IInv, Types
<1>5. CASE ~LockOn
  <2>1. LocalAt(l, sess[w])
    BY <1>1, <1>2, <1>5 DEF LocalAt, Locking
  <2>2. UNCHANGED <<sess, mutex>>
    BY <1>5 DEF Lock
  <2> HIDE DEF l
  <2> QED
    BY <1>1, <1>3, <2>1, <2>2, MoveIInv
<1> QED
  BY <1>4, <1>5

(* A step that unlocks the session of w, if it is locked, and leads to l.  *)
LEMMA UnlockIInv ==
    ASSUME IInv, NEW w \in Worker, NEW o \in SessionObject, NEW l \in Points,
           sess' = [sess EXCEPT ![w] = o], Goto(w, l), Aside,
           pc[w] \notin {"in"}, mutex' = UnlockMutex(w), ~o.locked,
           LocalAt(l, o)
    PROVE  IInv'
<1>1. LocalAt(pc[w], sess[w]) /\ sess[w] \in SessionObject
  BY DEF IInv, Types, Local
<1>2. CASE Unlocked(w)
  <2>1. Releases(w, o)
    BY <1>2 DEF Releases, UnlockMutex, Unlocked
  <2>2. mutex' \in [Slots \cup {0} -> Worker \cup {NoWorker}]
    BY <2>1 DEF Releases, IInv, Types
  <2> QED
    BY <2>1, <2>2, StepIInv DEF Goto, Aside, IInv, Types
<1>3. CASE ~Unlocked(w)
  <2>1. ~sess[w].locked
    BY <1>1, <1>3 DEF Unlocked, LocalAt
  <2>2. mutex' = mutex
    BY <1>3 DEF UnlockMutex
  <2>3. Keeps(w, o)
    BY <2>1, <2>2 DEF Keeps
  <2> QED
    BY <2>2, <2>3, StepIInv DEF Goto, Aside, IInv, Types
<1> QED
  BY <1>2, <1>3

LEMMA RenewIInv ==
    ASSUME IInv, NEW w \in Worker, Renew(w), UNCHANGED conf
    PROVE  IInv'
<1>1. PICK s \in Fresh : sess' = [sess EXCEPT ![w].sid = s, ![w].locked = @ /\ ~LockOn]
  BY DEF Renew
<1>2. s \in Sid
  BY DEF Fresh
<1>3. sess[w] \in SessionObject /\ LocalAt(pc[w], sess[w]) /\ pc[w] = "renew"
  BY DEF Renew, IInv, Types, Local
<1> DEFINE o == [sess[w] EXCEPT !.sid = s, !.locked = @ /\ ~LockOn]
<1>4. o \in SessionObject /\ o.sid = s /\ o.again = sess[w].again
  BY <1>2, <1>3 DEF SessionObject
<1>5. o.locked = (sess[w].locked /\ ~LockOn)
  BY <1>3 DEF SessionObject
<1>6. ~o.locked
  BY <1>3, <1>5 DEF LocalAt
<1>7. sess' = [sess EXCEPT ![w] = o]
  BY <1>1 DEF IInv, Types
<1>8. LocalAt("locknew", o)
  BY <1>2, <1>3, <1>4, <1>6 DEF LocalAt
<1>9. Goto(w, "locknew") /\ Aside /\ mutex' = UnlockMutex(w) /\ "locknew" \in Points
  BY DEF Renew, Aside, Points
<1> HIDE DEF o
<1> QED
  BY <1>3, <1>4, <1>6, <1>7, <1>8, <1>9, UnlockIInv

LEMMA EnterIInv ==
    ASSUME IInv, NEW w \in Worker, Enter(w), UNCHANGED conf
    PROVE  IInv'
<1>1. /\ sess[w] \in SessionObject /\ LocalAt("op", sess[w]) /\ pc[w] = "op"
      /\ Goto(w, "in") /\ Aside /\ "in" \in Points
  BY DEF Enter, IInv, Types, Local, Aside, Points
<1>2. CASE Kind = "file" /\ ~sess[w].locked
  <2> DEFINE o == [sess[w] EXCEPT !.locked = TRUE]
  <2>1. o \in SessionObject /\ o.locked /\ o.sid = sess[w].sid /\ o.again = sess[w].again
    BY <1>1 DEF SessionObject
  <2>2. sess' = [sess EXCEPT ![w] = o]
    BY <1>2 DEF Enter, IInv, Types
  <2>3. Takes(w, o)
    BY <1>1, <1>2, <2>1 DEF Enter, Takes, LocalAt
  <2>4. LocalAt("in", o)
    BY <1>1, <1>2, <2>1 DEF LocalAt
  <2>5. mutex' \in [Slots \cup {0} -> Worker \cup {NoWorker}]
    BY <2>3 DEF Takes, IInv, Types
  <2> HIDE DEF o
  <2> QED
    BY <1>1, <2>1, <2>2, <2>3, <2>4, <2>5, StepIInv DEF Goto, Aside, IInv, Types
<1>3. CASE ~(Kind = "file" /\ ~sess[w].locked)
  <2>1. UNCHANGED sess /\ (UNCHANGED mutex \/ mutex' = [mutex EXCEPT ![0] = w])
    BY <1>3 DEF Enter
  <2>2. LocalAt("in", sess[w])
    BY <1>1 DEF LocalAt
  <2> QED
    BY <1>1, <2>1, <2>2, MoveIInv
<1> QED
  BY <1>2, <1>3

(* The end of an access to the store.                                      *)
LEMMA LeaveIInv ==
    ASSUME IInv, NEW w \in Worker, NEW base \in Nat, NEW invalid \in BOOLEAN,
           NEW l \in {"handler", "renew"},
           pc[w] = "in", Leave(w, base, invalid), Goto(w, l), UNCHANGED conf,
           store' \in [Sid -> [ver : Nat, expired : BOOLEAN]], saves' \in Nat
    PROVE  IInv'
<1>1. sess[w] \in SessionObject /\ LocalAt("in", sess[w]) /\ l \in Points
  BY DEF IInv, Types, Local, Points
<1> DEFINE o == [sess[w] EXCEPT !.base = base, !.invalid = invalid,
                                !.locked = @ /\ ~FileUnlocks(w)]
<1>2. o \in SessionObject /\ o.sid = sess[w].sid /\ o.again = sess[w].again
  BY <1>1 DEF SessionObject
<1>3. o.locked = (sess[w].locked /\ ~FileUnlocks(w))
  BY <1>1 DEF SessionObject
<1>4. sess' = [sess EXCEPT ![w] = o]
  BY DEF Leave, IInv, Types
<1>5. LocalAt(l, o)
  BY <1>1, <1>2, <1>3 DEF LocalAt, FileUnlocks, Locking
<1>6. CASE FileUnlocks(w)
  <2>1. Releases(w, o)
    BY <1>3, <1>6 DEF Releases, Leave, LeaveMutex, FileUnlocks
  <2>2. mutex' \in [Slots \cup {0} -> Worker \cup {NoWorker}]
    BY <2>1 DEF Releases, IInv, Types
  <2> HIDE DEF o
  <2> QED
    BY <1>1, <1>2, <1>4, <1>5, <2>1, <2>2, StepIInv DEF Goto
<1>7. CASE ~FileUnlocks(w)
  <2>1. mutex' = mutex \/ mutex' = [mutex EXCEPT ![0] = NoWorker]
    BY <1>7 DEF Leave, LeaveMutex
  <2>2. mutex' \in [Slots \cup {0} -> Worker \cup {NoWorker}]
    BY <2>1 DEF IInv, Types
  <2>3. Keeps(w, o)
    BY <1>2, <1>3, <1>7, <2>1, SlotType DEF Keeps, IInv, Types
  <2> HIDE DEF o
  <2> QED
    BY <1>1, <1>2, <1>4, <1>5, <2>2, <2>3, StepIInv DEF Goto
<1> QED
  BY <1>6, <1>7

LEMMA AccessIInv ==
    ASSUME IInv, NEW w \in Worker, Access(w), UNCHANGED conf
    PROVE  IInv'
<1>1. /\ sess[w] \in SessionObject /\ LocalAt(pc[w], sess[w])
      /\ store \in [Sid -> [ver : Nat, expired : BOOLEAN]] /\ saves \in Nat
  BY DEF IInv, Types, Local
<1>2. sess[w].base \in Nat /\ sess[w].invalid \in BOOLEAN
  BY <1>1 DEF SessionObject
<1>3. CASE Load(w)
  <2>1. pc[w] = "in" /\ sess[w].sid \in Sid
    BY <1>1, <1>3 DEF Load, In, LocalAt
  <2>2. store[sess[w].sid].ver \in Nat
    BY <1>1, <2>1
  <2> QED
    BY <1>1, <1>3, <2>1, <2>2, LeaveIInv DEF Load
<1>4. CASE LoadNothing(w)
  BY <1>1, <1>4, LeaveIInv DEF LoadNothing, In
<1>5. CASE Save(w)
  <2>1. pc[w] = "in" /\ saves + 1 \in Nat
    BY <1>1, <1>5 DEF Save, In
  <2>2. store' \in [Sid -> [ver : Nat, expired : BOOLEAN]] /\ saves' \in Nat
    BY <1>1, <1>5, <2>1 DEF Save
  <2> QED
    BY <1>2, <1>5, <2>1, <2>2, LeaveIInv DEF Save
<1>6. ASSUME NEW d \in {"delete", "invalidate"}, Delete(w, d) PROVE IInv'
  <2>1. store' \in [Sid -> [ver : Nat, expired : BOOLEAN]] /\ saves' \in Nat
    BY <1>1, <1>6 DEF Delete, Absent
  <2>2. (sess[w].invalid \/ d = "invalidate") \in BOOLEAN
    BY <1>2
  <2> QED
    BY <1>6, <2>1, <2>2, LeaveIInv DEF Delete, In
<1>7. CASE FileFails(w)
  <2>1. (IF op[w] = "save" THEN sess[w].base ELSE 0) \in Nat
    BY <1>2
  <2>2. (sess[w].invalid \/ op[w] = "invalidate") \in BOOLEAN
    BY <1>2
  <2> QED
    BY <1>1, <1>7, <2>1, <2>2, LeaveIInv DEF FileFails
<1>8. CASE DbmFails(w)
  <2>1. PICK l \in {"end", "dbmsweep", "memsweep"} : Goto(w, l)
    BY <1>8, ConfigAssumption DEF DbmFails, AfterHandler
  <2>2. l \in Points /\ LocalAt(l, sess[w])
    BY <1>1, <1>8, <2>1 DEF DbmFails, Points, LocalAt
  <2> QED
    BY <1>8, <2>1, <2>2, MoveIInv DEF DbmFails, Aside
<1> QED
  BY <1>3, <1>4, <1>5, <1>6, <1>7, <1>8 DEF Access

LEMMA CallIInv ==
    ASSUME IInv, NEW w \in Worker, NEW d \in {"save", "delete", "invalidate"},
           Call(w, d), UNCHANGED conf
    PROVE  IInv'
<1>1. LocalAt("op", sess[w]) /\ "op" \in Points
  BY DEF Call, IInv, Local, LocalAt, Points
<1> QED
  BY <1>1, MoveIInv DEF Call, Aside

LEMMA UserUnlockIInv ==
    ASSUME IInv, NEW w \in Worker, UserUnlock(w), UNCHANGED conf
    PROVE  IInv'
<1> DEFINE o == [sess[w] EXCEPT !.locked = FALSE]
<1>1. sess[w] \in SessionObject /\ LocalAt("handler", sess[w]) /\ pc[w] = "handler"
  BY DEF UserUnlock, IInv, Types, Local
<1>2. o \in SessionObject /\ ~o.locked /\ o.sid = sess[w].sid /\ o.again = sess[w].again
  BY <1>1 DEF SessionObject
<1>3. sess' = [sess EXCEPT ![w] = o] /\ Goto(w, "handler") /\ Aside /\ "handler" \in Points
  BY <1>1 DEF UserUnlock, IInv, Types, Goto, Aside, Points
<1>4. LocalAt("handler", o)
  BY <1>1, <1>2 DEF UserUnlock, LocalAt, Locking
<1>5. mutex' = UnlockMutex(w)
  BY DEF UserUnlock
<1> HIDE DEF o
<1> QED
  BY <1>1, <1>2, <1>3, <1>4, <1>5, UnlockIInv

LEMMA UserLockIInv ==
    ASSUME IInv, NEW w \in Worker, UserLock(w), UNCHANGED conf
    PROVE  IInv'
<1>1. LocalAt("relock", sess[w]) /\ "relock" \in Points
  BY DEF UserLock, IInv, Local, LocalAt, Locking, Points
<1> QED
  BY <1>1, MoveIInv DEF UserLock, Aside

LEMMA EndHandlerIInv ==
    ASSUME IInv, NEW w \in Worker, EndHandler(w), UNCHANGED conf
    PROVE  IInv'
<1>1. sess[w] \in SessionObject /\ LocalAt("handler", sess[w]) /\ pc[w] = "handler"
  BY DEF EndHandler, IInv, Types, Local
<1>2. PICK l \in {"end", "dbmsweep", "memsweep"} : Goto(w, l)
  BY ConfigAssumption DEF EndHandler, AfterHandler, IInv, Types, Kind
<1>3. l \in Points /\ Aside
  BY <1>2 DEF EndHandler, Points, Aside
<1>4. CASE sess[w].again
  <2> DEFINE o == [sess[w] EXCEPT !.locked = FALSE]
  <2>1. o \in SessionObject /\ ~o.locked /\ o.sid = sess[w].sid /\ o.again = sess[w].again
    BY <1>1 DEF SessionObject
  <2>2. sess' = [sess EXCEPT ![w] = o] /\ mutex' = UnlockMutex(w)
    BY <1>4 DEF EndHandler, IInv, Types
  <2>3. LocalAt(l, o)
    BY <1>1, <1>2, <1>4, <2>1 DEF LocalAt
  <2> HIDE DEF o
  <2> QED
    BY <1>1, <1>2, <1>3, <2>1, <2>2, <2>3, UnlockIInv
<1>5. CASE ~sess[w].again
  <2>1. LocalAt(l, sess[w])
    BY <1>1, <1>2 DEF LocalAt
  <2>2. UNCHANGED <<sess, mutex>>
    BY <1>5 DEF EndHandler
  <2> QED
    BY <1>2, <1>3, <2>1, <2>2, MoveIInv
<1> QED
  BY <1>4, <1>5

LEMMA DbmSweepEnterIInv ==
    ASSUME IInv, NEW w \in Worker, DbmSweepEnter(w), UNCHANGED conf
    PROVE  IInv'
<1>1. LocalAt("sweeping", sess[w]) /\ "sweeping" \in Points
  BY DEF DbmSweepEnter, IInv, Local, LocalAt, Points
<1> QED
  BY <1>1, MoveIInv DEF DbmSweepEnter, Aside

(* The cleanups of the store change no session object.                     *)
LEMMA SweepIInv ==
    ASSUME IInv, NEW w \in Worker, Sweep(w), UNCHANGED conf
    PROVE  IInv'
<1>1. PICK l \in {"end", "memsweep"} : Goto(w, l) /\ LocalAt(l, sess[w])
  <2>1. CASE DbmSweep(w) \/ DbmSweepFails(w) \/ MemSwept(w)
    <3>1. Goto(w, "end")
      BY <2>1 DEF DbmSweep, DbmSweepFails, MemSwept
    <3>2. LocalAt("end", sess[w])
      BY <2>1 DEF DbmSweep, DbmSweepFails, MemSwept, IInv, Local, LocalAt
    <3> QED
      BY <3>1, <3>2
  <2>2. CASE MemLook(w) \/ MemDelete(w)
    <3>1. pc[w] = "memsweep" /\ UNCHANGED pc
      BY <2>2 DEF MemLook, MemDelete
    <3>2. Goto(w, "memsweep") /\ LocalAt("memsweep", sess[w])
      BY <3>1 DEF Goto, IInv, Types, Local
    <3> QED
      BY <3>2
  <2> QED
    BY <2>1, <2>2 DEF Sweep
<1>2. UNCHANGED <<sess, saves>> /\ (UNCHANGED mutex \/ mutex' = [mutex EXCEPT ![0] = NoWorker])
  BY DEF Sweep, DbmSweep, DbmSweepFails, MemSwept, MemLook, MemDelete
<1>3. store' \in [Sid -> [ver : Nat, expired : BOOLEAN]]
  <2>1. Absent \in [ver : Nat, expired : BOOLEAN]
    BY DEF Absent
  <2>2. store \in [Sid -> [ver : Nat, expired : BOOLEAN]]
    BY DEF IInv, Types
  <2>3. CASE DbmSweep(w)
    BY <2>1, <2>2, <2>3 DEF DbmSweep
  <2>4. CASE MemDelete(w)
    BY <2>1, <2>2, <2>4 DEF MemDelete
  <2>5. CASE DbmSweepFails(w) \/ MemSwept(w) \/ MemLook(w)
    BY <2>2, <2>5 DEF DbmSweepFails, MemSwept, MemLook
  <2> QED
    BY <2>3, <2>4, <2>5 DEF Sweep
<1>4. sess' = [sess EXCEPT ![w] = sess[w]] /\ sess[w] \in SessionObject
  BY <1>2 DEF IInv, Types
<1>5. Keeps(w, sess[w]) /\ mutex' \in [Slots \cup {0} -> Worker \cup {NoWorker}]
  BY <1>2, SlotType DEF Keeps, IInv, Types
<1>6. l \in Points /\ saves' \in Nat
  BY <1>2 DEF Points, IInv, Types
<1> QED
  BY <1>1, <1>3, <1>4, <1>5, <1>6, StepIInv DEF Goto

LEMMA EndRequestIInv ==
    ASSUME IInv, NEW w \in Worker, EndRequest(w), UNCHANGED conf
    PROVE  IInv'
<1>1. NoObject \in SessionObject /\ ~NoObject.locked /\ ~NoObject.again /\ NoObject.sid = NoSid
  BY DEF NoObject, SessionObject
<1>2. LocalAt("idle", NoObject) /\ "idle" \in Points
  BY <1>1 DEF LocalAt, Points
<1> QED
  BY <1>1, <1>2, UnlockIInv DEF EndRequest, Aside

LEMMA ExpireIInv ==
    ASSUME IInv, NEW s \in Sid, Expire(s), UNCHANGED conf
    PROVE  IInv'
<1>1. store' \in [Sid -> [ver : Nat, expired : BOOLEAN]]
  BY DEF Expire, IInv, Types
<1> QED
  BY <1>1 DEF Expire, IInv, Types, LockedIsHeld, slot, Local, LocalAt, LockOn, Kind, Locking,
              UserUnlocks

LEMMA NextIInv == IInv /\ [Next /\ UNCHANGED conf]_<<conf, vars>> => IInv'
<1> SUFFICES ASSUME IInv, [Next /\ UNCHANGED conf]_<<conf, vars>> PROVE IInv'
  OBVIOUS
<1>1. CASE UNCHANGED <<conf, vars>>
  BY <1>1 DEF vars, IInv, Types, LockedIsHeld, slot, Local, LocalAt, LockOn, Kind, Locking,
              UserUnlocks
<1>2. CASE Next /\ UNCHANGED conf
  <2>1. ASSUME NEW w \in Worker, NEW s \in Sid \cup {NoSid}, NEW sweep \in BOOLEAN,
               Request(w, s, sweep)
        PROVE  IInv'
    BY <1>2, <2>1, RequestIInv
  <2>2. ASSUME NEW w \in Worker, Lock(w) \/ Renew(w) \/ Enter(w) \/ Access(w) PROVE IInv'
    BY <1>2, <2>2, LockIInv, RenewIInv, EnterIInv, AccessIInv
  <2>3. ASSUME NEW w \in Worker, NEW d \in {"save", "delete", "invalidate"}, Call(w, d)
        PROVE  IInv'
    BY <1>2, <2>3, CallIInv
  <2>4. ASSUME NEW w \in Worker, UserUnlock(w) \/ UserLock(w) \/ EndHandler(w) PROVE IInv'
    BY <1>2, <2>4, UserUnlockIInv, UserLockIInv, EndHandlerIInv
  <2>5. ASSUME NEW w \in Worker, DbmSweepEnter(w) \/ Sweep(w) \/ EndRequest(w) PROVE IInv'
    BY <1>2, <2>5, DbmSweepEnterIInv, SweepIInv, EndRequestIInv
  <2>6. ASSUME NEW s \in Sid, Expire(s) PROVE IInv'
    BY <1>2, <2>6, ExpireIInv
  <2> QED
    BY <1>2, <2>1, <2>2, <2>3, <2>4, <2>5, <2>6 DEF Next
<1> QED
  BY <1>1, <1>2

-----------------------------------------------------------------------------
(* The invariant holds at all times, however sessions are used.            *)
THEOREM InvariantHolds == Spec => []IInv
BY InitIInv, NextIInv, PTL DEF Spec

(* _locked is set just when the object holds the mutex of its id.          *)
THEOREM LockedTellsTruth == Spec => []LockedIsHeld
<1>1. IInv => LockedIsHeld
  BY DEF IInv
<1> QED
  BY InvariantHolds, <1>1, PTL

(* With locking on, no two session objects have one id.                    *)
THEOREM OneObject == Spec => []OneObjectPerSid
<1>1. ASSUME IInv PROVE OneObjectPerSid
  <2> SUFFICES ASSUME Locking, NEW v \in Worker, NEW w \in Worker,
                      Constructed(v), Constructed(w), sess[v].sid = sess[w].sid
               PROVE  v = w
    BY DEF OneObjectPerSid
  <2>1. ASSUME NEW u \in Worker, Constructed(u)
        PROVE  sess[u].locked /\ sess[u].sid \in Sid
    BY <1>1, <2>1 DEF IInv, Local, LocalAt, Constructed
  <2>2. sess[v].locked /\ sess[w].locked /\ slot(v) \in Slots /\ slot(v) = slot(w)
    BY <2>1, SlotType DEF slot
  <2>3. mutex[slot(v)] = v /\ mutex[slot(v)] = w
    BY <1>1, <2>2 DEF IInv, LockedIsHeld
  <2> QED
    BY <2>3
<1> QED
  BY InvariantHolds, <1>1, PTL

-----------------------------------------------------------------------------
(***************************************************************************)
(* Mutex 0 and waiting: as long as the dbm file can be opened nobody waits *)
(* in a circle, whatever the handlers do.                                  *)
(***************************************************************************)
DbmOpens == \A c \in Configs : ~(c.kind = "dbm" /\ c.fails)

\* Mutex 0 is held in a bracket around one access to the dbm file only.
Zero ==
    /\ DbmLockShort
    /\ \A w \in Worker : pc[w] \in {"dbmsweep", "sweeping"} => Kind = "dbm"
    /\ Kind # "dbm" => mutex[0] = NoWorker

\* The locking of sessions leaves mutex 0 alone.
LEMMA UnlockZero ==
    ASSUME IInv, NEW w \in Worker
    PROVE  UnlockMutex(w)[0] = mutex[0]
<1>1. CASE Unlocked(w)
  <2>1. sess[w].sid \in Sid
    BY <1>1 DEF IInv, Local, LocalAt, Unlocked
  <2>2. slot(w) \in Slots /\ 0 \notin Slots
    BY <2>1, SlotType DEF slot
  <2> QED
    BY <1>1, <2>2 DEF UnlockMutex, IInv, Types
<1> QED
  BY <1>1 DEF UnlockMutex

\* A step of w to the point l keeps Zero if it keeps mutex 0, takes it into a bracket or
\* releases it, and does not keep it on the way out.
LEMMA StepZero ==
    ASSUME IInv, Zero, NEW w \in Worker, NEW l \in Points, Goto(w, l), UNCHANGED conf,
           \/ mutex'[0] = mutex[0] /\ (mutex[0] = w => l \in {"in", "sweeping"})
           \/ mutex'[0] = w /\ l \in {"in", "sweeping"} /\ Kind = "dbm"
           \/ mutex'[0] = NoWorker,
           l \in {"dbmsweep", "sweeping"} => Kind = "dbm"
    PROVE  Zero'
<1>1. \A v \in Worker : pc'[v] = IF v = w THEN l ELSE pc[v]
  BY DEF Goto, IInv, Types
<1>2. Kind' = Kind
  BY DEF Kind
<1> QED
  BY <1>1, <1>2, NoneAssumption DEF Zero, DbmLockShort

LEMMA NextZero ==
    ASSUME DbmOpens, IInv, Zero, [Next /\ UNCHANGED conf]_<<conf, vars>>
    PROVE  Zero'
<1>1. CASE UNCHANGED <<conf, vars>>
  BY <1>1 DEF vars, Zero, DbmLockShort, Kind
<1>2. ASSUME NEW s \in Sid, Expire(s), UNCHANGED conf PROVE Zero'
  BY <1>2 DEF Expire, Zero, DbmLockShort, Kind
<1>3. ~(Kind = "dbm" /\ StoreFails)
  BY DEF DbmOpens, Kind, StoreFails, IInv, Types
<1>4. ASSUME NEW w \in Worker, UNCHANGED conf,
             \/ \E s \in Sid \cup {NoSid}, sweep \in BOOLEAN : Request(w, s, sweep)
             \/ Lock(w) \/ Renew(w) \/ UserUnlock(w) \/ UserLock(w) \/ EndRequest(w)
             \/ \E o \in {"save", "delete", "invalidate"} : Call(w, o)
      PROVE  Zero'
  <2>1. mutex[0] # w
    BY <1>4 DEF Request, Lock, Renew, UserUnlock, UserLock, EndRequest, Call, Zero, DbmLockShort
  <2>2. mutex'[0] = mutex[0]
    <3>1. CASE Lock(w)
      <4>1. slot(w) \in Slots /\ 0 \notin Slots
        BY <3>1, SlotType DEF Lock, slot, IInv, Local, LocalAt
      <4> QED
        BY <3>1, <4>1 DEF Lock, IInv, Types
    <3>2. CASE ~Lock(w)
      <4>1. mutex' = mutex \/ mutex' = UnlockMutex(w)
        BY <1>4, <3>2 DEF Request, Renew, UserUnlock, UserLock, EndRequest, Call
      <4> QED
        BY <4>1, UnlockZero
    <3> QED
      BY <3>1, <3>2
  <2>3. \E l \in Points \ {"dbmsweep", "sweeping"} : Goto(w, l)
    <3>1. CASE UserUnlock(w)
      BY <3>1 DEF UserUnlock, Goto, Points, IInv, Types
    <3>2. CASE ~UserUnlock(w)
      BY <1>4, <3>2 DEF Request, Lock, Renew, UserLock, EndRequest, Call, Points
    <3> QED
      BY <3>1, <3>2
  <2> QED
    BY <1>4, <2>1, <2>2, <2>3, StepZero
<1>5. ASSUME NEW w \in Worker, UNCHANGED conf, Enter(w) PROVE Zero'
  <2>1. mutex[0] # w /\ Goto(w, "in") /\ "in" \in Points
    BY <1>5 DEF Enter, Zero, DbmLockShort, Points
  <2>2. CASE Kind = "dbm"
    <3>1. mutex'[0] = w
      BY <1>5, <2>2 DEF Enter, IInv, Types
    <3> QED
      BY <1>5, <2>1, <2>2, <3>1, StepZero
  <2>3. CASE Kind # "dbm"
    <3>1. mutex'[0] = mutex[0]
      <4>1. CASE Kind = "file" /\ ~sess[w].locked
        <5>1. slot(w) \in Slots /\ 0 \notin Slots
          BY <1>5, SlotType DEF Enter, slot, IInv, Local, LocalAt
        <5> QED
          BY <1>5, <4>1, <5>1 DEF Enter, IInv, Types
      <4> QED
        BY <1>5, <2>3, <4>1 DEF Enter
    <3> QED
      BY <1>5, <2>1, <3>1, StepZero
  <2> QED
    BY <2>2, <2>3
<1>6. ASSUME NEW w \in Worker, UNCHANGED conf, Access(w) PROVE Zero'
  <2>1. pc[w] = "in" /\ mutex' = LeaveMutex(w) /\ \E l \in {"handler", "renew"} : Goto(w, l)
    BY <1>3, <1>6 DEF Access, Load, LoadNothing, Save, Delete, FileFails, DbmFails, Leave, In
  <2>2. CASE Kind = "dbm"
    <3>1. mutex'[0] = NoWorker
      BY <2>1, <2>2 DEF LeaveMutex, FileUnlocks, IInv, Types
    <3> QED
      BY <1>6, <2>1, <3>1, StepZero DEF Points
  <2>3. CASE Kind # "dbm"
    <3>1. mutex'[0] = mutex[0] /\ mutex[0] # w
      <4>1. sess[w].sid \in Sid
        BY <2>1 DEF IInv, Local, LocalAt
      <4>2. slot(w) \in Slots /\ 0 \notin Slots
        BY <4>1, SlotType DEF slot
      <4> QED
        BY <2>1, <2>3, <4>2, NoneAssumption DEF LeaveMutex, Zero, IInv, Types
    <3> QED
      BY <1>6, <2>1, <3>1, StepZero DEF Points
  <2> QED
    BY <2>2, <2>3
<1>7. ASSUME NEW w \in Worker, UNCHANGED conf, EndHandler(w) PROVE Zero'
  <2>1. mutex[0] # w /\ mutex'[0] = mutex[0]
    BY <1>7, UnlockZero DEF EndHandler, Zero, DbmLockShort
  <2>2. \E l \in {"end", "dbmsweep", "memsweep"} : Goto(w, l) /\ (l = "dbmsweep" => Kind = "dbm")
    BY <1>7, ConfigAssumption DEF EndHandler, AfterHandler, IInv, Types, Kind
  <2> QED
    BY <1>7, <2>1, <2>2, StepZero DEF Points
<1>8. ASSUME NEW w \in Worker, UNCHANGED conf, DbmSweepEnter(w) PROVE Zero'
  <2>1. Goto(w, "sweeping") /\ mutex'[0] = w /\ Kind = "dbm"
    BY <1>8 DEF DbmSweepEnter, Zero, IInv, Types
  <2> QED
    BY <1>8, <2>1, StepZero DEF Points
<1>9. ASSUME NEW w \in Worker, UNCHANGED conf, Sweep(w) PROVE Zero'
  <2>1. ~DbmSweepFails(w)
    BY <1>3 DEF DbmSweepFails, Zero
  <2>2. CASE DbmSweep(w)
    <3>1. Goto(w, "end") /\ mutex'[0] = NoWorker
      BY <2>2 DEF DbmSweep, IInv, Types
    <3> QED
      BY <1>9, <3>1, StepZero DEF Points
  <2>3. CASE MemLook(w) \/ MemDelete(w) \/ MemSwept(w)
    <3>1. mutex[0] # w /\ mutex' = mutex /\ \E l \in {"memsweep", "end"} : Goto(w, l)
      BY <2>3 DEF MemLook, MemDelete, MemSwept, Zero, DbmLockShort, Goto, IInv, Types
    <3> QED
      BY <1>9, <3>1, StepZero DEF Points
  <2> QED
    BY <1>9, <2>1, <2>2, <2>3 DEF Sweep
<1> QED
  BY <1>1, <1>2, <1>4, <1>5, <1>6, <1>7, <1>8, <1>9 DEF Next

(* A request that waits for a session holds no mutex, and one that waits   *)
(* for the dbm file waits for a request that waits for nothing.            *)
LEMMA NoCircle == IInv /\ Zero => NoCircularWait
<1> SUFFICES ASSUME IInv, Zero PROVE NoCircularWait
  OBVIOUS
<1>1. \A w \in Worker : \A m \in Slots : mutex[m] = w => sess[w].locked
  BY DEF IInv, LockedIsHeld
<1>2. \A w \in Worker : mutex[0] = w => Wants(w) = {} /\ pc[w] # "idle"
  BY DEF Zero, DbmLockShort, Wants
<1>3. IdleHoldsNothing
  <2> SUFFICES ASSUME NEW w \in Worker, pc[w] = "idle", NEW m \in Slots \cup {0} PROVE mutex[m] # w
    BY DEF IdleHoldsNothing, IInv, Types
  <2>1. ~sess[w].locked
    BY DEF IInv, Local, LocalAt
  <2> QED
    BY <1>1, <1>2, <2>1
<1>4. ASSUME NEW w \in Worker, NEW m \in Wants(w) PROVE m = 0 \/ (m \in Slots /\ ~sess[w].locked)
  <2>1. pc[w] \in {"lock", "locknew", "relock", "op"} => sess[w].sid \in Sid
    BY DEF IInv, Local, LocalAt
  <2>2. pc[w] \in {"lock", "locknew", "relock"} => ~sess[w].locked
    BY DEF IInv, Local, LocalAt
  <2>3. m = 0 \/ (m = slot(w) /\ sess[w].sid \in Sid /\ ~sess[w].locked)
    BY <2>1, <2>2 DEF Wants
  <2> QED
    BY <2>3, SlotType DEF slot
<1>5. ASSUME NEW W \in SUBSET Worker, W # {},
             \A w \in W : ~\A m \in Wants(w) : mutex[m] \notin W
      PROVE  FALSE
  <2>1. PICK w \in W : TRUE
    BY <1>5
  <2>2. PICK m \in Wants(w) : mutex[m] \in W
    BY <1>5
  <2>3. CASE m = 0
    <3>1. Wants(mutex[0]) = {}
      BY <1>2, <2>2, <2>3
    <3> QED
      BY <1>5, <2>2, <2>3, <3>1
  <2>4. CASE m \in Slots
    <3>1. sess[mutex[m]].locked
      BY <1>1, <2>2, <2>4
    <3>2. PICK k \in Wants(mutex[m]) : mutex[k] \in W
      BY <1>5, <2>2
    <3>3. k = 0
      BY <1>4, <2>2, <3>1, <3>2
    <3>4. Wants(mutex[0]) = {}
      BY <1>2, <3>2, <3>3
    <3> QED
      BY <1>5, <3>2, <3>3, <3>4
  <2> QED
    BY <1>4, <2>2, <2>3, <2>4
<1> QED
  BY <1>3, <1>5 DEF NoCircularWait

LEMMA ZeroHolds == DbmOpens => (Spec => []Zero)
<1> SUFFICES ASSUME DbmOpens PROVE Spec => []Zero
  OBVIOUS
<1>1. Init => Zero
  BY NoneAssumption DEF Init, Zero, DbmLockShort
<1>2. IInv /\ Zero /\ [Next /\ UNCHANGED conf]_<<conf, vars>> => Zero'
  BY NextZero
<1> QED
  BY InvariantHolds, <1>1, <1>2, PTL DEF Spec

(* As long as the dbm file can be opened, requests never wait in a circle, *)
(* nor for one that is over.                                               *)
THEOREM WaitEnds == DbmOpens => (Spec => []NoCircularWait)
<1> SUFFICES ASSUME DbmOpens PROVE Spec => []NoCircularWait
  OBVIOUS
<1> QED
  BY InvariantHolds, ZeroHolds, NoCircle, PTL

(* As long as the dbm file can be opened, its mutex is held for one access *)
(* or one sweep of it and no longer, whatever handlers do (the comment in  *)
(* psp.py).                                                                *)
THEOREM DbmMutexShort == DbmOpens => (Spec => []DbmLockShort)
<1> SUFFICES ASSUME DbmOpens PROVE Spec => []DbmLockShort
  OBVIOUS
<1>1. Zero => DbmLockShort
  BY DEF Zero
<1> QED
  BY ZeroHolds, <1>1, PTL

-----------------------------------------------------------------------------
(***************************************************************************)
(* What sessions hold, with locking on and a store that works.             *)
(***************************************************************************)
StoreWorks == \A c \in Configs : c.lock => ~c.fails

Ops == {"load", "save", "delete", "invalidate"}

Named == op \in [Worker -> Ops] /\ dead \subseteq Sid

LEMMA OpsStay ==
    ASSUME IInv, Named, [Next /\ UNCHANGED conf]_<<conf, vars>>
    PROVE  Named'
<1>1. CASE UNCHANGED <<conf, vars>>
  BY <1>1 DEF vars, Named
<1>2. ASSUME NEW s \in Sid, Expire(s) PROVE UNCHANGED <<op, dead>>
  BY <1>2 DEF Expire
<1>3. ASSUME NEW w \in Worker,
             \/ \E s \in Sid \cup {NoSid}, sweep \in BOOLEAN : Request(w, s, sweep)
             \/ Lock(w) \/ Renew(w) \/ Enter(w) \/ UserUnlock(w) \/ UserLock(w) \/ EndHandler(w)
             \/ \E o \in {"save", "delete", "invalidate"} : Call(w, o)
             \/ DbmSweepEnter(w) \/ Sweep(w) \/ EndRequest(w)
      PROVE  dead' = dead /\ \E p \in Ops : op' = op \/ op' = [op EXCEPT ![w] = p]
  BY <1>3 DEF Request, Lock, Renew, Enter, UserUnlock, UserLock, EndHandler, Call, DbmSweepEnter,
              Sweep, DbmSweep, DbmSweepFails, MemLook, MemDelete, MemSwept, EndRequest, Ops
<1>4. ASSUME NEW w \in Worker, Access(w)
      PROVE  op' = op /\ dead' \in {dead, dead \cup {sess[w].sid}} /\ sess[w].sid \in Sid
  <2>1. pc[w] = "in"
    BY <1>4 DEF Access, Load, LoadNothing, Save, Delete, FileFails, DbmFails, In
  <2>2. sess[w].sid \in Sid
    BY <2>1 DEF IInv, Local, LocalAt
  <2>3. op' = op
    BY <1>4 DEF Access, Load, LoadNothing, Save, Delete, FileFails, DbmFails, Leave
  <2>4. dead' \in {dead, dead \cup {sess[w].sid}}
    BY <1>4 DEF Access, Load, LoadNothing, Save, Delete, FileFails, DbmFails
  <2> QED
    BY <2>2, <2>3, <2>4
<1> QED
  BY <1>1, <1>2, <1>3, <1>4 DEF Next, Named

\* A constructor that has the id of a cookie, and has not loaded the session yet or not
\* found it.
VisitingAt(l, p) == l \in {"lock", "renew"} \/ (l \in {"op", "in"} /\ p = "load")

\* From here on the session is that of the request.
OwningAt(l, p) == \/ l \in {"handler", "dbmsweep", "sweeping", "memsweep", "end"}
                  \/ l \in {"op", "in"} /\ p # "load"

Visiting(w) == VisitingAt(pc[w], op[w])

\* A new id that is about to be locked is that of no session, and none that others visit
\* becomes one meanwhile.
NewId(w) == pc[w] = "locknew" =>
    /\ store[sess[w].sid].ver = 0 /\ sess[w].sid \notin dead
    /\ \A u \in Worker : u # w /\ sess[u].sid = sess[w].sid => Visiting(u)

\* Nobody saves an invalidated session.
Dead == \A s \in dead :
    /\ store[s].ver = 0
    /\ \A w \in Worker : sess[w].sid = s => Visiting(w) \/ sess[w].invalid

\* What is in the store is what the session object holds, or gone.
Based(w) == Constructed(w) => store[sess[w].sid].ver \in {0, sess[w].base}

Stored ==
    /\ Named
    /\ Locking =>
         /\ \A w \in Worker : pc[w] \in {"op", "in"} /\ op[w] = "save" => ~sess[w].invalid
         /\ \A w \in Worker : NewId(w) /\ Based(w)
         /\ Dead

LEMMA Same ==
    ASSUME IInv, Locking, NEW v \in Worker, NEW w \in Worker,
           Constructed(v), Constructed(w), sess[v].sid = sess[w].sid
    PROVE  v = w
<1>1. ASSUME NEW u \in Worker, Constructed(u) PROVE sess[u].locked /\ sess[u].sid \in Sid
  BY <1>1 DEF IInv, Local, LocalAt, Constructed
<1>2. sess[v].locked /\ sess[w].locked /\ slot(v) \in Slots /\ slot(v) = slot(w)
  BY <1>1, SlotType DEF slot
<1>3. mutex[slot(v)] = v /\ mutex[slot(v)] = w
  BY <1>2 DEF IInv, LockedIsHeld
<1> QED
  BY <1>3

\* What a step of w to the point l of the operation p, with the object o, may do: ...
StoreStep(w, l, p, o) == \A s \in Sid :
    \/ store'[s].ver = store[s].ver
    \/ store'[s].ver = 0
    \/ /\ s = sess[w].sid /\ o.sid = s /\ store'[s].ver = o.base
       /\ Constructed(w) /\ ~sess[w].invalid

DeadStep(w, l, p, o) ==
    \/ dead' = dead
    \/ /\ dead' = dead \cup {sess[w].sid} /\ store'[sess[w].sid].ver = 0
       /\ Constructed(w) /\ sess[w].sid = o.sid /\ o.invalid

SidStep(w, l, p, o) ==
    \/ VisitingAt(l, p)
    \/ l = "idle" /\ o.sid = NoSid
    \/ l = "locknew" /\ o.sid \in Fresh
    \/ /\ l # "locknew" /\ o.sid = sess[w].sid
       /\ Constructed(w) \/ pc[w] = "locknew" \/ store[o.sid].ver # 0

\* ... and what must come of it.
OwnStep(w, l, p, o) ==
    /\ l \in {"op", "in"} /\ p = "save" => ~o.invalid
    /\ o.sid \in dead' => VisitingAt(l, p) \/ o.invalid
    /\ OwningAt(l, p) => store'[o.sid].ver \in {0, o.base}

LEMMA StepStored ==
    ASSUME IInv, IInv', Stored, Locking, NEW w \in Worker, NEW l \in Points, NEW p \in Ops,
           NEW o \in SessionObject,
           pc' = [pc EXCEPT ![w] = l], op' = [op EXCEPT ![w] = p],
           sess' = [sess EXCEPT ![w] = o], UNCHANGED conf,
           StoreStep(w, l, p, o), DeadStep(w, l, p, o), SidStep(w, l, p, o), OwnStep(w, l, p, o)
    PROVE  Stored'
<1>1. \A v \in Worker : /\ pc'[v] = IF v = w THEN l ELSE pc[v]
                        /\ op'[v] = IF v = w THEN p ELSE op[v]
                        /\ sess'[v] = IF v = w THEN o ELSE sess[v]
  BY DEF IInv, Types, Stored, Named
<1>2. \A v \in Worker : v # w => (Visiting(v)' <=> Visiting(v)) /\ (Constructed(v)' <=> Constructed(v))
  BY <1>1 DEF Visiting, VisitingAt, Constructed
<1>3. (Visiting(w)' <=> VisitingAt(l, p)) /\ (Constructed(w)' <=> OwningAt(l, p))
  BY <1>1 DEF Visiting, VisitingAt, Constructed, OwningAt
<1>4. \A v \in Worker : pc[v] = "locknew" \/ Constructed(v) => sess[v].sid \in Sid
  BY DEF IInv, Local, LocalAt, Constructed
<1>5. op' \in [Worker -> Ops] /\ dead' \subseteq Sid
  BY <1>4 DEF Stored, Named, DeadStep
<1>6. \A v \in Worker : NewId(v) /\ Based(v)
  BY DEF Stored, Named
<1>7. Dead
  BY DEF Stored
<1>8. ASSUME NEW v \in Worker, Constructed(v), pc[w] = "locknew", sess[v].sid = sess[w].sid PROVE FALSE
  <2>1. v # w /\ ~Visiting(v)
    BY <1>8 DEF Constructed, Visiting, VisitingAt
  <2> QED
    BY <1>6, <1>8, <2>1 DEF NewId
<1>9. ASSUME NEW v \in Worker, NEW u \in Worker, Constructed(v), pc[u] = "locknew"
      PROVE  sess[v].sid # sess[u].sid
  <2>1. v # u /\ ~Visiting(v)
    BY <1>9 DEF Constructed, Visiting, VisitingAt
  <2> QED
    BY <1>6, <1>9, <2>1 DEF NewId
<1>10. ASSUME NEW v \in Worker PROVE NewId(v)'
  <2> SUFFICES ASSUME pc'[v] = "locknew"
               PROVE  /\ store'[sess'[v].sid].ver = 0 /\ sess'[v].sid \notin dead'
                      /\ \A u \in Worker : u # v /\ sess'[u].sid = sess'[v].sid => Visiting(u)'
    BY DEF NewId
  <2>1. CASE v = w
    <3>1. l = "locknew" /\ ~VisitingAt(l, p) /\ o.sid \in Fresh
      BY <1>1, <2>1 DEF SidStep, VisitingAt
    <3>2. o.sid \in Sid \ dead /\ store[o.sid].ver = 0 /\ \A u \in Worker : sess[u].sid # o.sid
      BY <3>1 DEF Fresh
    <3>3. store'[o.sid].ver = 0 /\ o.sid \notin dead'
      BY <3>2 DEF StoreStep, DeadStep
    <3> QED
      BY <1>1, <2>1, <3>2, <3>3
  <2>2. CASE v # w
    <3>1. pc[v] = "locknew" /\ sess'[v] = sess[v] /\ sess[v].sid \in Sid
      BY <1>1, <1>4, <2>2
    <3>2. /\ store[sess[v].sid].ver = 0 /\ sess[v].sid \notin dead
          /\ \A u \in Worker : u # v /\ sess[u].sid = sess[v].sid => Visiting(u)
      BY <1>6, <3>1 DEF NewId
    <3>3. store'[sess[v].sid].ver = 0 /\ sess[v].sid \notin dead'
      BY <1>9, <3>1, <3>2 DEF StoreStep, DeadStep
    <3>4. ASSUME NEW u \in Worker, u # v, sess'[u].sid = sess[v].sid PROVE Visiting(u)'
      <4>1. CASE u # w
        BY <1>1, <1>2, <3>2, <3>4, <4>1
      <4>2. CASE u = w
        <5>1. o.sid = sess[v].sid
          BY <1>1, <3>4, <4>2
        <5>2. ~(o.sid \in Fresh) /\ o.sid # NoSid
          BY <3>1, <5>1, NoneAssumption DEF Fresh
        <5>3. ASSUME o.sid = sess[w].sid PROVE Visiting(w)
          BY <3>2, <4>2, <3>4, <5>1, <5>3
        <5>4. ASSUME o.sid = sess[w].sid, Constructed(w) \/ pc[w] = "locknew" \/ store[o.sid].ver # 0
              PROVE  FALSE
          BY <3>2, <5>1, <5>3, <5>4 DEF Visiting, VisitingAt, Constructed
        <5> QED
          BY <1>3, <4>2, <5>2, <5>4 DEF SidStep
      <4> QED
        BY <4>1, <4>2
    <3> QED
      BY <3>1, <3>3, <3>4
  <2> QED
    BY <2>1, <2>2
<1>11. ASSUME NEW v \in Worker PROVE Based(v)'
  <2> SUFFICES ASSUME Constructed(v)' PROVE store'[sess'[v].sid].ver \in {0, sess'[v].base}
    BY DEF Based
  <2>1. CASE v = w
    BY <1>1, <1>3, <2>1 DEF OwnStep
  <2>2. CASE v # w
    <3>1. Constructed(v) /\ sess'[v] = sess[v] /\ sess[v].sid \in Sid
      BY <1>1, <1>2, <1>4, <2>2
    <3>2. store[sess[v].sid].ver \in {0, sess[v].base}
      BY <1>6, <3>1 DEF Based
    <3>3. Constructed(w) => sess[w].sid # sess[v].sid
      BY <2>2, <3>1, Same
    <3> QED
      BY <3>1, <3>2, <3>3 DEF StoreStep
  <2> QED
    BY <2>1, <2>2
<1>12. Dead'
  <2> SUFFICES ASSUME NEW s \in dead'
               PROVE  /\ store'[s].ver = 0
                      /\ \A v \in Worker : sess'[v].sid = s => Visiting(v)' \/ sess'[v].invalid
    BY DEF Dead
  <2>1. s \in Sid
    BY <1>5
  <2>2. store'[s].ver = 0
    <3>1. CASE s \in dead
      <4>1. store[s].ver = 0 /\ (sess[w].sid = s => Visiting(w) \/ sess[w].invalid)
        BY <1>7, <3>1 DEF Dead
      <4>2. Constructed(w) => ~Visiting(w)
        BY DEF Visiting, VisitingAt, Constructed
      <4> QED
        BY <2>1, <4>1, <4>2 DEF StoreStep
    <3>2. CASE s \notin dead
      BY <3>2 DEF DeadStep
    <3> QED
      BY <3>1, <3>2
  <2>3. ASSUME NEW v \in Worker, sess'[v].sid = s PROVE Visiting(v)' \/ sess'[v].invalid
    <3>1. CASE v = w
      BY <1>1, <1>3, <2>3, <3>1 DEF OwnStep
    <3>2. CASE v # w /\ s \in dead
      BY <1>1, <1>2, <1>7, <2>3, <3>2 DEF Dead
    <3>3. CASE v # w /\ s \notin dead
      <4>1. s = sess[w].sid /\ Constructed(w) /\ sess[v].sid = s
        BY <1>1, <2>3, <3>3 DEF DeadStep
      <4>2. ~Constructed(v)
        BY <3>3, <4>1, Same
      <4>3. pc[v] # "locknew"
        BY <1>9, <4>1
      <4>4. pc[v] # "idle" /\ pc[v] # "relock"
        BY <2>1, <4>1, NoneAssumption DEF IInv, Local, LocalAt
      <4>5. pc[v] \in Points
        BY DEF IInv, Types
      <4>6. Visiting(v)
        BY <4>2, <4>3, <4>4, <4>5 DEF Visiting, VisitingAt, Constructed, Points
      <4> QED
        BY <1>2, <3>3, <4>6
    <3> QED
      BY <3>1, <3>2, <3>3
  <2> QED
    BY <2>2, <2>3
<1>13. \A v \in Worker : pc'[v] \in {"op", "in"} /\ op'[v] = "save" => ~sess'[v].invalid
  BY <1>1 DEF OwnStep, Stored
<1> QED
  BY <1>5, <1>10, <1>11, <1>12, <1>13 DEF Stored, Named

\* A step of w that changes neither object nor operation, and by which at most entries of
\* the store go.
LEMMA MoveStored ==
    ASSUME IInv, IInv', Stored, Locking, NEW w \in Worker, NEW l \in Points, Goto(w, l),
           UNCHANGED <<conf, sess, op, dead>>,
           \A s \in Sid : store'[s].ver \in {0, store[s].ver},
           \/ Constructed(w) /\ OwningAt(l, op[w])
           \/ pc[w] = "op" /\ l = "in",
           l \in {"op", "in"} => pc[w] \in {"op", "in"}
    PROVE  Stored'
<1> DEFINE o == sess[w]
           p == op[w]
<1>1. /\ o \in SessionObject /\ p \in Ops
      /\ pc' = [pc EXCEPT ![w] = l] /\ op' = [op EXCEPT ![w] = p] /\ sess' = [sess EXCEPT ![w] = o]
  BY DEF IInv, Types, Stored, Named, Goto
<1>2. Visiting(w) => VisitingAt(l, p)
  BY DEF Visiting, VisitingAt, Constructed
<1>3. VisitingAt(l, p) \/ Constructed(w)
  BY DEF VisitingAt, Constructed, OwningAt
<1>4. l # "locknew" /\ (OwningAt(l, p) => Constructed(w))
  BY DEF VisitingAt, Constructed, OwningAt
<1>5. pc[w] # "idle" /\ (Constructed(w) => o.sid \in Sid)
  BY DEF IInv, Local, LocalAt, Constructed
<1>6. StoreStep(w, l, p, o) /\ DeadStep(w, l, p, o) /\ SidStep(w, l, p, o)
  <2>1. StoreStep(w, l, p, o)
    BY DEF StoreStep
  <2>2. DeadStep(w, l, p, o)
    BY DEF DeadStep
  <2>3. SidStep(w, l, p, o)
    BY <1>3, <1>4 DEF SidStep
  <2> QED
    BY <2>1, <2>2, <2>3
<1>7. OwnStep(w, l, p, o)
  <2>1. l \in {"op", "in"} /\ p = "save" => ~o.invalid
    BY DEF Stored
  <2>2. o.sid \in dead' => VisitingAt(l, p) \/ o.invalid
    BY <1>2 DEF Stored, Dead
  <2>3. OwningAt(l, p) => store'[o.sid].ver \in {0, o.base}
    BY <1>4, <1>5 DEF Stored, Based
  <2> QED
    BY <2>1, <2>2, <2>3 DEF OwnStep
<1> HIDE DEF o, p
<1> QED
  BY <1>1, <1>6, <1>7, StepStored

\* The store of an access to it, whose object keeps its id.
LEMMA AccessStored ==
    ASSUME StoreWorks, IInv, IInv', Stored, Locking, NEW w \in Worker, Access(w), UNCHANGED conf
    PROVE  Stored'
<1>0. ~StoreFails /\ LockOn
  BY DEF StoreWorks, StoreFails, Locking, LockOn, IInv, Types
<1>1. /\ pc[w] = "in" /\ sess[w] \in SessionObject /\ sess[w].sid \in Sid /\ op[w] \in Ops
      /\ saves \in Nat /\ store \in [Sid -> [ver : Nat, expired : BOOLEAN]]
  <2>1. pc[w] = "in"
    BY DEF Access, Load, LoadNothing, Save, Delete, FileFails, DbmFails, In
  <2> QED
    BY <2>1 DEF IInv, Types, Local, LocalAt, Stored, Named
<1>2. ASSUME NEW base \in Nat, NEW invalid \in BOOLEAN, Leave(w, base, invalid)
      PROVE  LET o == [sess[w] EXCEPT !.base = base, !.invalid = invalid]
             IN  sess' = [sess EXCEPT ![w] = o] /\ o \in SessionObject /\ o.sid = sess[w].sid
                 /\ o.base = base /\ o.invalid = invalid /\ op' = [op EXCEPT ![w] = op[w]]
  <2>1. sess[w].locked = (sess[w].locked /\ ~FileUnlocks(w))
    BY <1>0, <1>1 DEF FileUnlocks, SessionObject
  <2> DEFINE o == [sess[w] EXCEPT !.base = base, !.invalid = invalid]
             q == [sess[w] EXCEPT !.base = base, !.invalid = invalid, !.locked = @ /\ ~FileUnlocks(w)]
  <2>2. sess' = [sess EXCEPT ![w] = q]
    BY <1>2 DEF Leave, IInv, Types
  <2>3. q = o
    BY <1>1, <2>1 DEF SessionObject
  <2>4. o \in SessionObject /\ o.sid = sess[w].sid /\ o.base = base /\ o.invalid = invalid
    BY <1>1 DEF SessionObject
  <2>5. op' = [op EXCEPT ![w] = op[w]]
    BY <1>2 DEF Leave, Stored, Named
  <2> HIDE DEF q
  <2> QED
    BY <2>2, <2>3, <2>4, <2>5
<1>3. CASE Load(w)
  <2> DEFINE base == store[sess[w].sid].ver
             o == [sess[w] EXCEPT !.base = base, !.invalid = FALSE]
  <2>1. base \in Nat /\ base # 0 /\ Leave(w, base, FALSE) /\ UNCHANGED <<store, dead>>
        /\ pc' = [pc EXCEPT ![w] = "handler"]
    BY <1>1, <1>3 DEF Load, Goto
  <2>2. /\ sess' = [sess EXCEPT ![w] = o] /\ o \in SessionObject /\ o.sid = sess[w].sid
        /\ o.base = base /\ op' = [op EXCEPT ![w] = op[w]]
    BY <1>2, <2>1
  <2>3. o.sid \notin dead
    BY <2>1, <2>2 DEF Stored, Dead
  <2>4. OwnStep(w, "handler", op[w], o) /\ SidStep(w, "handler", op[w], o)
        /\ StoreStep(w, "handler", op[w], o) /\ DeadStep(w, "handler", op[w], o)
    BY <2>1, <2>2, <2>3 DEF OwnStep, SidStep, StoreStep, DeadStep
  <2> HIDE DEF o
  <2> QED
    BY <1>1, <2>1, <2>2, <2>4, StepStored DEF Points
<1>4. CASE LoadNothing(w)
  <2> DEFINE o == [sess[w] EXCEPT !.base = 0, !.invalid = FALSE]
  <2>1. Leave(w, 0, FALSE) /\ UNCHANGED <<store, dead>> /\ pc' = [pc EXCEPT ![w] = "renew"]
    BY <1>4 DEF LoadNothing, Goto
  <2>2. /\ sess' = [sess EXCEPT ![w] = o] /\ o \in SessionObject /\ op' = [op EXCEPT ![w] = op[w]]
    BY <1>2, <2>1
  <2>3. VisitingAt("renew", op[w])
    BY DEF VisitingAt
  <2> HIDE DEF o
  <2>4. OwnStep(w, "renew", op[w], o) /\ SidStep(w, "renew", op[w], o)
        /\ StoreStep(w, "renew", op[w], o) /\ DeadStep(w, "renew", op[w], o)
    <3>1. ~OwningAt("renew", op[w])
      BY DEF OwningAt
    <3>2. OwnStep(w, "renew", op[w], o)
      BY <2>3, <3>1 DEF OwnStep
    <3>3. StoreStep(w, "renew", op[w], o) /\ DeadStep(w, "renew", op[w], o)
      BY <2>1 DEF StoreStep, DeadStep
    <3> QED
      BY <2>3, <3>2, <3>3 DEF SidStep
  <2> QED
    BY <1>1, <2>1, <2>2, <2>4, StepStored DEF Points
<1>5. CASE Save(w)
  <2> DEFINE base == saves + 1
             o == [sess[w] EXCEPT !.base = base, !.invalid = sess[w].invalid]
  <2>1. /\ base \in Nat /\ Leave(w, base, sess[w].invalid) /\ UNCHANGED dead /\ op[w] = "save"
        /\ store' = [store EXCEPT ![sess[w].sid] = [ver |-> base, expired |-> FALSE]]
        /\ pc' = [pc EXCEPT ![w] = "handler"]
    BY <1>1, <1>5 DEF Save, Goto, In
  <2>2. sess[w].invalid \in BOOLEAN /\ ~sess[w].invalid
    BY <1>1, <2>1 DEF Stored, SessionObject
  <2>3. /\ sess' = [sess EXCEPT ![w] = o] /\ o \in SessionObject /\ o.sid = sess[w].sid
        /\ o.base = base /\ op' = [op EXCEPT ![w] = op[w]]
    BY <1>2, <2>1, <2>2
  <2>4. Constructed(w) /\ ~Visiting(w)
    BY <1>1, <2>1 DEF Constructed, Visiting, VisitingAt
  <2>5. o.sid \notin dead
    BY <2>2, <2>3, <2>4 DEF Stored, Dead
  <2>6. \A s \in Sid : IF s = sess[w].sid THEN store'[s].ver = base ELSE store'[s].ver = store[s].ver
    BY <1>1, <2>1
  <2>7. OwnStep(w, "handler", op[w], o) /\ SidStep(w, "handler", op[w], o)
        /\ StoreStep(w, "handler", op[w], o) /\ DeadStep(w, "handler", op[w], o)
    BY <1>1, <2>1, <2>2, <2>3, <2>4, <2>5, <2>6 DEF OwnStep, SidStep, StoreStep, DeadStep
  <2> HIDE DEF o
  <2> QED
    BY <1>1, <2>1, <2>3, <2>7, StepStored DEF Points
<1>6. ASSUME NEW d \in {"delete", "invalidate"}, Delete(w, d) PROVE Stored'
  <2> DEFINE invalid == sess[w].invalid \/ d = "invalidate"
             o == [sess[w] EXCEPT !.base = 0, !.invalid = invalid]
  <2>1. /\ invalid \in BOOLEAN /\ Leave(w, 0, invalid) /\ op[w] = d
        /\ dead' = IF d = "invalidate" THEN dead \cup {sess[w].sid} ELSE dead
        /\ store' = [store EXCEPT ![sess[w].sid] = Absent]
        /\ pc' = [pc EXCEPT ![w] = "handler"]
    BY <1>1, <1>6 DEF Delete, Goto, In, SessionObject
  <2>2. /\ sess' = [sess EXCEPT ![w] = o] /\ o \in SessionObject /\ o.sid = sess[w].sid
        /\ o.base = 0 /\ o.invalid = invalid /\ op' = [op EXCEPT ![w] = op[w]]
    <3> HIDE DEF invalid
    <3> QED
      BY ZenonT(30), <1>2, <2>1
  <2>3. Constructed(w) /\ ~Visiting(w)
    BY <1>1, <2>1 DEF Constructed, Visiting, VisitingAt
  <2>4. o.sid \in dead' => o.invalid
    BY <2>1, <2>2, <2>3 DEF Stored, Dead
  <2>5. \A s \in Sid : IF s = sess[w].sid THEN store'[s].ver = 0 ELSE store'[s].ver = store[s].ver
    BY <1>1, <2>1 DEF Absent
  <2>6. OwnStep(w, "handler", op[w], o) /\ SidStep(w, "handler", op[w], o)
        /\ StoreStep(w, "handler", op[w], o) /\ DeadStep(w, "handler", op[w], o)
    BY <1>1, <2>1, <2>2, <2>3, <2>4, <2>5 DEF OwnStep, SidStep, StoreStep, DeadStep
  <2> HIDE DEF o, invalid
  <2> QED
    BY <1>1, <2>1, <2>2, <2>6, StepStored DEF Points
<1> QED
  BY <1>0, <1>3, <1>4, <1>5, <1>6 DEF Access, FileFails, DbmFails

\* Constructors and the end of requests.
LEMMA ConstructStored ==
    ASSUME IInv, IInv', Stored, Locking, NEW w \in Worker, UNCHANGED conf,
           \/ \E s \in Sid \cup {NoSid}, sweep \in BOOLEAN : Request(w, s, sweep)
           \/ Lock(w) \/ Renew(w) \/ EndRequest(w)
    PROVE  Stored'
<1>1. /\ sess[w] \in SessionObject /\ op[w] \in Ops /\ LockOn
      /\ UNCHANGED <<store, dead>>
  BY DEF Request, Lock, Renew, EndRequest, IInv, Types, Stored, Named, Locking
<1>2. NoSid \notin dead
  BY NoneAssumption DEF Stored, Named
<1>3. \A l, p, o : StoreStep(w, l, p, o) /\ DeadStep(w, l, p, o)
  BY <1>1 DEF StoreStep, DeadStep
<1>4. ASSUME NEW s \in Sid \cup {NoSid}, NEW sweep \in BOOLEAN, Request(w, s, sweep) PROVE Stored'
  <2> DEFINE o == [NoObject EXCEPT !.sid = s, !.sweep = sweep]
             l == IF s = NoSid THEN "renew" ELSE "lock"
  <2>1. o \in SessionObject /\ l \in {"renew", "lock"} /\ l \in Points
    BY DEF NoObject, SessionObject, Points
  <2>2. sess' = [sess EXCEPT ![w] = o] /\ pc' = [pc EXCEPT ![w] = l] /\ op' = [op EXCEPT ![w] = op[w]]
    BY <1>4 DEF Request, Goto, Stored, Named
  <2> HIDE DEF o, l
  <2>3. VisitingAt(l, op[w]) /\ ~OwningAt(l, op[w]) /\ l \notin {"op", "in"}
    BY <2>1 DEF VisitingAt, OwningAt
  <2>4. SidStep(w, l, op[w], o) /\ OwnStep(w, l, op[w], o)
    BY <2>3 DEF SidStep, OwnStep
  <2> QED
    BY <1>1, <1>3, <2>1, <2>2, <2>4, StepStored
<1>5. CASE Lock(w)
  <2> DEFINE l == IF pc[w] = "lock" THEN "op" ELSE "handler"
             o == [sess[w] EXCEPT !.locked = TRUE, !.again = pc[w] = "relock"]
  <2>1. /\ pc[w] \in {"lock", "locknew"} /\ sess[w].sid \in Sid
    BY <1>5 DEF Lock, IInv, Local, LocalAt
  <2>2. o \in SessionObject /\ o.sid = sess[w].sid /\ o.base = sess[w].base /\ o.invalid = sess[w].invalid
    BY <1>1 DEF SessionObject
  <2>3. sess' = [sess EXCEPT ![w] = o] /\ pc' = [pc EXCEPT ![w] = l] /\ op' = [op EXCEPT ![w] = "load"]
    BY <1>1, <1>5 DEF Lock, Goto, IInv, Types
  <2>4. l \in Points /\ "load" \in Ops
    BY DEF Points, Ops
  <2> HIDE DEF o
  <2>5. CASE pc[w] = "lock"
    <3>1. VisitingAt(l, "load") /\ ~OwningAt(l, "load")
      BY <2>5 DEF VisitingAt, OwningAt
    <3>2. SidStep(w, l, "load", o) /\ OwnStep(w, l, "load", o)
      BY <3>1 DEF SidStep, OwnStep
    <3> HIDE DEF l
    <3> QED
      BY <1>3, <2>2, <2>3, <2>4, <3>2, StepStored
  <2>6. CASE pc[w] = "locknew"
    <3>1. l = "handler" /\ store[o.sid].ver = 0 /\ o.sid \notin dead
      BY <2>2, <2>6 DEF Stored, NewId
    <3>2. SidStep(w, l, "load", o) /\ OwnStep(w, l, "load", o)
      BY <1>1, <2>2, <2>6, <3>1 DEF SidStep, OwnStep
    <3> HIDE DEF l
    <3> QED
      BY <1>3, <2>2, <2>3, <2>4, <3>2, StepStored
  <2> QED
    BY <2>1, <2>5, <2>6
<1>6. CASE Renew(w)
  <2>1. PICK s \in Fresh : sess' = [sess EXCEPT ![w].sid = s, ![w].locked = @ /\ ~LockOn]
    BY <1>6 DEF Renew
  <2> DEFINE o == [sess[w] EXCEPT !.sid = s, !.locked = @ /\ ~LockOn]
  <2>2. s \in Sid \ dead
    BY DEF Fresh
  <2>3. o \in SessionObject /\ o.sid = s
    BY <1>1, <2>2 DEF SessionObject
  <2>4. /\ sess' = [sess EXCEPT ![w] = o] /\ pc' = [pc EXCEPT ![w] = "locknew"]
        /\ op' = [op EXCEPT ![w] = op[w]] /\ "locknew" \in Points
    BY <1>6, <2>1 DEF Renew, Goto, IInv, Types, Stored, Named, Points
  <2> HIDE DEF o
  <2>5. SidStep(w, "locknew", op[w], o)
    BY <2>3 DEF SidStep
  <2>6. OwnStep(w, "locknew", op[w], o)
    BY <1>1, <2>2, <2>3 DEF OwnStep, OwningAt
  <2> QED
    BY <1>1, <1>3, <2>3, <2>4, <2>5, <2>6, StepStored
<1>7. CASE EndRequest(w)
  <2>1. NoObject \in SessionObject /\ NoObject.sid = NoSid
    BY DEF NoObject, SessionObject
  <2>2. /\ sess' = [sess EXCEPT ![w] = NoObject] /\ pc' = [pc EXCEPT ![w] = "idle"]
        /\ op' = [op EXCEPT ![w] = "load"] /\ "idle" \in Points /\ "load" \in Ops
    BY <1>7 DEF EndRequest, Goto, Points, Ops
  <2>3. SidStep(w, "idle", "load", NoObject)
    BY <2>1 DEF SidStep
  <2>4. OwnStep(w, "idle", "load", NoObject)
    BY <1>1, <1>2, <2>1 DEF OwnStep, OwningAt
  <2> QED
    BY <1>1, <1>3, <2>1, <2>2, <2>3, <2>4, StepStored
<1> QED
  BY <1>4, <1>5, <1>6, <1>7

LEMMA CallStored ==
    ASSUME IInv, IInv', Stored, Locking, NEW w \in Worker, UNCHANGED conf,
           NEW d \in {"save", "delete", "invalidate"}, Call(w, d)
    PROVE  Stored'
<1> DEFINE o == sess[w]
<1>1. /\ o \in SessionObject /\ o.sid \in Sid /\ d \in Ops /\ "op" \in Points
      /\ pc' = [pc EXCEPT ![w] = "op"] /\ op' = [op EXCEPT ![w] = d] /\ sess' = [sess EXCEPT ![w] = o]
      /\ UNCHANGED <<store, dead>>
  BY DEF Call, Goto, IInv, Types, Local, LocalAt, Ops, Points
<1>2. Constructed(w) /\ ~Visiting(w)
  BY DEF Call, Constructed, Visiting, VisitingAt
<1>3. StoreStep(w, "op", d, o) /\ DeadStep(w, "op", d, o) /\ SidStep(w, "op", d, o)
  BY <1>1, <1>2 DEF StoreStep, DeadStep, SidStep
<1>4. o.sid \in dead' => o.invalid
  BY <1>1, <1>2 DEF Stored, Dead
<1>5. store'[o.sid].ver \in {0, o.base}
  BY <1>1, <1>2 DEF Stored, Based
<1>6. OwnStep(w, "op", d, o)
  BY <1>4, <1>5 DEF OwnStep, Call
<1> HIDE DEF o
<1> QED
  BY <1>1, <1>3, <1>6, StepStored

LEMMA NextStored ==
    ASSUME StoreWorks, IInv, IInv', Stored, [Next /\ UNCHANGED conf]_<<conf, vars>>
    PROVE  Stored'
<1>1. CASE ~Locking
  <2>1. ~Locking'
    BY <1>1 DEF vars, Locking, LockOn, UserUnlocks
  <2> QED
    BY <2>1, OpsStay DEF Stored
<1>2. CASE Locking /\ UNCHANGED <<conf, vars>>
  BY <1>2 DEF vars, Stored, Named, Locking, LockOn, UserUnlocks, NewId, Based, Dead, Visiting, Constructed
<1>3. CASE Locking /\ UNCHANGED conf /\ \E s \in Sid : Expire(s)
  <2>1. PICK s \in Sid : Expire(s)
    BY <1>3
  <2>2. UNCHANGED <<conf, pc, op, sess, dead>> /\ \A t \in Sid : store'[t].ver = store[t].ver
    BY <2>1 DEF Expire, IInv, Types
  <2>3. \A w \in Worker : pc[w] = "locknew" \/ Constructed(w) => sess[w].sid \in Sid
    BY DEF IInv, Local, LocalAt, Constructed
  <2>4. /\ \A w \in Worker : NewId(w) => NewId(w)'
        /\ \A w \in Worker : Based(w) => Based(w)'
    BY <2>2, <2>3 DEF NewId, Based, Visiting, Constructed
  <2>5. dead \subseteq Sid /\ (Dead => Dead')
    BY <2>2 DEF Stored, Named, Dead, Visiting
  <2> QED
    BY <2>2, <2>4, <2>5 DEF Stored, Named, Locking, LockOn, UserUnlocks
<1>4. ASSUME Locking, UNCHANGED conf, NEW w \in Worker,
             \/ \E s \in Sid \cup {NoSid}, sweep \in BOOLEAN : Request(w, s, sweep)
             \/ Lock(w) \/ Renew(w) \/ EndRequest(w)
      PROVE  Stored'
  BY <1>4, ConstructStored
<1>5. ASSUME Locking, UNCHANGED conf, NEW w \in Worker, Access(w) PROVE Stored'
  BY <1>5, AccessStored
<1>6. ASSUME Locking, UNCHANGED conf, NEW w \in Worker, Enter(w) PROVE Stored'
  <2>1. sess[w].locked
    BY <1>6 DEF Enter, IInv, Local, LocalAt
  <2>2. Goto(w, "in") /\ UNCHANGED <<sess, op, dead, store>> /\ pc[w] = "op" /\ "in" \in Points
    BY <1>6, <2>1 DEF Enter, Points
  <2> QED
    BY <1>6, <2>2, MoveStored
<1>7. ASSUME Locking, NEW w \in Worker PROVE ~UserUnlock(w) /\ ~UserLock(w)
  BY <1>7 DEF Locking, UserUnlock, UserLock
<1>8. ASSUME Locking, UNCHANGED conf, NEW w \in Worker, EndHandler(w) PROVE Stored'
  <2>1. ~sess[w].again
    BY <1>8 DEF IInv, Local, LocalAt
  <2>2. PICK l \in {"end", "dbmsweep", "memsweep"} : Goto(w, l)
    BY <1>8, ConfigAssumption DEF EndHandler, AfterHandler, IInv, Types, Kind
  <2>3. UNCHANGED <<sess, op, dead, store>> /\ Constructed(w) /\ OwningAt(l, op[w]) /\ l \in Points
    BY <1>8, <2>1, <2>2 DEF EndHandler, Constructed, OwningAt, Points
  <2> QED
    BY <1>8, <2>2, <2>3, MoveStored
<1>9. ASSUME Locking, UNCHANGED conf, NEW w \in Worker, DbmSweepEnter(w) \/ Sweep(w) PROVE Stored'
  <2>1. PICK l \in {"sweeping", "memsweep", "end"} : Goto(w, l)
    BY <1>9 DEF DbmSweepEnter, Sweep, DbmSweep, DbmSweepFails, MemLook, MemDelete, MemSwept, Goto,
                IInv, Types
  <2>2. UNCHANGED <<sess, op, dead>> /\ Constructed(w) /\ OwningAt(l, op[w]) /\ l \in Points
    BY <1>9 DEF DbmSweepEnter, Sweep, DbmSweep, DbmSweepFails, MemLook, MemDelete, MemSwept,
                Constructed, OwningAt, Points
  <2>3. \A s \in Sid : store'[s].ver \in {0, store[s].ver}
    <3>1. CASE DbmSweep(w)
      BY <3>1 DEF DbmSweep, Absent
    <3>2. CASE MemDelete(w)
      BY <3>2 DEF MemDelete, Absent, IInv, Types
    <3>3. CASE ~DbmSweep(w) /\ ~MemDelete(w)
      BY <1>9, <3>3 DEF DbmSweepEnter, Sweep, DbmSweepFails, MemLook, MemSwept
    <3> QED
      BY <3>1, <3>2, <3>3
  <2> QED
    BY <1>9, <2>1, <2>2, <2>3, MoveStored
<1>10. ASSUME Locking, UNCHANGED conf, NEW w \in Worker, NEW d \in {"save", "delete", "invalidate"},
              Call(w, d)
       PROVE  Stored'
  BY <1>10, CallStored
<1> QED
  BY <1>1, <1>2, <1>3, <1>4, <1>5, <1>6, <1>7, <1>8, <1>9, <1>10 DEF Next

LEMMA StoredHolds ==
    ASSUME StoreWorks
    PROVE  Spec => [](IInv /\ Stored)
<1>1. Init => Stored
  <2> SUFFICES ASSUME Init PROVE Stored
    OBVIOUS
  <2>1. op \in [Worker -> Ops] /\ dead = {}
    BY DEF Init, Ops
  <2>2. \A w \in Worker : pc[w] = "idle"
    BY DEF Init
  <2> QED
    BY <2>1, <2>2 DEF Stored, Named, NewId, Based, Dead, Constructed
<1>2. IInv /\ Stored /\ [Next /\ UNCHANGED conf]_<<conf, vars>> => (IInv /\ Stored)'
  BY NextIInv, NextStored
<1> QED
  BY InitIInv, <1>1, <1>2, PTL DEF Spec

(* With locking on and a store that works, an invalidated session never    *)
(* comes back.                                                             *)
THEOREM Invalidated == StoreWorks => (Spec => []StaysInvalid)
<1> SUFFICES ASSUME StoreWorks PROVE Spec => []StaysInvalid
  OBVIOUS
<1>1. Stored => StaysInvalid
  BY DEF Stored, Dead, StaysInvalid
<1> QED
  BY StoredHolds, <1>1, PTL

(* With locking on and a store that works, a save replaces the save that   *)
(* the request which makes it has loaded or made, and no other.            *)
THEOREM Updates == StoreWorks => (Spec => NoLostUpdate)
<1> SUFFICES ASSUME StoreWorks PROVE Spec => NoLostUpdate
  OBVIOUS
<1> DEFINE Replaces == Locking => \A s \in Sid : store'[s].ver > store[s].ver /\ store[s].ver # 0 =>
                         \E w \in Worker : /\ In(w, "save") /\ pc'[w] # "in"
                                           /\ sess[w].sid = s /\ sess[w].base = store[s].ver
<1>1. ASSUME IInv, Stored, Next, UNCHANGED conf PROVE Replaces
  <2> SUFFICES ASSUME Locking, NEW s \in Sid, store'[s].ver > store[s].ver, store[s].ver # 0
               PROVE  \E w \in Worker : /\ In(w, "save") /\ pc'[w] # "in"
                                        /\ sess[w].sid = s /\ sess[w].base = store[s].ver
    OBVIOUS
  <2>1. store \in [Sid -> [ver : Nat, expired : BOOLEAN]] /\ store[s].ver \in Nat
    BY <1>1 DEF IInv, Types
  <2>2. ~(store'[s].ver \in {0, store[s].ver})
    BY <2>1
  <2>3. PICK w \in Worker : Save(w)
    <3>1. ASSUME NEW w \in Worker, Access(w), ~Save(w) PROVE store'[s].ver \in {0, store[s].ver}
      <4>1. CASE Load(w) \/ LoadNothing(w) \/ FileFails(w) \/ DbmFails(w)
        BY <4>1 DEF Load, LoadNothing, FileFails, DbmFails
      <4>2. CASE Delete(w, "delete") \/ Delete(w, "invalidate")
        <5>1. store' = [store EXCEPT ![sess[w].sid] = Absent]
          BY <4>2 DEF Delete
        <5> QED
          BY <2>1, <5>1 DEF Absent
      <4> QED
        BY <3>1, <4>1, <4>2 DEF Access
    <3>2. ASSUME NEW w \in Worker, Sweep(w) PROVE store'[s].ver \in {0, store[s].ver}
      BY <2>1, <3>2 DEF Sweep, DbmSweep, DbmSweepFails, MemLook, MemDelete, MemSwept, Absent
    <3>3. ASSUME NEW t \in Sid, Expire(t) PROVE store'[s].ver = store[s].ver
      BY <2>1, <3>3 DEF Expire
    <3>4. ASSUME NEW w \in Worker,
                 \/ \E t \in Sid \cup {NoSid}, sweep \in BOOLEAN : Request(w, t, sweep)
                 \/ Lock(w) \/ Renew(w) \/ Enter(w)
                 \/ \E o \in {"save", "delete", "invalidate"} : Call(w, o)
                 \/ UserUnlock(w) \/ UserLock(w) \/ EndHandler(w)
                 \/ DbmSweepEnter(w) \/ EndRequest(w)
          PROVE  store' = store
      BY <3>4 DEF Request, Lock, Renew, Enter, Call, UserUnlock, UserLock, EndHandler, DbmSweepEnter,
                  EndRequest
    <3> QED
      BY <1>1, <2>2, <3>1, <3>2, <3>3, <3>4 DEF Next
  <2>4. s = sess[w].sid
    BY <2>1, <2>2, <2>3 DEF Save
  <2>5. Constructed(w)
    BY <2>3 DEF Save, In, Constructed
  <2>6. In(w, "save") /\ pc'[w] # "in"
    BY <1>1, <2>3 DEF Save, In, Goto, IInv, Types
  <2>7. sess[w].base = store[s].ver
    BY <1>1, <2>4, <2>5 DEF Stored, Based
  <2> QED
    BY <2>4, <2>6, <2>7
<1>2. IInv /\ Stored /\ [Next /\ UNCHANGED conf]_<<conf, vars>> => [Replaces]_vars
  BY <1>1
<1>3. NoLostUpdate <=> [][Replaces]_vars
  BY DEF NoLostUpdate
<1> HIDE DEF Replaces
<1> QED
  BY StoredHolds, <1>2, <1>3, PTL DEF Spec

-----------------------------------------------------------------------------
(***************************************************************************)
(* The bound on saves, for finitely many workers: it counts those under    *)
(* way.                                                                    *)
(***************************************************************************)
Savers == {w \in Worker : pc[w] \in {"op", "in"} /\ op[w] = "save"}

SavesFit == saves + Cardinality(Savers) <= MaxSaves

LEMMA FewSavers ==
    ASSUME IsFiniteSet(Worker)
    PROVE  /\ IsFiniteSet(Savers) /\ Cardinality(Savers) \in Nat
           /\ \A S : S \subseteq Savers => Cardinality(S) \in Nat /\ Cardinality(S) <= Cardinality(Savers)
<1>1. Savers \subseteq Worker
  BY DEF Savers
<1>2. IsFiniteSet(Savers)
  BY <1>1, FS_Subset
<1>3. \A S : S \subseteq Savers => IsFiniteSet(S) /\ Cardinality(S) <= Cardinality(Savers)
  BY <1>2, FS_Subset
<1> QED
  BY <1>2, <1>3, FS_CardinalityType

LEMMA NextSavesFit ==
    ASSUME IsFiniteSet(Worker), IInv, Named, SavesFit, [Next /\ UNCHANGED conf]_<<conf, vars>>
    PROVE  SavesFit'
<1> USE SavesAssumption
<1>1. saves \in Nat /\ pc \in [Worker -> Points] /\ op \in [Worker -> Ops]
  BY DEF IInv, Types, Named
<1>2. ASSUME saves' = saves, Savers' \subseteq Savers PROVE SavesFit'
  <2>1. Cardinality(Savers') \in Nat /\ Cardinality(Savers') <= Cardinality(Savers)
        /\ Cardinality(Savers) \in Nat
    BY <1>2, FewSavers
  <2> QED
    BY <1>1, <1>2, <2>1 DEF SavesFit
<1>3. CASE UNCHANGED <<conf, vars>>
  BY <1>2, <1>3 DEF vars, Savers
<1>4. ASSUME NEW s \in Sid, Expire(s) PROVE SavesFit'
  BY <1>2, <1>4 DEF Expire, Savers
<1>5. ASSUME NEW w \in Worker,
             \/ \E s \in Sid \cup {NoSid}, sweep \in BOOLEAN : Request(w, s, sweep)
             \/ Lock(w) \/ Renew(w) \/ Enter(w) \/ UserUnlock(w) \/ UserLock(w) \/ EndHandler(w)
             \/ \E o \in {"delete", "invalidate"} : Call(w, o)
             \/ DbmSweepEnter(w) \/ Sweep(w) \/ EndRequest(w)
      PROVE  SavesFit'
  <2>1. saves' = saves
    BY <1>5 DEF Request, Lock, Renew, Enter, UserUnlock, UserLock, EndHandler, Call, DbmSweepEnter,
                Sweep, DbmSweep, DbmSweepFails, MemLook, MemDelete, MemSwept, EndRequest
  <2>2. \A v \in Worker : v # w => pc'[v] = pc[v] /\ op'[v] = op[v]
    BY <1>1, <1>5 DEF Request, Lock, Renew, Enter, UserUnlock, UserLock, EndHandler, Call, DbmSweepEnter,
                Sweep, DbmSweep, DbmSweepFails, MemLook, MemDelete, MemSwept, EndRequest, Goto
  <2>3. ASSUME pc'[w] \in {"op", "in"}, op'[w] = "save" PROVE pc[w] \in {"op", "in"} /\ op[w] = "save"
    <3>1. CASE Enter(w)
      BY <1>1, <2>3, <3>1 DEF Enter, Goto
    <3>2. CASE Lock(w)
      BY <1>1, <2>3, <3>2 DEF Lock, Goto
    <3>3. CASE \E o \in {"delete", "invalidate"} : Call(w, o)
      BY <1>1, <2>3, <3>3 DEF Call, Goto
    <3>4. CASE ~Enter(w) /\ ~Lock(w) /\ ~\E o \in {"delete", "invalidate"} : Call(w, o)
      <4>1. \/ \E s \in Sid \cup {NoSid}, sweep \in BOOLEAN : Request(w, s, sweep)
            \/ Renew(w) \/ UserLock(w) \/ EndHandler(w) \/ DbmSweepEnter(w) \/ EndRequest(w)
            \/ UserUnlock(w) \/ Sweep(w)
        BY <1>5, <3>4
      <4>2. pc'[w] \notin {"op", "in"}
        <5>1. CASE EndHandler(w)
          <6>1. \E l \in {"end", "dbmsweep", "memsweep"} : Goto(w, l)
            BY <5>1, ConfigAssumption DEF EndHandler, AfterHandler, IInv, Types, Kind
          <6> QED
            BY <1>1, <6>1 DEF Goto
        <5>2. CASE ~EndHandler(w)
          BY <1>1, <4>1, <5>2 DEF Request, Renew, UserUnlock, UserLock, DbmSweepEnter,
                  Sweep, DbmSweep, DbmSweepFails, MemLook, MemDelete, MemSwept, EndRequest, Goto
        <5> QED
          BY <5>1, <5>2
      <4> QED
        BY <2>3, <4>2
    <3> QED
      BY <3>1, <3>2, <3>3, <3>4
  <2>4. Savers' \subseteq Savers
    BY <2>2, <2>3 DEF Savers
  <2> QED
    BY <1>2, <2>1, <2>4
<1>6. ASSUME NEW w \in Worker, Access(w), ~Save(w) PROVE SavesFit'
  <2>1. saves' = saves /\ op' = op /\ \E l \in {"handler", "renew", "end", "dbmsweep", "memsweep"} : Goto(w, l)
    BY <1>6, ConfigAssumption DEF Access, Load, LoadNothing, Delete, FileFails, DbmFails, Leave,
       AfterHandler, IInv, Types, Kind
  <2>2. Savers' \subseteq Savers
    BY <1>1, <2>1 DEF Savers, Goto
  <2> QED
    BY <1>2, <2>1, <2>2
<1>7. ASSUME NEW w \in Worker, Save(w) PROVE SavesFit'
  <2>1. pc[w] = "in" /\ op[w] = "save" /\ op' = op /\ pc' = [pc EXCEPT ![w] = "handler"]
        /\ saves' = saves + 1
    BY <1>7 DEF Save, In, Leave, Goto
  <2>2. w \in Savers /\ Savers' = Savers \ {w}
    BY <1>1, <2>1 DEF Savers
  <2>3. Cardinality(Savers') = Cardinality(Savers) - 1
    BY <2>2, FewSavers, FS_RemoveElement
  <2>4. Cardinality(Savers) \in Nat
    BY FewSavers
  <2> QED
    BY <1>1, <2>1, <2>3, <2>4 DEF SavesFit
<1>8. ASSUME NEW w \in Worker, Call(w, "save") PROVE SavesFit'
  <2>1. /\ pc[w] = "handler" /\ pc' = [pc EXCEPT ![w] = "op"] /\ op' = [op EXCEPT ![w] = "save"]
        /\ saves' = saves /\ saves + Cardinality(Savers) < MaxSaves
    BY <1>8 DEF Call, Goto, Saving, Savers
  <2>2. w \notin Savers /\ Savers' = Savers \cup {w}
    BY <1>1, <2>1 DEF Savers
  <2>3. Cardinality(Savers') = Cardinality(Savers) + 1
    BY <2>2, FewSavers, FS_AddElement
  <2>4. Cardinality(Savers) \in Nat
    BY FewSavers
  <2> QED
    BY <1>1, <2>1, <2>3, <2>4 DEF SavesFit
<1> QED
  BY <1>3, <1>4, <1>5, <1>6, <1>7, <1>8 DEF Next

LEMMA InitSavesFit == Init => Named /\ SavesFit
<1> SUFFICES ASSUME Init PROVE Named /\ SavesFit
  OBVIOUS
<1>1. Savers = {}
  BY DEF Init, Savers
<1> QED
  BY <1>1, FS_EmptySet, SavesAssumption DEF Init, Named, Ops, SavesFit

\* Who saves has room to.
LEMMA SaveFits ==
    ASSUME IsFiniteSet(Worker), IInv, SavesFit, NEW w \in Worker, Save(w)
    PROVE  saves + 1 \in 0..MaxSaves
<1>1. w \in Savers
  BY DEF Save, In, Savers
<1>2. Cardinality(Savers) # 0 /\ Cardinality(Savers) \in Nat
  BY <1>1, FewSavers, FS_EmptySet
<1> QED
  BY <1>2, SavesAssumption DEF SavesFit, IInv, Types

-----------------------------------------------------------------------------
(***************************************************************************)
(* The refinement: with locking on, sessions are registers.                *)
(***************************************************************************)
AllLock == \A c \in Configs : c.lock /\ ~c.unlocks

holderOf == [s \in Sid |-> Opener(s)]
valueOf  == [s \in Sid |-> store[s].ver]

LEMMA ChooseOpener ==
    ASSUME NEW S, NEW s, \A v, w \in Worker : S[v].locked /\ S[v].sid = s /\ S[w].locked /\ S[w].sid = s => v = w
    PROVE  LET opener == IF \E w \in Worker : S[w].locked /\ S[w].sid = s
                         THEN CHOOSE w \in Worker : S[w].locked /\ S[w].sid = s
                         ELSE NoWorker
           IN  /\ opener \in Worker \cup {NoWorker}
               /\ \A w \in Worker : opener = w <=> S[w].locked /\ S[w].sid = s
BY NoneAssumption

LEMMA OneLocked ==
    ASSUME IInv, NEW s \in Sid, NEW v \in Worker, NEW w \in Worker,
           sess[v].locked, sess[v].sid = s, sess[w].locked, sess[w].sid = s
    PROVE  v = w
<1>1. SlotOf[s] \in Slots
  BY SlotType
<1>2. mutex[SlotOf[s]] = v /\ mutex[SlotOf[s]] = w
  BY <1>1 DEF IInv, LockedIsHeld, slot
<1> QED
  BY <1>2

\* Who has a register open has its session object locked.
LEMMA OpenerFacts ==
    ASSUME IInv, NEW s \in Sid
    PROVE  /\ Opener(s) \in Worker \cup {NoWorker}
           /\ \A w \in Worker : Opener(s) = w <=> sess[w].locked /\ sess[w].sid = s
BY ZenonT(30), OneLocked, ChooseOpener DEF Opener

LEMMA OpenerNext ==
    ASSUME IInv, IInv', NEW w \in Worker, NEW o \in SessionObject, sess' = [sess EXCEPT ![w] = o],
           NEW s \in Sid
    PROVE  /\ Opener(s)' = IF o.locked /\ o.sid = s THEN w
                           ELSE IF Opener(s) = w THEN NoWorker ELSE Opener(s)
<1>1. \A v \in Worker : sess'[v] = IF v = w THEN o ELSE sess[v]
  BY DEF IInv, Types
<1>2. \A u, v \in Worker : sess'[u].locked /\ sess'[u].sid = s /\ sess'[v].locked /\ sess'[v].sid = s
                              => u = v
  <2>1. SlotOf[s] \in Slots
    BY SlotType
  <2> QED
    BY <2>1 DEF IInv, LockedIsHeld, slot
<1>3. /\ Opener(s)' \in Worker \cup {NoWorker}
      /\ \A v \in Worker : Opener(s)' = v <=> sess'[v].locked /\ sess'[v].sid = s
  <2> DEFINE S == sess'
             opener == IF \E v \in Worker : S[v].locked /\ S[v].sid = s
                       THEN CHOOSE v \in Worker : S[v].locked /\ S[v].sid = s
                       ELSE NoWorker
  <2>1. \A u, v \in Worker : S[u].locked /\ S[u].sid = s /\ S[v].locked /\ S[v].sid = s => u = v
    BY <1>2
  <2>2. Opener(s)' = opener
    BY DEF Opener
  <2> HIDE DEF S
  <2>3. /\ opener \in Worker \cup {NoWorker}
        /\ \A v \in Worker : opener = v <=> S[v].locked /\ S[v].sid = s
    BY <2>1, ChooseOpener
  <2> QED
    BY <2>2, <2>3 DEF S
<1>4. /\ Opener(s) \in Worker \cup {NoWorker}
      /\ \A v \in Worker : Opener(s) = v <=> sess[v].locked /\ sess[v].sid = s
  BY OpenerFacts
<1> QED
  BY <1>1, <1>3, <1>4, NoneAssumption

RegisterStep == [Register!Next]_<<holderOf, valueOf>>

\* A step at which the object of w keeps its lock, and its id while it has one, opens and
\* closes no register.
LEMMA StutterStep ==
    ASSUME IInv, IInv', NEW w \in Worker, NEW o \in SessionObject, sess' = [sess EXCEPT ![w] = o],
           o.locked <=> sess[w].locked, o.locked => o.sid = sess[w].sid
    PROVE  holderOf' = holderOf
<1>1. \A s \in Sid : Opener(s)' = Opener(s)
  <2> SUFFICES ASSUME NEW s \in Sid PROVE Opener(s)' = Opener(s)
    OBVIOUS
  <2>1. Opener(s) = w <=> sess[w].locked /\ sess[w].sid = s
    BY OpenerFacts
  <2>2. Opener(s)' = IF o.locked /\ o.sid = s THEN w
                     ELSE IF Opener(s) = w THEN NoWorker ELSE Opener(s)
    BY OpenerNext
  <2>3. o.locked /\ o.sid = s <=> Opener(s) = w
    BY <2>1
  <2> QED
    BY <2>2, <2>3
<1> QED
  BY <1>1 DEF holderOf

LEMMA OpenStep ==
    ASSUME IInv, IInv', NEW w \in Worker, NEW o \in SessionObject, sess' = [sess EXCEPT ![w] = o],
           ~sess[w].locked, o.locked, o.sid \in Sid, mutex[SlotOf[o.sid]] = NoWorker, UNCHANGED store
    PROVE  RegisterStep
<1> DEFINE t == o.sid
<1>1. Opener(t) = NoWorker
  <2>1. SlotOf[t] \in Slots
    BY SlotType
  <2>2. \A v \in Worker : ~(sess[v].locked /\ sess[v].sid = t)
    BY <2>1, NoneAssumption DEF IInv, LockedIsHeld, slot
  <2> QED
    BY <2>2, OpenerFacts
<1>2. \A s \in Sid : Opener(s)' = IF s = t THEN w ELSE Opener(s)
  <2> SUFFICES ASSUME NEW s \in Sid PROVE Opener(s)' = IF s = t THEN w ELSE Opener(s)
    OBVIOUS
  <2>1. Opener(s) # w
    BY OpenerFacts
  <2>2. Opener(s)' = IF o.locked /\ o.sid = s THEN w
                     ELSE IF Opener(s) = w THEN NoWorker ELSE Opener(s)
    BY OpenerNext
  <2> QED
    BY <2>1, <2>2
<1>3. holderOf[t] = NoWorker /\ holderOf' = [holderOf EXCEPT ![t] = w] /\ valueOf' = valueOf
  BY <1>1, <1>2 DEF holderOf, valueOf
<1> QED
  BY <1>3 DEF RegisterStep, Register!Next, Register!Open, holderOf, valueOf

LEMMA CloseStep ==
    ASSUME IInv, IInv', NEW w \in Worker, NEW o \in SessionObject, sess' = [sess EXCEPT ![w] = o],
           ~o.locked, UNCHANGED store
    PROVE  RegisterStep
<1>1. valueOf' = valueOf
  BY DEF valueOf
<1>2. CASE sess[w].locked
  <2> DEFINE t == sess[w].sid
  <2>1. t \in Sid /\ Opener(t) = w
    BY <1>2, OpenerFacts DEF IInv, Local, LocalAt
  <2>2. \A s \in Sid : Opener(s)' = IF s = t THEN NoWorker ELSE Opener(s)
    <3> SUFFICES ASSUME NEW s \in Sid PROVE Opener(s)' = IF s = t THEN NoWorker ELSE Opener(s)
      OBVIOUS
    <3> QED
      BY <2>1, OpenerNext, OpenerFacts
  <2>3. holderOf[t] = w /\ holderOf' = [holderOf EXCEPT ![t] = NoWorker]
    BY <2>1, <2>2 DEF holderOf
  <2> QED
    BY <1>1, <2>1, <2>3 DEF RegisterStep, Register!Next, Register!Close, holderOf, valueOf
<1>3. CASE ~sess[w].locked
  <2>1. holderOf' = holderOf
    BY <1>3, StutterStep
  <2> QED
    BY <1>1, <2>1 DEF RegisterStep
<1> QED
  BY <1>2, <1>3

LEMMA DropStep ==
    ASSUME holderOf' = holderOf, \A s \in Sid : store'[s].ver \in {0, store[s].ver}
    PROVE  RegisterStep
<1> DEFINE S == {s \in Sid : store'[s].ver = 0}
<1>1. valueOf' = [s \in Sid |-> IF s \in S THEN 0 ELSE valueOf[s]]
  BY DEF valueOf
<1>2. S \in SUBSET Sid
  OBVIOUS
<1> HIDE DEF S
<1> QED
  BY <1>1, <1>2 DEF RegisterStep, Register!Next, Register!Drop, holderOf, valueOf

LEMMA WriteStep ==
    ASSUME IInv, NEW w \in Worker, sess[w].locked, holderOf' = holderOf,
           NEW v \in 0..MaxSaves, \A s \in Sid : store'[s].ver = IF s = sess[w].sid THEN v ELSE store[s].ver
    PROVE  RegisterStep
<1> DEFINE t == sess[w].sid
<1>1. t \in Sid /\ holderOf[t] = w
  BY OpenerFacts DEF holderOf, IInv, Local, LocalAt
<1>2. valueOf' = [valueOf EXCEPT ![t] = v]
  BY <1>1 DEF valueOf
<1> HIDE DEF t
<1> QED
  BY <1>1, <1>2 DEF RegisterStep, Register!Next, Register!Write, holderOf, valueOf

LEMMA AccessRegister ==
    ASSUME AllLock, IsFiniteSet(Worker), IInv, IInv', SavesFit, NEW w \in Worker, Access(w),
           UNCHANGED conf
    PROVE  RegisterStep
<1>1. LockOn /\ Locking
  BY DEF AllLock, LockOn, Locking, UserUnlocks, IInv, Types
<1>2. /\ pc[w] = "in" /\ sess[w] \in SessionObject /\ sess[w].sid \in Sid /\ sess[w].locked
      /\ saves \in Nat /\ store \in [Sid -> [ver : Nat, expired : BOOLEAN]]
  <2>1. pc[w] = "in"
    BY DEF Access, Load, LoadNothing, Save, Delete, FileFails, DbmFails, In
  <2> QED
    BY <1>1, <2>1 DEF IInv, Types, Local, LocalAt
<1>3. sess[w].base \in Nat /\ sess[w].invalid \in BOOLEAN
  BY <1>2 DEF SessionObject
<1>4. ASSUME NEW base \in Nat, NEW invalid \in BOOLEAN, Leave(w, base, invalid)
      PROVE  holderOf' = holderOf
  <2> DEFINE o == [sess[w] EXCEPT !.base = base, !.invalid = invalid, !.locked = @ /\ ~FileUnlocks(w)]
  <2>1. sess' = [sess EXCEPT ![w] = o]
    BY <1>4 DEF Leave, IInv, Types
  <2>2. o \in SessionObject /\ o.sid = sess[w].sid /\ o.locked = sess[w].locked
    BY <1>1, <1>2 DEF SessionObject, FileUnlocks
  <2> HIDE DEF o
  <2> QED
    BY <2>1, <2>2, StutterStep
<1>5. CASE Load(w)
  <2>1. store[sess[w].sid].ver \in Nat
    BY <1>2
  <2>2. holderOf' = holderOf /\ store' = store
    BY <1>4, <1>5, <2>1 DEF Load
  <2> QED
    BY <2>2, DropStep
<1>6. CASE LoadNothing(w)
  <2>1. holderOf' = holderOf /\ store' = store
    BY <1>4, <1>6 DEF LoadNothing
  <2> QED
    BY <2>1, DropStep
<1>7. CASE Save(w)
  <2>1. saves + 1 \in 0..MaxSaves /\ saves + 1 \in Nat
    BY <1>2, <1>7, SaveFits
  <2>2. holderOf' = holderOf
    BY <1>3, <1>4, <1>7, <2>1 DEF Save
  <2>3. \A s \in Sid : store'[s].ver = IF s = sess[w].sid THEN saves + 1 ELSE store[s].ver
    BY <1>2, <1>7 DEF Save
  <2> QED
    BY <1>2, <2>1, <2>2, <2>3, WriteStep
<1>8. ASSUME NEW d \in {"delete", "invalidate"}, Delete(w, d) PROVE RegisterStep
  <2>1. (sess[w].invalid \/ d = "invalidate") \in BOOLEAN
    BY <1>3
  <2>2. holderOf' = holderOf
    BY <1>4, <1>8, <2>1 DEF Delete
  <2>3. \A s \in Sid : store'[s].ver = IF s = sess[w].sid THEN 0 ELSE store[s].ver
    BY <1>2, <1>8 DEF Delete, Absent
  <2>4. 0 \in 0..MaxSaves
    BY SavesAssumption
  <2> QED
    BY <1>2, <2>2, <2>3, <2>4, WriteStep
<1>9. CASE FileFails(w)
  <2>1. (IF op[w] = "save" THEN sess[w].base ELSE 0) \in Nat
        /\ (sess[w].invalid \/ op[w] = "invalidate") \in BOOLEAN
    BY <1>3
  <2>2. holderOf' = holderOf /\ store' = store
    BY <1>4, <1>9, <2>1 DEF FileFails
  <2> QED
    BY <2>2, DropStep
<1>10. CASE DbmFails(w)
  BY <1>10 DEF DbmFails, RegisterStep, holderOf, valueOf, Opener
<1> QED
  BY <1>5, <1>6, <1>7, <1>8, <1>9, <1>10 DEF Access

LEMMA NextRegister ==
    ASSUME AllLock, IsFiniteSet(Worker), IInv, IInv', SavesFit,
           [Next /\ UNCHANGED conf]_<<conf, vars>>
    PROVE  RegisterStep
<1>1. LockOn /\ Locking
  BY DEF AllLock, LockOn, Locking, UserUnlocks, IInv, Types
<1>2. ASSUME UNCHANGED sess, \A s \in Sid : store'[s].ver \in {0, store[s].ver} PROVE RegisterStep
  <2>1. holderOf' = holderOf
    BY <1>2 DEF holderOf, Opener
  <2> QED
    BY <1>2, <2>1, DropStep
<1>3. CASE UNCHANGED <<conf, vars>>
  BY <1>2, <1>3 DEF vars
<1>4. ASSUME NEW s \in Sid, Expire(s) PROVE RegisterStep
  BY <1>2, <1>4 DEF Expire, IInv, Types
<1>5. ASSUME NEW w \in Worker, NEW s \in Sid \cup {NoSid}, NEW sweep \in BOOLEAN, Request(w, s, sweep)
      PROVE  RegisterStep
  <2> DEFINE o == [NoObject EXCEPT !.sid = s, !.sweep = sweep]
  <2>1. o \in SessionObject /\ ~o.locked
    BY DEF NoObject, SessionObject
  <2>2. sess' = [sess EXCEPT ![w] = o] /\ UNCHANGED store
    BY <1>5 DEF Request
  <2> HIDE DEF o
  <2> QED
    BY <2>1, <2>2, CloseStep
<1>6. ASSUME NEW w \in Worker, Lock(w) PROVE RegisterStep
  <2> DEFINE o == [sess[w] EXCEPT !.locked = TRUE, !.again = pc[w] = "relock"]
  <2>1. sess[w] \in SessionObject /\ sess[w].sid \in Sid /\ ~sess[w].locked
    BY <1>6 DEF Lock, IInv, Types, Local, LocalAt
  <2>2. o \in SessionObject /\ o.locked /\ o.sid = sess[w].sid
    BY <2>1 DEF SessionObject
  <2>3. sess' = [sess EXCEPT ![w] = o] /\ UNCHANGED store /\ mutex[SlotOf[o.sid]] = NoWorker
    BY <1>1, <1>6, <2>2 DEF Lock, slot, IInv, Types
  <2> HIDE DEF o
  <2> QED
    BY <2>1, <2>2, <2>3, OpenStep
<1>7. ASSUME NEW w \in Worker, Renew(w) PROVE RegisterStep
  <2>1. PICK s \in Fresh : sess' = [sess EXCEPT ![w].sid = s, ![w].locked = @ /\ ~LockOn]
    BY <1>7 DEF Renew
  <2> DEFINE o == [sess[w] EXCEPT !.sid = s, !.locked = @ /\ ~LockOn]
  <2>2. o \in SessionObject /\ ~o.locked
    BY ZenonT(30), <1>1 DEF SessionObject, Fresh, IInv, Types
  <2>3. sess' = [sess EXCEPT ![w] = o] /\ UNCHANGED store
    BY <1>7, <2>1 DEF Renew, IInv, Types
  <2> HIDE DEF o
  <2> QED
    BY <2>2, <2>3, CloseStep
<1>8. ASSUME NEW w \in Worker, EndRequest(w) PROVE RegisterStep
  <2>1. NoObject \in SessionObject /\ ~NoObject.locked
    BY DEF NoObject, SessionObject
  <2> QED
    BY <1>8, <2>1, CloseStep DEF EndRequest
<1>9. ASSUME NEW w \in Worker, Access(w) PROVE RegisterStep
  BY <1>9, AccessRegister DEF vars, Access, Load, LoadNothing, Save, Delete, FileFails, DbmFails
<1>10. ASSUME NEW w \in Worker, Enter(w) PROVE RegisterStep
  <2>1. sess[w].locked
    BY <1>1, <1>10 DEF Enter, IInv, Local, LocalAt
  <2> QED
    BY <1>2, <1>10, <2>1 DEF Enter
<1>11. ASSUME NEW w \in Worker, EndHandler(w) PROVE RegisterStep
  <2>1. ~sess[w].again
    BY <1>1, <1>11 DEF EndHandler, IInv, Local, LocalAt
  <2> QED
    BY <1>2, <1>11, <2>1 DEF EndHandler
<1>12. ASSUME NEW w \in Worker, DbmSweepEnter(w) \/ \E d \in {"save", "delete", "invalidate"} : Call(w, d)
       PROVE RegisterStep
  BY <1>2, <1>12 DEF DbmSweepEnter, Call
<1>13. ASSUME NEW w \in Worker, Sweep(w) PROVE RegisterStep
  <2>1. UNCHANGED sess
    BY <1>13 DEF Sweep, DbmSweep, DbmSweepFails, MemLook, MemDelete, MemSwept
  <2>2. \A s \in Sid : store'[s].ver \in {0, store[s].ver}
    <3>1. CASE DbmSweep(w)
      BY <3>1 DEF DbmSweep, Absent
    <3>2. CASE MemDelete(w)
      BY <3>2 DEF MemDelete, Absent, IInv, Types
    <3>3. CASE ~DbmSweep(w) /\ ~MemDelete(w)
      BY <1>13, <3>3 DEF Sweep, DbmSweepFails, MemLook, MemSwept
    <3> QED
      BY <3>1, <3>2, <3>3
  <2> QED
    BY <1>2, <2>1, <2>2
<1>14. ASSUME NEW w \in Worker PROVE ~UserUnlock(w) /\ ~UserLock(w)
  BY <1>1 DEF Locking, UserUnlock, UserLock
<1> QED
  BY <1>3, <1>4, <1>5, <1>6, <1>7, <1>8, <1>9, <1>10, <1>11, <1>12, <1>13, <1>14 DEF Next

LEMMA InitRegister == Init => Register!Init
<1> SUFFICES ASSUME Init PROVE Register!Init
  OBVIOUS
<1>1. \A s \in Sid : Opener(s) = NoWorker /\ store[s].ver = 0
  BY DEF Init, Opener, NoObject, Absent
<1> QED
  BY <1>1 DEF Register!Init

(* With locking on, and finitely many workers, sessions implement the      *)
(* registers of SessionRegister: whatever the store does, every access is  *)
(* to a session that the worker has open, and nobody else.                 *)
THEOREM Refinement ==
    AllLock /\ IsFiniteSet(Worker) => (Spec => ImplementsRegister)
<1> SUFFICES ASSUME AllLock, IsFiniteSet(Worker) PROVE Spec => ImplementsRegister
  OBVIOUS
<1>1. Init => Register!Init /\ Named /\ SavesFit
  BY InitRegister, InitSavesFit
<1>2. IInv /\ Named /\ SavesFit /\ [Next /\ UNCHANGED conf]_<<conf, vars>> => (Named /\ SavesFit)'
  BY NextSavesFit, OpsStay
<1>3. IInv /\ IInv' /\ SavesFit /\ [Next /\ UNCHANGED conf]_<<conf, vars>> => RegisterStep
  BY NextRegister
<1>4. ImplementsRegister <=> Register!Init /\ [][Register!Next]_<<holderOf, valueOf>>
  BY DEF ImplementsRegister, Register!Spec, holderOf, valueOf
<1> QED
  BY InvariantHolds, <1>1, <1>2, <1>3, <1>4, PTL DEF Spec, RegisterStep
=============================================================================
