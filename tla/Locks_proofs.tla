---------------------------- MODULE Locks_proofs ----------------------------
(***************************************************************************)
(* Proofs about what keeps the children of the server apart: the lock file *)
(* of the sweep of session files, then the global mutexes.                 *)
(***************************************************************************)
EXTENDS Locks, FiniteSetTheorems, TLAPS

(***************************************************************************)
(* The inductive invariant, in three parts.                                *)
(***************************************************************************)
InFiles == {"files", "verify", "unlink"}
PCs     == {"idle", "stat", "remove", "status", "dirs", "write", "unlock"} \cup InFiles
ReqAt   == [at : {"none", "touch", "handler"}, sid : Sid \cup {NoSid}, age : Nat]

Typed ==
    /\ TypeOK
    /\ pc \in [Sweeper -> PCs]
    /\ req \in [Reader -> ReqAt]
    /\ \A w \in Sweeper : pc[w] \in InFiles => i[w] < NDir

(* Files and requests. *)

\* A request is about a session until it ends, which is before the grace period does.
RequestsShort == \A r \in Reader :
    /\ req[r].at = "none" <=> req[r].sid = NoSid
    /\ req[r].at # "none" => req[r].age < Grace

\* A session was fresh when it was loaded, and is since older by no more than the request.
LoadedFresh ==
    /\ \A s \in Sid : file[s].mtime <= file[s].accessed
    /\ \A r \in Reader, s \in Sid :
          req[r].sid = s /\ file[s].is = "there" => file[s].accessed <= Timeout + req[r].age

\* A file a sweep is about to delete has expired and no request has loaded it.
Doomed(s) ==
    /\ file[s].is # "never"
    /\ file[s].is = "there" => file[s].accessed > Timeout
    /\ \A r \in Reader : req[r].sid # s

Condemned == \A w \in Sweeper :
    /\ pc[w] \in {"verify", "unlink"} => cur[w] \in Sid
    /\ pc[w] = "unlink" => Doomed(cur[w])

IInv == Typed /\ RequestsShort /\ LoadedFresh /\ Condemned

(* The lock file. *)

\* While no child has died a lock file is that of the one sweep at work, and never stale.
OneSweep == crashes = 0 =>
    /\ \A v, w \in Sweeper : Sweeping(v) /\ Sweeping(w) => v = w
    /\ lockfile.there <=> \E w \in Sweeper : Sweeping(w)
    /\ lockfile.age <= StaleAge
    /\ \A w \in Sweeper : pc[w] # "remove"

(* Turns. *)

InLoop(w) == pc[w] \in {"dirs", "write"} \cup InFiles

\* Where the next sweep begins.
Start == IF status = -1 THEN 0 ELSE status

\* A sweep goes on from where it began.
Onwards == crashes = 0 => \A w \in Sweeper : InLoop(w) => Start <= i[w]

\* How many sweeps ago one came through d, at most, if the next begins at p.
Bound(d, p) == IF d < p THEN p - d ELSE p + NDir - d

\* Between its start p and the end of its loop a sweep comes through the directories one
\* after the other.  If it ends, the next begins behind them, unless a directory was missing
\* that has been made since: then all are new.
Underway(w) ==
    LET p == Start IN
    /\ \A d \in conf.dirs : since[d] <= IF p <= d /\ d < i[w] THEN 0 ELSE Bound(d, p)
    /\ pc[w] \in InFiles => since[i[w]] <= 0
    /\ \/ \A d \in Dir : since[d] <= 0
       \/ /\ pc[w] = "dirs" /\ i[w] = NDir => next[w] = 0
          /\ pc[w] = "write" => next[w] = i[w] % NDir /\ p < i[w]

\* Each directory has had its turn, if the last one exists: else a sweep would end there
\* without having said where the next begins.
Turns == crashes = 0 /\ NDir - 1 \in conf.dirs =>
    /\ \A w \in Sweeper : InLoop(w) => Underway(w)
    /\ (\A w \in Sweeper : ~InLoop(w)) => \A d \in conf.dirs : since[d] <= Bound(d, Start)

\* Positions stay among the directories.
PosTyped ==
    /\ conf \in [fast : BOOLEAN, verify : BOOLEAN, loads : BOOLEAN, limit : BOOLEAN, crashes : Nat,
                 dirs : SUBSET Dir]
    /\ lockfile \in [there : BOOLEAN, age : 0..(StaleAge + 1)]
    /\ status \in Dir \cup {-1} /\ pc \in [Sweeper -> PCs]
    /\ i \in [Sweeper -> 0..NDir] /\ next \in [Sweeper -> Dir]
    /\ since \in [Dir -> -1..(NDir + 1)] /\ crashes \in Nat
    /\ \A w \in Sweeper : pc[w] \in InFiles => i[w] < NDir

TInv == PosTyped /\ OneSweep /\ Onwards /\ Turns

-----------------------------------------------------------------------------
LEMMA MinFacts ==
  ASSUME NEW a \in Int, NEW b \in Int
  PROVE  Min({a, b}) = IF a <= b THEN a ELSE b
<1> DEFINE m == IF a <= b THEN a ELSE b
<1>1. m \in {a, b} /\ \A y \in {a, b} : m <= y
  OBVIOUS
<1>2. \A x \in {a, b} : (\A y \in {a, b} : x <= y) => x = m
  OBVIOUS
<1> HIDE DEF m
<1>3. (CHOOSE x \in {a, b} : \A y \in {a, b} : x <= y) = m
  BY <1>1, <1>2
<1>4. QED BY <1>3 DEF Min, m

\* Growing older, up to a cap.
LEMMA AgedFacts ==
  ASSUME NEW a \in Nat, NEW cap \in Nat, a <= cap
  PROVE  Aged(a, cap) = (IF a < cap THEN a + 1 ELSE cap) /\ Aged(a, cap) \in 0..cap
<1>1. Min({a + 1, cap}) = IF a + 1 <= cap THEN a + 1 ELSE cap
  BY MinFacts
<1>2. QED BY <1>1 DEF Aged

-----------------------------------------------------------------------------
(***************************************************************************)
(* Files: nothing is deleted that a request may still save.                *)
(***************************************************************************)
\* What a sweep does to files: nothing, or it deletes the one it has condemned.
LEMMA SweepFiles ==
  ASSUME NEW w \in Sweeper, Lock(w) \/ Step(w) \/ Crash(w)
  PROVE  /\ req' = req
         /\ file' = file \/ Unlink(w)
BY DEF Lock, Step, Crash, Stat, RemoveLock, ReadStatus, NextDir, CheckFile, Verify, DirDone,
       AllDone, WriteStatus, Unlock, Unlink

LEMMA InitTyped == Init => Typed
<1> SUFFICES ASSUME Init PROVE Typed
  OBVIOUS
<1> USE CleanupAssumption DEF Init
<1>1. file \in [Sid -> [is : {"never", "there", "gone"}, mtime : 0..Old, accessed : 0..Old]]
  <2>1. 0 \in 0..Old
    BY DEF Old
  <2>2. {[is |-> "never", mtime |-> 0, accessed |-> 0], [is |-> "there", mtime |-> 0, accessed |-> 0]}
          \subseteq [is : {"never", "there", "gone"}, mtime : 0..Old, accessed : 0..Old]
    BY <2>1
  <2>3. QED BY <2>2
<1>2. lockfile \in [there : BOOLEAN, age : 0..(StaleAge + 1)]
  <2>1. 0 \in 0..(StaleAge + 1)
    OBVIOUS
  <2>2. QED BY <2>1
<1>3. 0 \in Dir /\ 0 \in 0..NDir /\ 0 \in -1..(NDir + 1)
  BY DEF Dir
<1>4. TypeOK
  BY <1>1, <1>2, <1>3 DEF TypeOK
<1>5. pc \in [Sweeper -> PCs] /\ req \in [Reader -> ReqAt]
  BY DEF PCs, ReqAt, NoReq
<1>6. \A w \in Sweeper : pc[w] = "idle"
  OBVIOUS
<1>7. QED BY <1>4, <1>5, <1>6 DEF Typed, InFiles

\* Steps of requests, and time.
LEMMA RequestTyped ==
  ASSUME Typed, RequestsShort,
         \/ \E s \in Sid : NewSession(s)
         \/ \E r \in Reader : (\E s \in Sid : Load(r, s)) \/ Touch(r) \/ Save(r) \/ NoSave(r)
         \/ Tick
  PROVE  Typed'
<1> USE CleanupAssumption DEF Typed
<1> DEFINE F == [is : {"never", "there", "gone"}, mtime : 0..Old, accessed : 0..Old]
<1>0. Old \in Nat /\ 0 \in 0..Old
  BY DEF Old
<1>1. UNCHANGED <<status, sweep, crashes>>
  BY DEF NewSession, Load, Touch, Save, NoSave, Tick
<1>2. since' \in [Dir -> -1..(NDir + 1)]
  <2>1. CASE \E s \in Sid : NewSession(s)
    <3>1. \A d \in Dir : Min({since[d], 0}) \in -1..(NDir + 1)
      <4>1. ASSUME NEW d \in Dir PROVE Min({since[d], 0}) \in -1..(NDir + 1)
        <5>1. since[d] \in -1..(NDir + 1)
          BY DEF TypeOK
        <5>2. since[d] \in Int /\ 0 \in -1..(NDir + 1)
          BY <5>1
        <5>3. Min({since[d], 0}) = IF since[d] <= 0 THEN since[d] ELSE 0
          BY <5>2, MinFacts
        <5>4. QED BY <5>1, <5>2, <5>3
      <4>2. QED BY <4>1
    <3>2. since' = since \/ since' = [d \in Dir |-> Min({since[d], 0})]
      BY <2>1 DEF NewSession
    <3>3. since \in [Dir -> -1..(NDir + 1)]
      BY DEF TypeOK
    <3> HIDE DEF Typed
    <3>4. QED BY <3>1, <3>2, <3>3
  <2>2. CASE ~\E s \in Sid : NewSession(s)
    BY <2>2 DEF Load, Touch, Save, NoSave, Tick, TypeOK
  <2>3. QED BY <2>1, <2>2
<1>3. lockfile' \in [there : BOOLEAN, age : 0..(StaleAge + 1)]
  <2>1. CASE Tick
    <3>1. lockfile.age \in 0..(StaleAge + 1) /\ lockfile.there \in BOOLEAN
      BY DEF TypeOK
    <3>2. Aged(lockfile.age, StaleAge + 1) \in 0..(StaleAge + 1)
      BY <3>1, AgedFacts
    <3>3. 0 \in 0..(StaleAge + 1)
      OBVIOUS
    <3>4. QED BY <2>1, <3>1, <3>2, <3>3 DEF Tick, TypeOK
  <2>2. CASE ~Tick
    BY <2>2 DEF NewSession, Load, Touch, Save, NoSave, TypeOK
  <2>3. QED BY <2>1, <2>2
<1>4. file' \in [Sid -> F]
  <2>1. CASE \E s \in Sid : NewSession(s)
    BY <1>0, <2>1 DEF NewSession, TypeOK
  <2>2. CASE \E r \in Reader : (\E s \in Sid : Load(r, s)) \/ NoSave(r)
    BY <2>2 DEF Load, NoSave, TypeOK
  <2>3. CASE \E r \in Reader : Touch(r)
    <3>1. PICK r \in Reader : Touch(r)
      BY <2>3
    <3>2. \A s \in Sid : [file[s] EXCEPT !.mtime = 0] \in F
      BY <1>0 DEF TypeOK
    <3>3. req[r].sid \in Sid
      BY <3>1 DEF Touch, RequestsShort, ReqAt
    <3>4. file' = file \/ file' = [file EXCEPT ![req[r].sid] = [file[req[r].sid] EXCEPT !.mtime = 0]]
      BY <3>1 DEF Touch
    <3>5. file \in [Sid -> F]
      BY DEF TypeOK
    <3> HIDE DEF F, Typed
    <3>6. QED BY <3>2, <3>3, <3>4, <3>5
  <2>4. CASE \E r \in Reader : Save(r)
    <3>1. PICK r \in Reader : Save(r)
      BY <2>4
    <3>2. req[r].age \in 0..Old
      BY <3>1 DEF Save, RequestsShort, ReqAt, Old
    <3>3. [is |-> "there", mtime |-> 0, accessed |-> req[r].age] \in F
      BY <1>0, <3>2
    <3>4. QED BY <3>1, <3>3 DEF Save, TypeOK
  <2>5. CASE Tick
    <3>1. ASSUME NEW s \in Sid
          PROVE  [file[s] EXCEPT !.mtime = Aged(@, Old), !.accessed = Aged(@, Old)] \in F
      <4>1. file[s] \in F
        BY DEF TypeOK
      <4>2. Aged(file[s].mtime, Old) \in 0..Old /\ Aged(file[s].accessed, Old) \in 0..Old
        BY <1>0, <4>1, AgedFacts
      <4>3. QED BY <4>1, <4>2
    <3>2. QED BY <2>5, <3>1 DEF Tick
  <2>6. QED BY <2>1, <2>2, <2>3, <2>4, <2>5
<1>5. req' \in [Reader -> ReqAt]
  <2>1. CASE Tick
    <3>1. \A r \in Reader : [req[r] EXCEPT !.age = IF req[r].at = "none" THEN 0 ELSE @ + 1] \in ReqAt
      BY DEF ReqAt
    <3>2. QED BY <2>1, <3>1 DEF Tick
  <2>2. CASE ~Tick
    <3>1. \A r \in Reader : /\ [req[r] EXCEPT !.at = "handler"] \in ReqAt
                            /\ \A s \in Sid : [at |-> "touch", sid |-> s, age |-> 0] \in ReqAt
                            /\ NoReq \in ReqAt
      BY DEF ReqAt, NoReq
    <3>2. \/ req' = req
          \/ \E r \in Reader : \E q \in ReqAt : req' = [req EXCEPT ![r] = q]
      BY <2>2, <3>1 DEF NewSession, Load, Touch, Save, NoSave
    <3>3. QED BY <3>2
  <2>3. QED BY <2>1, <2>2
<1>6. QED BY <1>1, <1>2, <1>3, <1>4, <1>5 DEF TypeOK, sweep

\* Steps of sweeps.
LEMMA SweepTyped ==
  ASSUME Typed, Condemned, NEW w \in Sweeper, Lock(w) \/ Step(w) \/ Crash(w)
  PROVE  Typed'
<1> USE CleanupAssumption DEF Typed
<1> DEFINE F == [is : {"never", "there", "gone"}, mtime : 0..Old, accessed : 0..Old]
<1>1. req' = req /\ (file' = file \/ Unlink(w))
  BY SweepFiles
<1>2. file' \in [Sid -> F]
  <2>1. 0 \in 0..Old
    BY DEF Old
  <2>2. [is |-> "gone", mtime |-> 0, accessed |-> 0] \in F
    BY <2>1
  <2>3. QED BY <1>1, <2>2 DEF Unlink, TypeOK
<1>3. lockfile' \in [there : BOOLEAN, age : 0..(StaleAge + 1)]
  <2>1. lockfile' \in {lockfile, [there |-> TRUE, age |-> 0], [there |-> FALSE, age |-> 0]}
    BY DEF Lock, Step, Crash, Stat, RemoveLock, ReadStatus, NextDir, CheckFile, Verify, Unlink,
           DirDone, AllDone, WriteStatus, Unlock
  <2>2. 0 \in 0..(StaleAge + 1)
    OBVIOUS
  <2>3. {[there |-> TRUE, age |-> 0], [there |-> FALSE, age |-> 0]}
          \subseteq [there : BOOLEAN, age : 0..(StaleAge + 1)]
    BY <2>2
  <2>4. lockfile \in [there : BOOLEAN, age : 0..(StaleAge + 1)]
    BY DEF TypeOK
  <2>5. QED BY <2>1, <2>3, <2>4
<1>4. 0 \in Dir /\ 0 \in 0..NDir /\ i[w] \in 0..NDir /\ next[w] \in Dir /\ status \in Dir \cup {-1}
  BY DEF Dir, TypeOK
<1>5. status' \in Dir \cup {-1}
  BY <1>4 DEF Lock, Step, Crash, Stat, RemoveLock, ReadStatus, NextDir, CheckFile, Verify, Unlink,
              DirDone, AllDone, WriteStatus, Unlock
<1>6. i' \in [Sweeper -> 0..NDir] /\ next' \in [Sweeper -> Dir]
  <2>1. CASE ReadStatus(w)
    <3>1. (IF status = -1 THEN 0 ELSE status) \in Dir /\ Dir \subseteq 0..NDir
      BY <1>4 DEF Dir
    <3>2. QED BY <2>1, <3>1 DEF ReadStatus, TypeOK
  <2>2. CASE NextDir(w)
    <3>1. i[w] < NDir => i[w] + 1 \in 0..NDir
      BY <1>4
    <3>2. QED BY <2>2, <3>1 DEF NextDir, TypeOK
  <2>3. CASE DirDone(w)
    <3>1. i[w] < NDir /\ i[w] \in Nat
      BY <1>4, <2>3 DEF DirDone, At, InFiles
    <3>2. i[w] + 1 \in 0..NDir /\ (i[w] + 1) % NDir \in Dir
      BY <3>1 DEF Dir
    <3>3. QED BY <2>3, <3>2 DEF DirDone, TypeOK
  <2>4. CASE Unlock(w) \/ Crash(w)
    BY <1>4, <2>4 DEF Unlock, Crash, Ends, TypeOK
  <2>5. CASE i' = i /\ next' = next
    BY <2>5 DEF TypeOK
  <2>6. QED
    BY <2>1, <2>2, <2>3, <2>4, <2>5
       DEF Lock, Step, Stat, RemoveLock, CheckFile, Verify, Unlink, AllDone, WriteStatus
<1>7. todo' \in [Sweeper -> SUBSET Sid]
  BY SMTT(30) DEF Lock, Step, Crash, Stat, RemoveLock, ReadStatus, NextDir, CheckFile, Verify, Unlink,
         DirDone, AllDone, WriteStatus, Unlock, Ends, TypeOK
<1>8. cur' \in [Sweeper -> Sid \cup {NoSid}]
  BY DEF Lock, Step, Crash, Stat, RemoveLock, ReadStatus, NextDir, CheckFile, Verify, Unlink,
         DirDone, AllDone, WriteStatus, Unlock, Ends, TypeOK
<1>9. since' \in [Dir -> -1..(NDir + 1)] /\ crashes' \in Nat
  <2>1. CASE WriteStatus(w)
    <3>1. ASSUME NEW d \in Dir PROVE Min({since[d] + 1, NDir + 1}) \in -1..(NDir + 1)
      <4>1. since[d] \in -1..(NDir + 1)
        BY DEF TypeOK
      <4>2. Min({since[d] + 1, NDir + 1}) = IF since[d] + 1 <= NDir + 1 THEN since[d] + 1 ELSE NDir + 1
        BY <4>1, MinFacts
      <4>3. QED BY <4>1, <4>2
    <3>2. since' = [d \in Dir |-> Min({since[d] + 1, NDir + 1})] /\ crashes' = crashes /\ crashes \in Nat
      BY <2>1 DEF WriteStatus, TypeOK
    <3>3. QED BY <3>1, <3>2
  <2>2. CASE ~WriteStatus(w)
    <3>1. since' = since \/ since' = [since EXCEPT ![i[w]] = -1]
      BY <2>2 DEF Lock, Step, Crash, Stat, RemoveLock, ReadStatus, NextDir, CheckFile, Verify, Unlink,
             DirDone, AllDone, Unlock
    <3>2. crashes' = crashes \/ crashes' = crashes + 1
      BY <2>2 DEF Lock, Step, Crash, Stat, RemoveLock, ReadStatus, NextDir, CheckFile, Verify, Unlink,
             DirDone, AllDone, Unlock
    <3>3. -1 \in -1..(NDir + 1)
      OBVIOUS
    <3>4. since' \in [Dir -> -1..(NDir + 1)]
      BY <3>1, <3>3 DEF TypeOK
    <3>5. crashes' \in Nat
      BY <3>2 DEF TypeOK
    <3>6. QED BY <3>4, <3>5
  <2>3. QED BY <2>1, <2>2
<1>10. pc' \in [Sweeper -> PCs]
  BY DEF Lock, Step, Crash, Stat, RemoveLock, ReadStatus, NextDir, CheckFile, Verify, Unlink,
         DirDone, AllDone, WriteStatus, Unlock, Ends, Goes, PCs, InFiles
<1>11. \A v \in Sweeper : pc'[v] \in InFiles => i'[v] < NDir
  <2>1. \A v \in Sweeper : v # w => pc'[v] = pc[v] /\ i'[v] = i[v]
    BY DEF Lock, Step, Crash, Stat, RemoveLock, ReadStatus, NextDir, CheckFile, Verify, Unlink,
           DirDone, AllDone, WriteStatus, Unlock, Ends, Goes, TypeOK
  <2>2. pc'[w] \in InFiles => i'[w] < NDir
    <3>1. CASE NextDir(w)
      BY <3>1 DEF NextDir, Goes, At, InFiles
    <3>2. CASE (\E s \in Sid : CheckFile(w, s)) \/ Verify(w) \/ Unlink(w)
      BY <3>2 DEF CheckFile, Verify, Unlink, At, InFiles
    <3>3. CASE DirDone(w) \/ Lock(w) \/ Stat(w) \/ RemoveLock(w) \/ ReadStatus(w) \/ AllDone(w)
               \/ WriteStatus(w) \/ Unlock(w) \/ Crash(w)
      BY <3>3 DEF DirDone, Lock, Stat, RemoveLock, ReadStatus, AllDone, WriteStatus, Unlock, Crash,
                  Ends, Goes, InFiles
    <3>4. QED BY <3>1, <3>2, <3>3 DEF Step
  <2>3. QED BY <2>1, <2>2
<1>12. QED BY <1>1, <1>2, <1>3, <1>5, <1>6, <1>7, <1>8, <1>9, <1>10, <1>11 DEF TypeOK

-----------------------------------------------------------------------------
LEMMA InitFiles == Init => IInv
<1> SUFFICES ASSUME Init PROVE IInv
  OBVIOUS
<1>1. Typed
  BY InitTyped
<1>2. \A s \in Sid : file[s].mtime = 0 /\ file[s].accessed = 0
  BY DEF Init
<1>3. RequestsShort /\ LoadedFresh /\ Condemned
  BY <1>2, CleanupAssumption DEF Init, RequestsShort, LoadedFresh, Condemned, NoReq
<1>4. QED BY <1>1, <1>3 DEF IInv

\* Steps of requests, and time.
LEMMA RequestFiles ==
  ASSUME IInv, 0 < Grace, Grace <= Timeout + 1,
         \/ \E s \in Sid : NewSession(s)
         \/ \E r \in Reader : (\E s \in Sid : Load(r, s)) \/ Touch(r) \/ Save(r) \/ NoSave(r)
         \/ Tick
  PROVE  /\ IInv'
         /\ \A s \in Sid : file[s].is = "there" => file'[s].is = "there"
<1> USE CleanupAssumption DEF IInv
<1>0. Typed'
  BY RequestTyped
<1>1. /\ UNCHANGED <<pc, cur>>
      /\ \A s \in Sid : file[s] \in [is : {"never", "there", "gone"}, mtime : 0..Old, accessed : 0..Old]
      /\ \A r \in Reader : req[r] \in ReqAt
      /\ \A w \in Sweeper : cur[w] \in Sid \cup {NoSid}
      /\ file \in [Sid -> [is : {"never", "there", "gone"}, mtime : 0..Old, accessed : 0..Old]]
      /\ req \in [Reader -> ReqAt]
  BY DEF Typed, TypeOK, NewSession, Load, Touch, Save, NoSave, Tick, sweep
<1>2. CASE \E s \in Sid : NewSession(s)
  <2>1. PICK s \in Sid : /\ file[s].is = "never" /\ req' = req
                         /\ file' = [file EXCEPT ![s] = [is |-> "there", mtime |-> 0, accessed |-> 0]]
    BY <1>2 DEF NewSession
  <2>2. file'[s] = [is |-> "there", mtime |-> 0, accessed |-> 0] /\ \A u \in Sid : u # s => file'[u] = file[u]
    BY <1>1, <2>1
  <2>3. RequestsShort'
    BY <2>1 DEF RequestsShort
  <2>4. LoadedFresh'
    BY <1>1, <2>1, <2>2 DEF LoadedFresh, ReqAt
  <2>5. \A u \in Sid : Doomed(u) => Doomed(u)'
    BY <2>1, <2>2 DEF Doomed
  <2>6. Condemned'
    BY <1>1, <2>5 DEF Condemned
  <2>7. QED BY <1>0, <2>2, <2>3, <2>4, <2>6
<1>3. CASE \E r \in Reader : (\E s \in Sid : Load(r, s)) \/ NoSave(r)
  <2>1. PICK r \in Reader : (\E s \in Sid : Load(r, s)) \/ NoSave(r)
    BY <1>3
  <2>2. file' = file
    BY <2>1 DEF Load, NoSave
  <2>3. /\ \A q \in Reader : q # r => req'[q] = req[q]
        /\ \/ req'[r] = NoReq
           \/ \E s \in Sid : /\ file[s].is = "there" /\ file[s].accessed <= Timeout
                             /\ req'[r] = [at |-> "touch", sid |-> s, age |-> 0]
    BY <1>1, <2>1 DEF Load, NoSave
  <2>a. \/ req'[r].at = "none" /\ req'[r].sid = NoSid
        \/ /\ req'[r].at = "touch" /\ req'[r].sid \in Sid /\ req'[r].age = 0
           /\ file[req'[r].sid].is = "there" /\ file[req'[r].sid].accessed <= Timeout
    <3>1. CASE req'[r] = NoReq
      BY <3>1 DEF NoReq
    <3>2. ASSUME NEW s \in Sid, file[s].is = "there", file[s].accessed <= Timeout,
                 req'[r] = [at |-> "touch", sid |-> s, age |-> 0]
          PROVE  /\ req'[r].at = "touch" /\ req'[r].sid \in Sid /\ req'[r].age = 0
                 /\ file[req'[r].sid].is = "there" /\ file[req'[r].sid].accessed <= Timeout
      BY <3>2
    <3>3. QED BY <2>3, <3>1, <3>2
  <2>4. RequestsShort'
    BY <2>3, <2>a DEF RequestsShort
  <2>5. LoadedFresh'
    BY <1>1, <2>2, <2>3, <2>a DEF LoadedFresh
  <2>6. \A u \in Sid : Doomed(u) => Doomed(u)'
    <3>1. ASSUME NEW u \in Sid, Doomed(u) PROVE req'[r].sid # u
      <4>1. file[u].is = "there" => file[u].accessed > Timeout /\ file[u].accessed \in Nat
        BY <1>1, <3>1 DEF Doomed
      <4>2. QED BY <2>a, <4>1
    <3>2. QED BY <2>2, <2>3, <3>1 DEF Doomed
  <2>7. Condemned'
    BY <1>1, <2>6 DEF Condemned
  <2>8. QED BY <1>0, <2>2, <2>4, <2>5, <2>7
<1>4. CASE \E r \in Reader : Touch(r) \/ Save(r)
  <2>1. PICK r \in Reader : Touch(r) \/ Save(r)
    BY <1>4
  <2>2. req[r].sid \in Sid /\ req[r].age \in Nat /\ req[r].age < Grace
    BY <1>1, <2>1 DEF Touch, Save, RequestsShort, ReqAt
  <2> DEFINE s == req[r].sid
  <2>3. /\ \A q \in Reader : q # r => req'[q] = req[q]
        /\ \/ req'[r] = NoReq
           \/ req'[r] = [req[r] EXCEPT !.at = "handler"] /\ req[r].at = "touch"
    BY <1>1, <2>1 DEF Touch, Save
  <2>4. /\ \A u \in Sid : u # s => file'[u] = file[u]
        /\ \/ file'[s] = file[s]
           \/ file[s].is = "there" /\ file'[s] = [file[s] EXCEPT !.mtime = 0]
           \/ file'[s] = [is |-> "there", mtime |-> 0, accessed |-> req[r].age]
    BY <1>1, <2>1, <2>2 DEF Touch, Save
  <2>5. \A q \in Reader : \/ req'[q] = NoReq
                          \/ /\ req'[q].sid = req[q].sid /\ req'[q].age = req[q].age
                             /\ req'[q].at = "none" <=> req[q].at = "none"
    <3>1. req[r] \in ReqAt
      BY <1>1
    <3>2. [req[r] EXCEPT !.at = "handler"].sid = req[r].sid /\ [req[r] EXCEPT !.at = "handler"].age = req[r].age
          /\ [req[r] EXCEPT !.at = "handler"].at = "handler"
      BY <3>1 DEF ReqAt
    <3>3. QED BY <2>3, <3>2
  <2>6. RequestsShort'
    BY <2>5 DEF RequestsShort, NoReq
  <2>7. \A u \in Sid : /\ file'[u].mtime <= file'[u].accessed
                       /\ \/ file'[u].is = file[u].is /\ file'[u].accessed = file[u].accessed
                          \/ u = s /\ file'[u].is = "there" /\ file'[u].accessed = req[r].age
    <3>1. ASSUME NEW u \in Sid
          PROVE  /\ file'[u].mtime <= file'[u].accessed
                 /\ \/ file'[u].is = file[u].is /\ file'[u].accessed = file[u].accessed
                    \/ u = s /\ file'[u].is = "there" /\ file'[u].accessed = req[r].age
      <4>1. file[u] \in [is : {"never", "there", "gone"}, mtime : 0..Old, accessed : 0..Old]
            /\ file[u].mtime <= file[u].accessed
        BY <1>1 DEF LoadedFresh
      <4>2. QED BY <2>2, <2>4, <4>1
    <3>2. QED BY <3>1
  <2> HIDE DEF s
  <2>8. LoadedFresh'
    <3>1. ASSUME NEW q \in Reader, NEW u \in Sid, req'[q].sid = u, file'[u].is = "there"
          PROVE  file'[u].accessed <= Timeout + req'[q].age
      <4>1. req'[q].sid = req[q].sid /\ req'[q].age = req[q].age /\ req[q].age \in Nat
        BY <1>1, <2>5, <3>1 DEF NoReq, ReqAt
      <4>2. CASE file'[u].is = file[u].is /\ file'[u].accessed = file[u].accessed
        BY <3>1, <4>1, <4>2 DEF LoadedFresh
      <4>3. CASE file'[u].accessed = req[r].age
        BY <2>2, <4>1, <4>3
      <4>4. QED BY <2>7, <4>2, <4>3
    <3>2. QED BY <2>7, <3>1 DEF LoadedFresh
  <2>9. \A u \in Sid : Doomed(u) => Doomed(u)'
    <3>1. ASSUME NEW u \in Sid, Doomed(u) PROVE Doomed(u)'
      <4>1. u # s
        BY <3>1 DEF Doomed, s
      <4>2. file'[u].is = file[u].is /\ file'[u].accessed = file[u].accessed
        BY <2>7, <4>1
      <4>3. \A q \in Reader : req'[q].sid # u
        BY <2>5, <3>1 DEF Doomed, NoReq
      <4>4. QED BY <3>1, <4>2, <4>3 DEF Doomed
    <3>2. QED BY <3>1
  <2>10. Condemned'
    BY <1>1, <2>9 DEF Condemned
  <2>11. QED BY <1>0, <2>6, <2>7, <2>8, <2>10
<1>5. CASE Tick
  <2>1. \A s \in Sid : /\ file'[s].is = file[s].is
                       /\ file'[s].mtime = (IF file[s].mtime < Old THEN file[s].mtime + 1 ELSE Old)
                       /\ file'[s].accessed = (IF file[s].accessed < Old THEN file[s].accessed + 1 ELSE Old)
    <3>1. ASSUME NEW s \in Sid
          PROVE  /\ file'[s].is = file[s].is
                 /\ file'[s].mtime = (IF file[s].mtime < Old THEN file[s].mtime + 1 ELSE Old)
                 /\ file'[s].accessed = (IF file[s].accessed < Old THEN file[s].accessed + 1 ELSE Old)
      <4>1. file[s] \in [is : {"never", "there", "gone"}, mtime : 0..Old, accessed : 0..Old]
        BY <1>1
      <4>2. file'[s] = [file[s] EXCEPT !.mtime = Aged(file[s].mtime, Old), !.accessed = Aged(file[s].accessed, Old)]
        BY <1>5 DEF Tick
      <4>3. Old \in Nat
        BY DEF Old
      <4>4. file[s].mtime \in Nat /\ file[s].mtime <= Old /\ file[s].accessed \in Nat /\ file[s].accessed <= Old
        BY <4>1, <4>3
      <4>5. Aged(file[s].mtime, Old) = (IF file[s].mtime < Old THEN file[s].mtime + 1 ELSE Old)
            /\ Aged(file[s].accessed, Old) = (IF file[s].accessed < Old THEN file[s].accessed + 1 ELSE Old)
        BY <4>3, <4>4, AgedFacts
      <4>6. QED BY <4>1, <4>2, <4>5
    <3>2. QED BY <3>1
  <2>2. \A r \in Reader : /\ req'[r].at = req[r].at /\ req'[r].sid = req[r].sid
                          /\ req'[r].age = (IF req[r].at = "none" THEN 0 ELSE req[r].age + 1)
                          /\ req[r].at # "none" => req[r].age + 1 < Grace
    <3>1. ASSUME NEW r \in Reader
          PROVE  /\ req'[r].at = req[r].at /\ req'[r].sid = req[r].sid
                 /\ req'[r].age = (IF req[r].at = "none" THEN 0 ELSE req[r].age + 1)
                 /\ req[r].at # "none" => req[r].age + 1 < Grace
      <4>1. req[r] \in ReqAt
        BY <1>1
      <4>2. QED BY <1>5, <4>1 DEF Tick, ReqAt
    <3>2. QED BY <3>1
  <2>3. RequestsShort'
    BY <2>2 DEF RequestsShort
  <2>4. LoadedFresh'
    <3>1. ASSUME NEW s \in Sid PROVE file'[s].mtime <= file'[s].accessed
      BY <1>1, <2>1 DEF LoadedFresh, Old
    <3>2. ASSUME NEW r \in Reader, NEW s \in Sid, req'[r].sid = s, file'[s].is = "there"
          PROVE  file'[s].accessed <= Timeout + req'[r].age
      <4>1. file[s].is = "there" /\ req[r].sid = s
        BY <2>1, <2>2, <3>2
      <4>2. req[r].at # "none"
        BY <3>2, <4>1 DEF RequestsShort
      <4>3. file[s].accessed <= Timeout + req[r].age /\ req'[r].age = req[r].age + 1
        BY <2>2, <4>1, <4>2 DEF LoadedFresh
      <4>4. file[s].accessed \in Nat /\ file'[s].accessed <= file[s].accessed + 1 /\ req[r].age \in Nat
        BY <1>1, <2>1 DEF Old, ReqAt
      <4>5. file'[s].accessed \in Nat
        BY <1>1, <2>1 DEF Old
      <4>6. QED BY <4>3, <4>4, <4>5
    <3>3. QED BY <3>1, <3>2 DEF LoadedFresh
  <2>5. \A u \in Sid : Doomed(u) => Doomed(u)'
    <3>1. ASSUME NEW u \in Sid, Doomed(u), file[u].is = "there" PROVE file'[u].accessed > Timeout
      <4>1. file[u].accessed \in Nat /\ file[u].accessed > Timeout
        BY <1>1, <3>1 DEF Doomed
      <4>2. QED BY <2>1, <4>1 DEF Old
    <3>2. QED BY <2>1, <2>2, <3>1 DEF Doomed
  <2>6. Condemned'
    BY <1>1, <2>5 DEF Condemned
  <2>7. QED BY <1>0, <2>1, <2>3, <2>4, <2>6
<1>6. QED BY <1>2, <1>3, <1>4, <1>5

\* Steps of sweeps: a session is condemned when it is, by its times, out of any request's reach.
LEMMA SweepFilesStep ==
  ASSUME IInv, 0 < Grace, NEW w \in Sweeper, Lock(w) \/ Step(w) \/ Crash(w)
  PROVE  /\ IInv'
         /\ \A s \in Sid : file[s].is = "there" /\ file'[s].is = "gone" => Doomed(s)
<1> USE CleanupAssumption DEF IInv
<1>0. Typed'
  BY SweepTyped
<1>1. req' = req /\ (file' = file \/ Unlink(w))
  BY SweepFiles
<1>2. /\ \A s \in Sid : file[s] \in [is : {"never", "there", "gone"}, mtime : 0..Old, accessed : 0..Old]
      /\ \A r \in Reader : req[r] \in ReqAt
      /\ file \in [Sid -> [is : {"never", "there", "gone"}, mtime : 0..Old, accessed : 0..Old]]
      /\ pc \in [Sweeper -> PCs] /\ cur \in [Sweeper -> Sid \cup {NoSid}]
      /\ todo[w] \subseteq Sid
  BY DEF Typed, TypeOK
<1>3. /\ \A u \in Sid : file'[u] = file[u] \/ (Unlink(w) /\ u = cur[w] /\ pc[w] = "unlink"
                            /\ file'[u] = [is |-> "gone", mtime |-> 0, accessed |-> 0])
  BY <1>1, <1>2 DEF Unlink, At
<1>4. RequestsShort'
  BY <1>1 DEF RequestsShort
<1>5. LoadedFresh'
  BY <1>1, <1>3 DEF LoadedFresh
<1>6. \A u \in Sid : Doomed(u) => Doomed(u)'
  BY <1>1, <1>3 DEF Doomed
<1>7. Condemned'
  <2>1. \A v \in Sweeper : v # w => pc'[v] = pc[v] /\ cur'[v] = cur[v]
    BY <1>2 DEF Lock, Step, Crash, Stat, RemoveLock, ReadStatus, NextDir, CheckFile, Verify, Unlink,
           DirDone, AllDone, WriteStatus, Unlock, Ends, Goes
  <2>2. /\ pc'[w] \in {"verify", "unlink"} => cur'[w] \in Sid
        /\ pc'[w] = "unlink" => Doomed(cur[w])'
    <3>1. CASE \E s \in Sid : CheckFile(w, s)
      <4>1. PICK s \in Sid : CheckFile(w, s)
        BY <3>1
      <4>2. \/ pc' = pc /\ pc[w] = "files"
            \/ /\ cur'[w] = s /\ pc'[w] \in {"verify", "unlink"} /\ file[s].is = "there" /\ file' = file
               /\ pc'[w] = "unlink" => file[s].mtime >= Timeout + Grace
        BY <1>2, <4>1 DEF CheckFile, Goes, At, TooOld
      <4>3. ASSUME file[s].is = "there", file[s].mtime >= Timeout + Grace PROVE Doomed(s)
        <5>1. file[s].accessed >= Timeout + Grace /\ file[s].accessed \in Nat
          BY <1>2, <4>3 DEF LoadedFresh
        <5>2. ASSUME NEW r \in Reader, req[r].sid = s PROVE FALSE
          <6>1. req[r].age < Grace /\ req[r].age \in Nat
            BY <1>2, <5>2 DEF RequestsShort, ReqAt
          <6>2. file[s].accessed <= Timeout + req[r].age
            BY <4>3, <5>2 DEF LoadedFresh
          <6>3. QED BY <5>1, <6>1, <6>2
        <5>3. QED BY <4>3, <5>1, <5>2 DEF Doomed
      <4>4. pc'[w] = "unlink" => Doomed(s)'
        BY <1>6, <4>2, <4>3
      <4>5. QED BY <4>2, <4>4 DEF Doomed
    <3>2. CASE Verify(w)
      <4>1. /\ pc[w] = "verify" /\ cur' = cur /\ file' = file
            /\ pc'[w] \in {"unlink", "files"}
            /\ pc'[w] = "unlink" => file[cur[w]].is = "there" /\ file[cur[w]].accessed > Timeout + Grace
        BY <1>2, <3>2 DEF Verify, Goes, At
      <4>2. cur[w] \in Sid
        BY <4>1 DEF Condemned
      <4> DEFINE s == cur[w]
      <4>3. ASSUME file[s].is = "there", file[s].accessed > Timeout + Grace PROVE Doomed(s)
        <5>1. file[s].accessed \in Nat
          BY <1>2, <4>2
        <5>2. ASSUME NEW r \in Reader, req[r].sid = s PROVE FALSE
          <6>1. req[r].age < Grace /\ req[r].age \in Nat
            BY <1>2, <4>2, <5>2 DEF RequestsShort, ReqAt
          <6>2. file[s].accessed <= Timeout + req[r].age
            BY <4>2, <4>3, <5>2 DEF LoadedFresh
          <6>3. QED BY <4>3, <5>1, <6>1, <6>2
        <5>3. QED BY <4>3, <5>1, <5>2 DEF Doomed
      <4>4. pc'[w] = "unlink" => Doomed(cur[w])'
        BY <1>1, <4>1, <4>3 DEF Doomed
      <4>5. QED BY <4>1, <4>2, <4>4 DEF Doomed
    <3>3. CASE ~(\E s \in Sid : CheckFile(w, s)) /\ ~Verify(w)
      <4>1. pc'[w] \notin {"verify", "unlink"}
        BY <1>2, <3>3 DEF Lock, Step, Crash, Stat, RemoveLock, ReadStatus, NextDir, Unlink,
               DirDone, AllDone, WriteStatus, Unlock, Ends, Goes, At
      <4>2. QED BY <4>1
    <3>4. QED BY <3>1, <3>2, <3>3
  <2>3. ASSUME NEW v \in Sweeper, v # w
        PROVE  /\ pc'[v] \in {"verify", "unlink"} => cur'[v] \in Sid
               /\ pc'[v] = "unlink" => Doomed(cur[v])'
    <3>1. pc'[v] = pc[v] /\ cur'[v] = cur[v]
      BY <2>1, <2>3
    <3>2. ASSUME pc[v] = "unlink" PROVE Doomed(cur[v])'
      <4> DEFINE u == cur[v]
      <4>1. u \in Sid /\ Doomed(u)
        BY <3>2 DEF Condemned
      <4>2. /\ file'[u].is # "never" /\ (file'[u].is = "there" => file'[u].accessed > Timeout)
            /\ \A r \in Reader : req'[r].sid # u
        BY <1>1, <1>3, <4>1 DEF Doomed
      <4>3. QED BY <3>1, <4>2 DEF Doomed
    <3>3. QED BY <3>1, <3>2 DEF Condemned
  <2>4. QED BY <2>2, <2>3 DEF Condemned, Doomed
<1>8. \A s \in Sid : file[s].is = "there" /\ file'[s].is = "gone" => Doomed(s)
  BY <1>3 DEF Condemned
<1>9. QED BY <1>0, <1>4, <1>5, <1>7, <1>8

LEMMA FilesStep ==
  ASSUME IInv, 0 < Grace, Grace <= Timeout + 1, [Next]_vars
  PROVE  /\ IInv'
         /\ \A s \in Sid : file[s].is = "there" /\ file'[s].is = "gone" => Doomed(s)
<1>1. CASE UNCHANGED vars
  <2>1. IInv'
    BY <1>1 DEF vars, sweep, IInv, Typed, TypeOK, RequestsShort, LoadedFresh, Condemned, Doomed
  <2>2. QED BY <1>1, <2>1 DEF vars
<1>2. CASE \/ \E s \in Sid : NewSession(s)
           \/ \E r \in Reader : (\E s \in Sid : Load(r, s)) \/ Touch(r) \/ Save(r) \/ NoSave(r)
           \/ Tick
  BY <1>2, RequestFiles
<1>3. CASE \E w \in Sweeper : Lock(w) \/ Step(w) \/ Crash(w)
  BY <1>3, SweepFilesStep
<1>4. QED BY <1>1, <1>2, <1>3 DEF Next

\* Types, and what holds between files, requests and sweeps: whatever the bounds, unless
\* requests may take longer than the timeout.
THEOREM InvariantHolds == 0 < Grace /\ Grace <= Timeout + 1 => (Spec => []IInv)
<1> SUFFICES ASSUME 0 < Grace, Grace <= Timeout + 1 PROVE Spec => []IInv
  OBVIOUS
<1>1. Init => IInv
  BY InitFiles
<1>2. IInv /\ [Next]_vars => IInv'
  BY FilesStep
<1>3. QED BY <1>1, <1>2, PTL DEF Spec

\* Unless requests may take longer than the timeout, sessions that a request has loaded
\* and may still save are never deleted, however sweeps, crashes and requests meet.
THEOREM Expired == 0 < Grace /\ Grace <= Timeout + 1 => (Spec => OnlyExpired)
<1> SUFFICES ASSUME 0 < Grace, Grace <= Timeout + 1 PROVE Spec => OnlyExpired
  OBVIOUS
<1> DEFINE Deletes == \A s \in Sid : file[s].is = "there" /\ file'[s].is = "gone" =>
                         file[s].accessed > Timeout /\ \A r \in Reader : req[r].sid # s
<1>1. Init => IInv
  BY InitFiles
<1>2. IInv /\ [Next]_vars => IInv'
  BY FilesStep
<1>3. IInv /\ [Next]_vars => [Deletes]_vars
  BY FilesStep DEF Doomed
<1>4. OnlyExpired <=> [][Deletes]_vars
  BY DEF OnlyExpired
<1> HIDE DEF Deletes
<1>5. QED BY <1>1, <1>2, <1>3, <1>4, PTL DEF Spec
-----------------------------------------------------------------------------
(***************************************************************************)
(* Turns.                                                                  *)
(***************************************************************************)
LEMMA ModFacts ==
  ASSUME NEW n \in 0..NDir
  PROVE  n % NDir = IF n = NDir THEN 0 ELSE n
BY CleanupAssumption

\* What a step of a sweep, short of a crash, leaves alone.
LEMMA SweepFrame ==
  ASSUME PosTyped, NEW w \in Sweeper, Lock(w) \/ Step(w)
  PROVE  /\ conf' = conf /\ crashes' = crashes
         /\ \A v \in Sweeper : v # w => pc'[v] = pc[v] /\ i'[v] = i[v] /\ next'[v] = next[v]
BY DEF PosTyped, Lock, Step, Stat, RemoveLock, ReadStatus, NextDir, CheckFile, Verify, Unlink,
       DirDone, AllDone, WriteStatus, Unlock, Ends, Goes

LEMMA PosTypedStep ==
  ASSUME PosTyped, NEW w \in Sweeper, Lock(w) \/ Step(w)
  PROVE  PosTyped'
<1> USE CleanupAssumption
<1> USE DEF PosTyped, Goes, At, PCs, InFiles
<1>0. /\ [there |-> TRUE, age |-> 0] \in [there : BOOLEAN, age : 0..(StaleAge + 1)]
      /\ [there |-> FALSE, age |-> 0] \in [there : BOOLEAN, age : 0..(StaleAge + 1)]
      /\ 0 \in 0..NDir /\ 0 \in Dir
  BY DEF Dir
<1>1. CASE Lock(w)
  BY ZenonT(30), <1>0, <1>1 DEF Lock
<1>2. CASE Stat(w)
  BY <1>2 DEF Stat
<1>3. CASE RemoveLock(w)
  BY <1>3 DEF RemoveLock
<1>4. CASE ReadStatus(w)
  BY SMTT(30), <1>4 DEF ReadStatus, Dir
<1>5. CASE NextDir(w)
  <2>1. i[w] \in Dir /\ i[w] + 1 \in 0..NDir /\ -1 \in -1..(NDir + 1)
    BY SMTT(30), <1>5 DEF NextDir, Dir
  <2>2. CASE i[w] \in conf.dirs
    <3>1. /\ pc' \in [Sweeper -> PCs] /\ since' \in [Dir -> -1..(NDir + 1)] /\ i' = i
          /\ \A v \in Sweeper : v # w => pc'[v] = pc[v]
      BY <1>5, <2>1, <2>2 DEF NextDir
    <3>2. UNCHANGED <<conf, lockfile, status, next, crashes>>
      BY <1>5 DEF NextDir
    <3>3. \A v \in Sweeper : pc'[v] \in InFiles => i'[v] < NDir
      BY <1>5, <3>1 DEF NextDir
    <3>4. QED BY <3>1, <3>2, <3>3
  <2>3. CASE i[w] \notin conf.dirs
    BY <1>5, <2>1, <2>3 DEF NextDir
  <2>4. QED BY <2>2, <2>3
<1>6. CASE \E s \in Sid : CheckFile(w, s)
  BY <1>6 DEF CheckFile
<1>7. CASE Verify(w)
  BY <1>7 DEF Verify
<1>8. CASE Unlink(w)
  BY <1>8 DEF Unlink
<1>9. CASE DirDone(w)
  <2>1. i[w] \in 0..(NDir - 1) /\ i[w] + 1 \in 0..NDir
    BY <1>9 DEF DirDone
  <2>2. (i[w] + 1) % NDir \in Dir
    <3>1. (i[w] + 1) % NDir = IF i[w] + 1 = NDir THEN 0 ELSE i[w] + 1
      BY <2>1, ModFacts
    <3>2. (IF i[w] + 1 = NDir THEN 0 ELSE i[w] + 1) \in Dir
      BY <2>1 DEF Dir
    <3>3. QED BY <3>1, <3>2, Zenon
  <2>3. QED BY <1>9, <2>1, <2>2 DEF DirDone
<1>10. CASE AllDone(w)
  BY <1>10 DEF AllDone
<1>11. CASE WriteStatus(w)
  <2>1. \A d \in Dir : Min({since[d] + 1, NDir + 1}) \in -1..(NDir + 1)
    <3>1. SUFFICES ASSUME NEW d \in Dir PROVE Min({since[d] + 1, NDir + 1}) \in -1..(NDir + 1)
      OBVIOUS
    <3>2. since[d] \in -1..(NDir + 1)
      OBVIOUS
    <3>3. Min({since[d] + 1, NDir + 1}) = IF since[d] + 1 <= NDir + 1 THEN since[d] + 1 ELSE NDir + 1
      BY <3>2, MinFacts
    <3>4. QED BY <3>2, <3>3
  <2>2. QED BY <1>11, <2>1 DEF WriteStatus
<1>12. CASE Unlock(w)
  BY <1>0, <1>12 DEF Unlock, Ends
<1>13. QED
  BY <1>1, <1>2, <1>3, <1>4, <1>5, <1>6, <1>7, <1>8, <1>9, <1>10, <1>11, <1>12 DEF Step

\* While no child has died only the sweep at work has a lock file, and removes it.
LEMMA OneSweepStep ==
  ASSUME PosTyped, OneSweep, crashes = 0, NEW w \in Sweeper, Lock(w) \/ Step(w)
  PROVE  OneSweep'
<1> USE CleanupAssumption
<1>1. /\ crashes' = 0
      /\ \A v \in Sweeper : v # w => pc'[v] = pc[v]
  BY SweepFrame
<1>2. lockfile.age \in Nat /\ lockfile.there \in BOOLEAN /\ pc \in [Sweeper -> PCs]
  BY DEF PosTyped
<1>3. \/ Sweeping(w) /\ Sweeping(w)' /\ lockfile' = lockfile
      \/ ~Sweeping(w) /\ ~lockfile.there /\ Sweeping(w)' /\ lockfile' = [there |-> TRUE, age |-> 0]
      \/ ~Sweeping(w) /\ pc'[w] \in {"idle", "stat"} /\ lockfile' = lockfile
      \/ Sweeping(w) /\ pc'[w] = "idle" /\ lockfile' = [there |-> FALSE, age |-> 0]
  <2>1. CASE Lock(w)
    BY <1>2, <2>1 DEF Lock, At, Goes, Sweeping
  <2>2. CASE Stat(w)
    <3>1. ~(lockfile.there /\ lockfile.age > StaleAge)
      BY <1>2 DEF OneSweep
    <3>2. QED BY <1>2, <2>2, <3>1 DEF Stat, At, Goes, Sweeping
  <2>3. CASE RemoveLock(w)
    BY <2>3 DEF RemoveLock, At, OneSweep
  <2>4. CASE ReadStatus(w) \/ (\E s \in Sid : CheckFile(w, s)) \/ AllDone(w) \/ WriteStatus(w)
    BY <1>2, <2>4 DEF ReadStatus, CheckFile, AllDone, WriteStatus, At, Goes, Sweeping
  <2>5. CASE NextDir(w) \/ Verify(w) \/ Unlink(w) \/ DirDone(w)
    BY <1>2, <2>5 DEF NextDir, Verify, Unlink, DirDone, At, Goes, Sweeping
  <2>6. CASE Unlock(w)
    BY <1>2, <2>6 DEF Unlock, Ends, At, Goes, Sweeping
  <2>7. QED BY <2>1, <2>2, <2>3, <2>4, <2>5, <2>6 DEF Step
<1>4. \A v \in Sweeper : v # w => (Sweeping(v)' <=> Sweeping(v)) /\ (pc'[v] # "remove")
  BY <1>1 DEF Sweeping, OneSweep
<1>5. pc'[w] # "remove"
  BY <1>3 DEF Sweeping
<1>6. /\ \A u, v \in Sweeper : Sweeping(u)' /\ Sweeping(v)' => u = v
      /\ lockfile'.there <=> \E v \in Sweeper : Sweeping(v)'
      /\ lockfile'.age <= StaleAge
  <2> \A v \in Sweeper : Sweeping(v) \in BOOLEAN /\ Sweeping(v)' \in BOOLEAN
    BY DEF Sweeping
  <2>1. CASE Sweeping(w) /\ Sweeping(w)' /\ lockfile' = lockfile
    BY <1>4, <2>1 DEF OneSweep
  <2>2. CASE ~Sweeping(w) /\ ~lockfile.there /\ Sweeping(w)' /\ lockfile' = [there |-> TRUE, age |-> 0]
    BY <1>4, <2>2 DEF OneSweep
  <2>3. CASE ~Sweeping(w) /\ ~Sweeping(w)' /\ lockfile' = lockfile
    BY <1>4, <2>3 DEF OneSweep
  <2>4. CASE Sweeping(w) /\ ~Sweeping(w)' /\ lockfile' = [there |-> FALSE, age |-> 0]
    BY <1>4, <2>4 DEF OneSweep
  <2>5. pc'[w] \in {"idle", "stat"} => ~Sweeping(w)'
    BY DEF Sweeping
  <2>6. QED BY <1>3, <2>1, <2>2, <2>3, <2>4, <2>5
<1>7. QED BY <1>1, <1>4, <1>5, <1>6 DEF OneSweep, Sweeping

\* Bounds are at least one sweep and at most NDir.
LEMMA BoundFacts ==
  ASSUME NEW d \in Dir, NEW p \in Dir
  PROVE  Bound(d, p) \in 1..NDir
BY CleanupAssumption DEF Bound, Dir

LEMMA StartFacts == ASSUME PosTyped PROVE Start \in Dir
BY CleanupAssumption DEF PosTyped, Start, Dir

\* While a sweep is at work the others do not come through directories.
LEMMA Alone ==
  ASSUME OneSweep, crashes = 0, NEW w \in Sweeper, Sweeping(w)
  PROVE  \A v \in Sweeper : v # w => ~Sweeping(v) /\ ~InLoop(v)
BY DEF OneSweep, InLoop, InFiles, Sweeping

\* The steps that leave positions as they are.
LEMMA StayStep ==
  ASSUME TInv, crashes = 0, NEW w \in Sweeper,
         \/ Lock(w) \/ Stat(w) \/ RemoveLock(w) \/ Unlock(w)
         \/ (\E s \in Sid : CheckFile(w, s)) \/ Verify(w) \/ Unlink(w)
  PROVE  Onwards' /\ Turns'
<1>1. /\ UNCHANGED <<conf, status, since, crashes>>
      /\ \A v \in Sweeper : v # w => pc'[v] = pc[v] /\ i'[v] = i[v] /\ next'[v] = next[v]
  <2>1. Lock(w) \/ Step(w)
    BY DEF Step
  <2>2. UNCHANGED <<status, since>>
    BY DEF Lock, Stat, RemoveLock, Unlock, CheckFile, Verify, Unlink
  <2>3. QED BY <2>1, <2>2, SweepFrame DEF TInv
<1>2. \/ ~InLoop(w) /\ ~InLoop(w)'
      \/ pc[w] \in InFiles /\ pc'[w] \in InFiles /\ i' = i
  <2>1. pc \in [Sweeper -> PCs]
    BY DEF TInv, PosTyped
  <2>2. QED BY <2>1 DEF Lock, Stat, RemoveLock, Unlock, CheckFile, Verify, Unlink, Ends, Goes, At,
                        InLoop, InFiles
<1>3. Start' = Start /\ \A d, p : Bound(d, p)' = Bound(d, p)
  BY <1>1 DEF Start, Bound
<1>4. \A v \in Sweeper : InLoop(v)' <=> InLoop(v)
  BY <1>1, <1>2 DEF InLoop
<1>5. \A v \in Sweeper : InLoop(v)' => i'[v] = i[v]
  BY <1>1, <1>2, <1>4
<1>6. Onwards'
  BY <1>1, <1>3, <1>4, <1>5 DEF TInv, Onwards
<1>7. ASSUME NEW v \in Sweeper, InLoop(v), Underway(v) PROVE Underway(v)'
  <2>1. CASE v # w
    <3>1. pc'[v] = pc[v] /\ i'[v] = i[v] /\ next'[v] = next[v]
      BY <1>1, <2>1
    <3>2. QED BY <1>1, <1>3, <1>7, <3>1 DEF Underway, Start, Bound
  <2>2. CASE v = w
    <3>1. pc[v] \in InFiles /\ pc'[v] \in InFiles /\ i'[v] = i[v] /\ i[v] < NDir
      BY <1>2, <1>7, <2>2 DEF TInv, PosTyped
    <3>2. pc'[v] \notin {"dirs", "write"} /\ i[v] # NDir
      BY <3>1, CleanupAssumption DEF InFiles, TInv, PosTyped
    <3>3. QED BY <1>1, <1>3, <1>7, <3>1, <3>2 DEF Underway, Start, Bound
  <2>3. QED BY <2>1, <2>2
<1>8. Turns'
  BY <1>1, <1>3, <1>4, <1>7 DEF TInv, Turns
<1>9. QED BY <1>6, <1>8

\* A sweep begins where the status file says.
LEMMA ReadStatusStep ==
  ASSUME TInv, crashes = 0, NEW w \in Sweeper, ReadStatus(w)
  PROVE  Onwards' /\ Turns'
<1> USE CleanupAssumption
<1> DEFINE p == Start
<1>1. /\ UNCHANGED <<conf, status, since, crashes>>
      /\ pc[w] = "status" /\ pc'[w] = "dirs" /\ i'[w] = p /\ next'[w] = p
      /\ \A v \in Sweeper : v # w => pc'[v] = pc[v]
  BY DEF ReadStatus, At, Goes, TInv, PosTyped, Start
<1>2. \A v \in Sweeper : ~InLoop(v)
  BY <1>1, Alone DEF TInv, Sweeping, InLoop, InFiles
<1>3. \A v \in Sweeper : v # w => ~InLoop(v)'
  BY <1>1, <1>2 DEF InLoop
<1>4. Start' = p /\ p \in Dir
  BY <1>1, StartFacts DEF Start, TInv
<1>5. Onwards'
  BY <1>1, <1>3, <1>4 DEF Onwards, Dir
<1>6. InLoop(w)'
  BY <1>1 DEF InLoop
<1>7. ASSUME NDir - 1 \in conf.dirs PROVE Underway(w)'
  <2>1. \A d \in conf.dirs : since[d] <= Bound(d, p)
    BY <1>2, <1>7 DEF TInv, Turns
  <2>2. \A d \in conf.dirs : d \in Dir
    BY DEF TInv, PosTyped
  <2>3. \A d \in conf'.dirs : since'[d] <= IF p <= d /\ d < i'[w] THEN 0 ELSE Bound(d, p)
    BY <1>1, <1>4, <2>1, <2>2 DEF Dir
  <2>4. pc'[w] \notin InFiles /\ pc'[w] # "write" /\ i'[w] # NDir
    BY <1>1, <1>4 DEF InFiles, Dir
  <2>5. QED BY <1>4, <2>3, <2>4 DEF Underway, Bound, Start
<1>8. Turns'
  BY <1>1, <1>3, <1>6, <1>7 DEF Turns
<1>9. QED BY <1>5, <1>8

\* The sweep at work goes on from directory to directory, those before it being done.
LEMMA NextDirStep ==
  ASSUME TInv, crashes = 0, NEW w \in Sweeper, NextDir(w)
  PROVE  Onwards' /\ Turns'
<1> USE CleanupAssumption
<1> DEFINE p == Start
<1>1. /\ UNCHANGED <<conf, status, next, crashes>>
      /\ pc[w] = "dirs" /\ i[w] < NDir /\ pc'[w] \in {"dirs", "files"}
      /\ \A v \in Sweeper : v # w => pc'[v] = pc[v]
      /\ IF i[w] \in conf.dirs
         THEN pc'[w] = "files" /\ since' = [since EXCEPT ![i[w]] = -1] /\ i'[w] = i[w]
         ELSE pc'[w] = "dirs" /\ since' = since /\ i'[w] = i[w] + 1
  BY DEF NextDir, At, Goes, TInv, PosTyped
<1>2. Sweeping(w) /\ InLoop(w) /\ InLoop(w)'
  BY <1>1 DEF Sweeping, InLoop, InFiles
<1>3. \A v \in Sweeper : v # w => ~InLoop(v)'
  BY <1>1, <1>2, Alone DEF InLoop, TInv
<1>4. Start' = p /\ p \in Dir /\ i[w] \in 0..NDir /\ p <= i[w] /\ since \in [Dir -> -1..(NDir + 1)]
      /\ \A d \in conf.dirs : d \in Dir
  BY <1>1, <1>2, StartFacts DEF Start, TInv, PosTyped, Onwards
<1>5. Onwards'
  BY <1>1, <1>2, <1>3, <1>4 DEF Onwards, Dir
<1>6. ASSUME NDir - 1 \in conf.dirs PROVE Underway(w)'
  <2>1. Underway(w)
    BY <1>2, <1>6 DEF TInv, Turns
  <2>2. ASSUME NEW d \in Dir PROVE since'[d] \in Int /\ since'[d] <= since[d]
    <3>1. since[d] \in -1..(NDir + 1)
      BY <1>4
    <3>2. since'[d] = since[d] \/ since'[d] = -1
      BY <1>1, <1>4
    <3>3. QED BY <3>1, <3>2
  <2>3. ASSUME NEW d \in conf'.dirs
        PROVE  since'[d] <= IF p <= d /\ d < i'[w] THEN 0 ELSE Bound(d, p)
    <3>1. d \in conf.dirs /\ d \in Dir
      BY <1>1, <1>4, <2>3
    <3>2. since[d] <= IF p <= d /\ d < i[w] THEN 0 ELSE Bound(d, p)
      BY <2>1, <3>1 DEF Underway
    <3>3. Bound(d, p) \in 1..NDir
      BY <1>4, <3>1, BoundFacts
    <3>4. d < i'[w] => d < i[w]
      BY SMTT(30), <1>1, <1>4, <3>1 DEF Dir
    <3>5. since[d] \in Int
      BY <1>4, <3>1
    <3>6. since'[d] \in Int /\ since'[d] <= since[d]
      BY <2>2, <3>1
    <3>7. CASE p <= d /\ d < i'[w]
      BY <3>2, <3>4, <3>5, <3>6, <3>7
    <3>8. CASE ~(p <= d /\ d < i'[w])
      <4>1. since[d] <= Bound(d, p)
        <5> HIDE DEF p
        <5>1. QED BY <3>2, <3>3, <3>5
      <4>2. QED BY <3>3, <3>5, <3>6, <3>8, <4>1
    <3>9. QED BY <3>7, <3>8
  <2>4. pc'[w] \in InFiles => since'[i'[w]] <= 0
    BY SMTT(30), <1>1, <1>4 DEF InFiles, Dir
  <2>5. CASE \A d \in Dir : since[d] <= 0
    <3>1. \A d \in Dir : since'[d] <= 0
      BY <1>4, <2>2, <2>5
    <3>2. QED BY <1>4, <2>3, <2>4, <3>1 DEF Underway, Bound, Start
  <2>6. CASE ~\A d \in Dir : since[d] <= 0
    <3>1. pc'[w] # "write" /\ (pc'[w] = "dirs" => i'[w] # NDir)
      BY <1>1, <1>4, <1>6
    <3>2. QED BY <1>4, <2>3, <2>4, <3>1 DEF Underway, Bound, Start
  <2>7. QED BY <2>5, <2>6
<1>7. Turns'
  BY <1>1, <1>2, <1>3, <1>6 DEF Turns
<1>8. QED BY <1>5, <1>7

LEMMA DirDoneStep ==
  ASSUME TInv, crashes = 0, NEW w \in Sweeper, DirDone(w)
  PROVE  Onwards' /\ Turns'
<1> USE CleanupAssumption
<1> DEFINE p == Start
<1>1. /\ UNCHANGED <<conf, status, since, crashes>>
      /\ pc[w] = "files" /\ i[w] < NDir /\ pc'[w] \in {"dirs", "write"}
      /\ \A v \in Sweeper : v # w => pc'[v] = pc[v]
      /\ i'[w] = i[w] + 1 /\ next'[w] = (i[w] + 1) % NDir
  BY DEF DirDone, At, Goes, TInv, PosTyped, InFiles
<1>2. Sweeping(w) /\ InLoop(w) /\ InLoop(w)' /\ pc[w] \in InFiles
  BY <1>1 DEF Sweeping, InLoop, InFiles
<1>3. \A v \in Sweeper : v # w => ~InLoop(v)'
  BY <1>1, <1>2, Alone DEF InLoop, TInv
<1>4. Start' = p /\ p \in Dir /\ i[w] \in 0..NDir /\ p <= i[w] /\ since \in [Dir -> -1..(NDir + 1)]
      /\ \A d \in conf.dirs : d \in Dir
  BY <1>1, <1>2, StartFacts DEF Start, TInv, PosTyped, Onwards
<1>5. Onwards'
  BY SMTT(30), <1>1, <1>2, <1>3, <1>4 DEF Onwards, Dir
<1>6. ASSUME NDir - 1 \in conf.dirs PROVE Underway(w)'
  <2>1. Underway(w)
    BY <1>2, <1>6 DEF TInv, Turns
  <2>2. since[i[w]] <= 0
    BY <1>2, <2>1 DEF Underway
  <2>3. ASSUME NEW d \in conf.dirs
        PROVE  since[d] <= IF p <= d /\ d < i'[w] THEN 0 ELSE Bound(d, p)
    <3>1. since[d] <= IF p <= d /\ d < i[w] THEN 0 ELSE Bound(d, p)
      BY <2>1 DEF Underway
    <3>2. d \in Dir /\ since[d] \in Int
      BY <1>4
    <3>3. d < i'[w] => d < i[w] \/ d = i[w]
      BY <1>1, <1>4, <3>2 DEF Dir
    <3>4. d < i[w] => d < i'[w]
      BY <1>1, <1>4, <3>2 DEF Dir
    <3>5. QED BY <2>2, <3>1, <3>3, <3>4
  <2>4. pc'[w] \notin InFiles
    BY <1>1 DEF InFiles
  <2>5. /\ pc'[w] = "dirs" /\ i'[w] = NDir => next'[w] = 0
        /\ pc'[w] = "write" => next'[w] = i'[w] % NDir /\ p < i'[w]
    <3>1. i[w] + 1 \in 0..NDir /\ p < i[w] + 1
      BY SMTT(30), <1>1, <1>4 DEF Dir
    <3>2. (i[w] + 1) % NDir = IF i[w] + 1 = NDir THEN 0 ELSE i[w] + 1
      BY <3>1, ModFacts
    <3>3. QED BY <1>1, <3>1, <3>2
  <2>6. QED BY <1>1, <1>4, <2>3, <2>4, <2>5 DEF Underway, Bound, Start
<1>7. Turns'
  BY <1>1, <1>2, <1>3, <1>6 DEF Turns
<1>8. QED BY <1>5, <1>7

LEMMA AllDoneStep ==
  ASSUME TInv, crashes = 0, NEW w \in Sweeper, AllDone(w)
  PROVE  Onwards' /\ Turns'
<1> USE CleanupAssumption
<1> DEFINE p == Start
<1>1. /\ UNCHANGED <<conf, status, since, crashes, i, next>>
      /\ pc[w] = "dirs" /\ i[w] = NDir /\ pc'[w] = "write"
      /\ \A v \in Sweeper : v # w => pc'[v] = pc[v]
  BY DEF AllDone, At, Goes, TInv, PosTyped
<1>2. Sweeping(w) /\ InLoop(w) /\ InLoop(w)' /\ pc'[w] \notin InFiles
  BY <1>1 DEF Sweeping, InLoop, InFiles
<1>3. \A v \in Sweeper : v # w => ~InLoop(v)'
  BY <1>1, <1>2, Alone DEF InLoop, TInv
<1>4. Start' = p /\ p \in Dir
  BY <1>1, StartFacts DEF Start, TInv
<1>5. Onwards'
  BY <1>1, <1>2, <1>3, <1>4 DEF TInv, Onwards
<1>6. ASSUME NDir - 1 \in conf.dirs PROVE Underway(w)'
  <2>1. Underway(w)
    BY <1>2, <1>6 DEF TInv, Turns
  <2>2. NDir % NDir = 0 /\ p < NDir
    BY <1>4, ModFacts DEF Dir
  <2>3. \A d \in conf'.dirs : since'[d] <= IF p <= d /\ d < i'[w] THEN 0 ELSE Bound(d, p)
    BY <1>1, <2>1 DEF Underway
  <2>4. (\A d \in Dir : since[d] <= 0) \/ next[w] = 0
    BY <1>1, <2>1 DEF Underway
  <2>5. (\A d \in Dir : since'[d] <= 0) \/ (next'[w] = i'[w] % NDir /\ p < i'[w])
    BY <1>1, <2>2, <2>4
  <2>6. QED BY <1>1, <1>2, <1>4, <2>3, <2>5 DEF Underway, Bound, Start
<1>7. Turns'
  BY <1>1, <1>2, <1>3, <1>6 DEF Turns
<1>8. QED BY <1>5, <1>7

\* A sweep that ends, by itself or at the time limit, has the next one begin behind it.
LEMMA WriteStatusStep ==
  ASSUME TInv, crashes = 0, NEW w \in Sweeper, WriteStatus(w)
  PROVE  Onwards' /\ Turns'
<1> USE CleanupAssumption
<1> DEFINE p == Start
           q == next[w]
<1>1. /\ UNCHANGED <<conf, crashes, i, next>> /\ status' = q
      /\ pc[w] = "write" /\ pc'[w] = "unlock"
      /\ \A v \in Sweeper : v # w => pc'[v] = pc[v]
      /\ since' = [d \in Dir |-> Min({since[d] + 1, NDir + 1})]
  BY DEF WriteStatus, At, Goes, TInv, PosTyped
<1>2. Sweeping(w) /\ InLoop(w) /\ ~InLoop(w)'
  BY <1>1 DEF Sweeping, InLoop, InFiles
<1>3. \A v \in Sweeper : ~InLoop(v)'
  BY <1>1, <1>2, Alone DEF InLoop, TInv
<1>4. Onwards'
  BY <1>3 DEF Onwards
<1>5. p \in Dir /\ q \in Dir /\ Start' = q /\ i[w] \in 0..NDir /\ since \in [Dir -> -1..(NDir + 1)]
      /\ \A d \in conf.dirs : d \in Dir
  BY SMTT(30), <1>1, StartFacts DEF TInv, PosTyped, Start, Dir
<1>6. ASSUME NDir - 1 \in conf.dirs, NEW d \in conf.dirs PROVE since'[d] <= Bound(d, q)
  <2>1. Underway(w)
    BY <1>2, <1>6 DEF TInv, Turns
  <2>2. d \in Dir /\ since[d] \in -1..(NDir + 1)
    BY <1>5, <1>6
  <2>3. since'[d] <= since[d] + 1
    <3>1. Min({since[d] + 1, NDir + 1}) = IF since[d] + 1 <= NDir + 1 THEN since[d] + 1 ELSE NDir + 1
      BY <2>2, MinFacts
    <3>2. QED BY <1>1, <2>2, <3>1
  <2>4. since'[d] \in Int
    BY <1>1, <2>2, MinFacts
  <2>5. Bound(d, q) \in 1..NDir /\ Bound(d, p) \in 1..NDir
    BY <1>5, <2>2, BoundFacts
  <2>6. CASE since[d] <= 0
    BY <2>2, <2>3, <2>4, <2>5, <2>6
  <2>7. CASE ~(since[d] <= 0)
    <3>1. q = i[w] % NDir /\ p < i[w]
      BY <1>1, <2>1, <2>2, <2>7 DEF Underway
    <3>2. i[w] % NDir = IF i[w] = NDir THEN 0 ELSE i[w]
      BY <1>5, ModFacts
    <3>3. q = IF i[w] = NDir THEN 0 ELSE i[w]
      BY <3>1, <3>2
    <3>4. ~(p <= d /\ d < i[w]) /\ since[d] <= Bound(d, p)
      BY <2>1, <2>2, <2>7, <1>6 DEF Underway
    <3>5. Bound(d, p) + 1 <= Bound(d, q)
      <4> HIDE DEF p, q
      <4>1. p < i[w]
        BY <3>1
      <4>2. /\ d \in Nat /\ d < NDir /\ p \in Nat /\ p < NDir
            /\ i[w] \in Nat /\ i[w] <= NDir /\ NDir \in Nat
        BY <1>5, <2>2 DEF Dir
      <4>3. d < p \/ i[w] <= d
        BY <3>4, <4>2
      <4>4. CASE d < p
        BY <3>3, <4>1, <4>2, <4>4 DEF Bound
      <4>5. CASE i[w] <= d
        BY <3>3, <4>1, <4>2, <4>5 DEF Bound
      <4>6. QED BY <4>3, <4>4, <4>5
    <3>6. QED BY <2>2, <2>3, <2>4, <2>5, <3>4, <3>5
  <2>8. QED BY <2>6, <2>7
<1>7. Turns'
  BY <1>1, <1>3, <1>5, <1>6 DEF Turns, Bound
<1>8. QED BY <1>4, <1>7

\* Requests have nothing to do with turns, except for the first that makes a session in a
\* directory that is missing: it makes them all.
LEMMA RequestTurns ==
  ASSUME TInv,
         \/ \E s \in Sid : NewSession(s)
         \/ \E r \in Reader : (\E s \in Sid : Load(r, s)) \/ Touch(r) \/ Save(r) \/ NoSave(r)
         \/ Tick
  PROVE  TInv'
<1> USE CleanupAssumption
<1>1. /\ UNCHANGED <<status, pc, i, next, crashes>>
      /\ \/ conf' = conf /\ since' = since
         \/ conf' = [conf EXCEPT !.dirs = Dir] /\ since' = [d \in Dir |-> Min({since[d], 0})]
  BY DEF NewSession, Load, Touch, Save, NoSave, Tick, sweep
<1>2. lockfile' = lockfile \/ Tick
  BY DEF NewSession, Load, Touch, Save, NoSave
<1>3. /\ lockfile \in [there : BOOLEAN, age : 0..(StaleAge + 1)]
      /\ since \in [Dir -> -1..(NDir + 1)]
  BY DEF TInv, PosTyped
<1>4. Tick => lockfile' = [lockfile EXCEPT !.age =
                              IF lockfile.there
                              THEN IF lockfile.age < StaleAge + 1 THEN lockfile.age + 1 ELSE StaleAge + 1
                              ELSE 0]
  <2>1. Aged(lockfile.age, StaleAge + 1) =
           IF lockfile.age < StaleAge + 1 THEN lockfile.age + 1 ELSE StaleAge + 1
    BY <1>3, AgedFacts
  <2>2. QED BY <2>1 DEF Tick
<1>5. /\ lockfile' \in [there : BOOLEAN, age : 0..(StaleAge + 1)] /\ lockfile'.there = lockfile.there
      /\ lockfile'.age <= lockfile.age
         \/ /\ lockfile.age < StaleAge \/ (\A w \in Sweeper : pc[w] \in {"idle", "stat", "remove"})
            /\ lockfile'.age = IF lockfile.there THEN lockfile.age + 1 ELSE 0
         \/ lockfile.age > StaleAge
  <2>1. CASE lockfile' = lockfile
    BY <1>3, <2>1
  <2>2. CASE Tick
    <3> DEFINE a == IF lockfile.there
                    THEN IF lockfile.age < StaleAge + 1 THEN lockfile.age + 1 ELSE StaleAge + 1
                    ELSE 0
    <3>1. lockfile.age \in 0..(StaleAge + 1) /\ lockfile.there \in BOOLEAN
      BY <1>3
    <3>2. a \in 0..(StaleAge + 1)
      BY <3>1
    <3>3. lockfile' \in [there : BOOLEAN, age : 0..(StaleAge + 1)]
          /\ lockfile'.there = lockfile.there /\ lockfile'.age = a
      <4> HIDE DEF a
      <4>1. lockfile' = [lockfile EXCEPT !.age = a]
        BY <1>4, <2>2 DEF a
      <4>2. QED BY <1>3, <3>2, <4>1
    <3>4. lockfile.age < StaleAge \/ (\A w \in Sweeper : pc[w] \in {"idle", "stat", "remove"})
      BY <2>2 DEF Tick
    <3>5. lockfile.age > StaleAge \/ a = (IF lockfile.there THEN lockfile.age + 1 ELSE 0)
      BY <3>1
    <3>6. QED BY <3>3, <3>4, <3>5
  <2>3. QED BY <1>2, <2>1, <2>2
<1>6. \A d \in Dir : since'[d] \in -1..(NDir + 1) /\ since'[d] <= since[d]
  <2>1. SUFFICES ASSUME NEW d \in Dir PROVE since'[d] \in -1..(NDir + 1) /\ since'[d] <= since[d]
    OBVIOUS
  <2>2. since[d] \in -1..(NDir + 1)
    BY <1>3
  <2>3. Min({since[d], 0}) = IF since[d] <= 0 THEN since[d] ELSE 0
    BY <2>2, MinFacts
  <2>4. QED BY <1>1, <2>2, <2>3
<1>7. PosTyped'
  <2>1. since' \in [Dir -> -1..(NDir + 1)]
    BY <1>1, <1>3, <1>6
  <2>2. conf' \in [fast : BOOLEAN, verify : BOOLEAN, loads : BOOLEAN, limit : BOOLEAN,
                   crashes : Nat, dirs : SUBSET Dir]
    BY <1>1 DEF TInv, PosTyped
  <2>3. QED BY <1>1, <1>5, <2>1, <2>2 DEF TInv, PosTyped
<1>8. OneSweep'
  <2>1. SUFFICES ASSUME crashes = 0 PROVE OneSweep'
    BY <1>1 DEF OneSweep
  <2>2. lockfile.age <= StaleAge /\ (lockfile.there <=> \E w \in Sweeper : Sweeping(w))
    BY <2>1 DEF TInv, OneSweep
  <2>3. (\A w \in Sweeper : pc[w] \in {"idle", "stat", "remove"}) => ~lockfile.there
    BY <2>2 DEF Sweeping
  <2>4. lockfile'.age <= StaleAge
    BY <1>3, <1>5, <2>2, <2>3
  <2>5. QED BY <1>1, <1>5, <2>1, <2>4 DEF TInv, OneSweep, Sweeping
<1>9. Start' = Start /\ \A w \in Sweeper : InLoop(w)' <=> InLoop(w)
  BY <1>1 DEF Start, InLoop
<1>10. Onwards'
  BY <1>1, <1>9 DEF TInv, Onwards
<1>11. Turns'
  <2>1. CASE conf' = conf /\ since' = since
    BY <1>1, <1>9, <2>1 DEF TInv, Turns, Underway, Start, Bound, InLoop
  <2>2. CASE conf' = [conf EXCEPT !.dirs = Dir] /\ since' = [d \in Dir |-> Min({since[d], 0})]
    <3>1. conf'.dirs = Dir
      BY <2>2 DEF TInv, PosTyped
    <3>2. \A d \in Dir : since'[d] \in Int /\ since'[d] <= 0
      <4>1. SUFFICES ASSUME NEW d \in Dir PROVE since'[d] \in Int /\ since'[d] <= 0
        OBVIOUS
      <4>2. since[d] \in Int
        BY <1>3
      <4>3. Min({since[d], 0}) = IF since[d] <= 0 THEN since[d] ELSE 0
        BY <4>2, MinFacts
      <4>4. QED BY <2>2, <4>2, <4>3
    <3>3. Start \in Dir
      BY StartFacts DEF TInv
    <3>4. \A d \in Dir : since'[d] <= Bound(d, Start)
      BY <3>2, <3>3, BoundFacts
    <3>5. ASSUME NEW w \in Sweeper, InLoop(w) PROVE Underway(w)'
      <4>1. i'[w] = i[w] /\ i[w] \in 0..NDir /\ pc'[w] = pc[w] /\ (pc[w] \in InFiles => i[w] \in Dir)
        BY <1>1 DEF TInv, PosTyped, Dir
      <4>2. pc'[w] \in InFiles => since'[i'[w]] <= 0
        BY <3>2, <4>1
      <4>3. \A d \in conf'.dirs : since'[d] <= IF Start <= d /\ d < i'[w] THEN 0 ELSE Bound(d, Start)
        BY <3>1, <3>2, <3>4
      <4>4. QED BY <1>9, <3>2, <4>2, <4>3 DEF Underway, Start, Bound
    <3>6. QED BY <1>9, <3>1, <3>4, <3>5 DEF Turns, Bound, Start
  <2>3. QED BY <1>1, <2>1, <2>2
<1>12. QED BY <1>7, <1>8, <1>10, <1>11 DEF TInv

LEMMA TurnsStep ==
  ASSUME TInv, [Next]_vars
  PROVE  TInv'
<1>1. CASE UNCHANGED vars
  BY <1>1 DEF vars, sweep, TInv, PosTyped, OneSweep, Sweeping, Onwards, Turns, InLoop, Start, Bound,
             Underway
<1>2. CASE \/ \E s \in Sid : NewSession(s)
           \/ \E r \in Reader : (\E s \in Sid : Load(r, s)) \/ Touch(r) \/ Save(r) \/ NoSave(r)
           \/ Tick
  BY <1>2, RequestTurns
<1>3. CASE \E w \in Sweeper : Crash(w)
  <2>1. PICK w \in Sweeper : Crash(w)
    BY <1>3
  <2>2. crashes' # 0
    BY <2>1 DEF Crash, TInv, PosTyped
  <2>3. PosTyped'
    <3>1. 0 \in 0..NDir /\ 0 \in Dir
      BY CleanupAssumption DEF Dir
    <3>2. status' \in Dir \cup {-1}
      BY <2>1 DEF Crash, TInv, PosTyped
    <3>3. pc' = [pc EXCEPT ![w] = "idle"] /\ i' = [i EXCEPT ![w] = 0] /\ next' = [next EXCEPT ![w] = 0]
          /\ UNCHANGED <<conf, lockfile, since>> /\ crashes' = crashes + 1
      BY <2>1 DEF Crash, Ends, Goes
    <3>4. QED BY <3>1, <3>2, <3>3 DEF TInv, PosTyped, PCs, InFiles
  <2>4. QED BY <2>2, <2>3 DEF TInv, OneSweep, Onwards, Turns
<1>4. CASE \E w \in Sweeper : Lock(w) \/ Step(w)
  <2>1. PICK w \in Sweeper : Lock(w) \/ Step(w)
    BY <1>4
  <2>2. PosTyped'
    BY <2>1, PosTypedStep DEF TInv
  <2>3. CASE crashes # 0
    <3>1. crashes' # 0
      BY <2>1, <2>3, SweepFrame DEF TInv
    <3>2. QED BY <2>2, <3>1 DEF TInv, OneSweep, Onwards, Turns
  <2>4. CASE crashes = 0
    <3>1. OneSweep'
      BY <2>1, <2>4, OneSweepStep DEF TInv
    <3>2. Onwards' /\ Turns'
      BY <2>1, <2>4, StayStep, ReadStatusStep, NextDirStep, DirDoneStep, AllDoneStep, WriteStatusStep
         DEF Step
    <3>3. QED BY <2>2, <3>1, <3>2 DEF TInv
  <2>5. QED BY <2>3, <2>4
<1>5. QED BY <1>1, <1>2, <1>3, <1>4 DEF Next

LEMMA InitTurns == Init => TInv
<1> SUFFICES ASSUME Init PROVE TInv
  OBVIOUS
<1> USE CleanupAssumption
<1>1. 0 \in 0..NDir /\ 0 \in Dir /\ 0 \in -1..(NDir + 1) /\ 0 \in 0..(StaleAge + 1)
  BY DEF Dir
<1>2. PosTyped
  BY <1>1 DEF Init, PosTyped, PCs, InFiles
<1>3. \A w \in Sweeper : ~Sweeping(w) /\ ~InLoop(w) /\ pc[w] # "remove"
  BY DEF Init, Sweeping, InLoop, InFiles
<1>4. OneSweep /\ Onwards
  BY <1>3 DEF Init, OneSweep, Onwards
<1>5. \A d \in conf.dirs : since[d] <= Bound(d, Start)
  <2>1. SUFFICES ASSUME NEW d \in conf.dirs PROVE since[d] <= Bound(d, Start)
    OBVIOUS
  <2>2. d \in Dir /\ Start \in Dir /\ since[d] = 0
    BY <1>2, StartFacts DEF PosTyped, Init
  <2>3. Bound(d, Start) \in 1..NDir
    BY <2>2, BoundFacts
  <2>4. QED BY <2>2, <2>3
<1>6. QED BY <1>2, <1>3, <1>4, <1>5 DEF TInv, Turns

LEMMA TurnsMean == TInv => InTurn
<1> SUFFICES ASSUME TInv, crashes = 0
             PROVE  /\ Cardinality({w \in Sweeper : Sweeping(w)}) <= 1
                    /\ NDir - 1 \in conf.dirs => \A d \in conf.dirs : since[d] <= NDir
  BY DEF InTurn
<1>1. Cardinality({w \in Sweeper : Sweeping(w)}) <= 1
  <2>1. CASE {w \in Sweeper : Sweeping(w)} = {}
    BY <2>1, FS_EmptySet
  <2>2. CASE \E w \in Sweeper : Sweeping(w)
    <3>1. PICK w \in Sweeper : Sweeping(w)
      BY <2>2
    <3>2. \A v \in Sweeper : Sweeping(v) => v = w
      BY <3>1 DEF TInv, OneSweep
    <3>3. {v \in Sweeper : Sweeping(v)} = {w}
      BY <3>1, <3>2
    <3>4. QED BY <3>3, FS_Singleton
  <2>3. QED BY <2>1, <2>2
<1>2. ASSUME NDir - 1 \in conf.dirs, NEW d \in conf.dirs PROVE since[d] <= NDir
  <2>1. d \in Dir /\ since[d] \in Int /\ Bound(d, Start) \in 1..NDir
    BY StartFacts, BoundFacts DEF TInv, PosTyped
  <2>2. CASE \E w \in Sweeper : InLoop(w)
    <3>1. PICK w \in Sweeper : Underway(w)
      BY <1>2, <2>2 DEF TInv, Turns
    <3>2. since[d] <= 0 \/ since[d] <= Bound(d, Start)
      BY <1>2, <3>1 DEF Underway
    <3>3. QED BY <2>1, <3>2, CleanupAssumption
  <2>3. CASE \A w \in Sweeper : ~InLoop(w)
    <3>1. since[d] <= Bound(d, Start)
      BY <1>2, <2>3 DEF TInv, Turns
    <3>2. QED BY <2>1, <3>1, CleanupAssumption
  <2>4. QED BY <2>2, <2>3
<1>3. QED BY <1>1, <1>2

\* While no child dies in it there is one sweep at a time, and each directory that exists gets
\* its turn within as many sweeps as there are directories, wherever the time limit ends
\* them, provided that the last directory exists.
THEOREM TakesTurns == Spec => []InTurn
<1>1. Init => TInv
  BY InitTurns
<1>2. TInv /\ [Next]_vars => TInv'
  BY TurnsStep
<1>3. TInv => InTurn
  BY TurnsMean
<1>4. QED BY <1>1, <1>2, <1>3, PTL DEF Spec

-----------------------------------------------------------------------------
(***************************************************************************)
(* The global mutexes, for any number of workers, keys and mutexes, and    *)
(* any mutex that cannot be made.  The proofs need one thing of the keys:  *)
(* none has the hash INT_MIN, which C's abs() leaves negative.             *)
(***************************************************************************)
HashSafe == -IntMax - 1 \notin Hashes

-----------------------------------------------------------------------------
(* The inductive invariant.                                                *)

\* While the mutexes are made all of the first n are there, and nobody uses any.
Booting == phase = "boot" =>
    /\ made < G!locks /\ nlocks = G!locks /\ alive = 0..(made - 1)
    /\ \A w \in Worker : at[w] = "python" /\ index[w] = 0
    /\ \A x \in G!Mutex : owner[x] = NoWorker

\* A computed index counts among the mutexes that are left.
IndexBelow == \A w \in Worker : index[w] < nlocks

\* A mutex that somebody waits for or owns is one of them, and the server runs.
MutexInUse == /\ \A w \in Worker : at[w] = "waiting" => phase = "up"
              /\ \A x \in G!Mutex : owner[x] # NoWorker => x < nlocks /\ phase = "up"

MutexInv == G!TypeOK /\ Booting /\ MutexesAlive /\ IndexBelow /\ MutexInUse /\ ZeroReserved

-----------------------------------------------------------------------------
(* The number of mutexes asked for is positive.                            *)
LEMMA LocksType == G!locks \in Nat \ {0}
BY MutexAssumption DEF G!CountAssumption, G!locks

(* What C's % gives for a hash that is not negative.                       *)
LEMMA ModRange ==
    ASSUME NEW a \in Nat, NEW b \in Nat \ {0}
    PROVE  a % b \in Nat /\ a % b < b
OBVIOUS

(* The index of a key is one of the mutexes that are left, and not 0.      *)
LEMMA IndexOfInRange ==
    ASSUME HashSafe, G!TypeOK, NEW k \in Key, nlocks # 1
    PROVE  G!IndexOf(k) \in Nat \ {0} /\ G!IndexOf(k) < nlocks
<1>1. hash[k] \in (-IntMax - 1)..IntMax /\ hash[k] # -IntMax - 1 /\ IntMax \in Nat
  BY MutexAssumption DEF G!HashAssumption, G!TypeOK, HashSafe
<1>2. G!CAbs(hash[k]) \in Nat
  BY <1>1 DEF G!CAbs
<1>3. PICK m \in Nat \ {0} : m = nlocks - 1 /\ nlocks = m + 1
  BY LocksType DEF G!TypeOK
<1>4. PICK h \in Nat : h = G!CAbs(hash[k])
  BY <1>2
<1>5. G!CMod(h, m) = h % m
  BY DEF G!CMod
<1>6. h % m \in Nat /\ h % m < m
  BY ModRange
<1>7. G!IndexOf(k) = (h % m) + 1
  BY <1>3, <1>4, <1>5 DEF G!IndexOf
<1> HIDE DEF G!IndexOf
<1> QED
  BY <1>3, <1>6, <1>7

(* Whatever a call computes is a mutex that is left, and not 0 for a key.  *)
LEMMA AsksInRange ==
    ASSUME HashSafe, MutexInv, NEW w \in Worker, G!Asks(w)
    PROVE  \E x \in 0..(nlocks - 1) :
              /\ index' = [index EXCEPT ![w] = x]
              /\ \/ byKey' = [byKey EXCEPT ![w] = FALSE]
                 \/ byKey' = [byKey EXCEPT ![w] = TRUE] /\ x # 0
              /\ phase = "up"
              /\ UNCHANGED <<phase, made, nlocks, alive, hash>>
<1>1. CASE \E k \in Key : G!KeyCall(w, k)
  <2>1. PICK k \in Key : G!KeyCall(w, k)
    BY <1>1
  <2>2. G!IndexOf(k) \in Nat \ {0} /\ G!IndexOf(k) < nlocks
    BY <2>1, IndexOfInRange DEF G!KeyCall, MutexInv
  <2>3. G!IndexOf(k) \in 0..(nlocks - 1) /\ G!IndexOf(k) # 0
    BY <2>2, LocksType DEF MutexInv, G!TypeOK
  <2> QED
    BY <2>1, <2>3 DEF G!KeyCall, G!Call
<1>2. CASE \E x \in 0..G!locks : G!IndexCall(w, x)
  <2>1. PICK x \in 0..G!locks : G!IndexCall(w, x)
    BY <1>2
  <2>2. x \in 0..(nlocks - 1)
    BY <2>1, LocksType DEF G!IndexCall, G!InRange, MutexInv, G!TypeOK
  <2> QED
    BY <2>1, <2>2 DEF G!IndexCall, G!Call
<1> QED
  BY <1>1, <1>2 DEF G!Asks

-----------------------------------------------------------------------------
LEMMA InitMutex == G!Init => MutexInv
BY LocksType, MutexAssumption
   DEF G!WorkerAssumption, G!Init, MutexInv, G!TypeOK, Booting, MutexesAlive, G!MutexesAlive, IndexBelow, MutexInUse, ZeroReserved, G!ZeroReserved, G!Mutex

LEMMA CreateOkMutex == MutexInv /\ G!CreateOk => MutexInv'
<1> SUFFICES ASSUME MutexInv, G!CreateOk PROVE MutexInv'
  OBVIOUS
<1> USE LocksType DEF MutexInv, G!CreateOk, G!Boot
<1>1. G!TypeOK'
  BY DEF G!TypeOK, G!Mutex
<1>2. alive' = 0..made /\ made + 1 <= G!locks
  BY DEF G!TypeOK, Booting
<1>3. Booting'
  BY <1>2 DEF G!TypeOK, Booting
<1>4. MutexesAlive'
  BY <1>2 DEF G!TypeOK, Booting, MutexesAlive, G!MutexesAlive
<1>5. IndexBelow' /\ MutexInUse' /\ ZeroReserved'
  BY DEF G!TypeOK, Booting, IndexBelow, MutexInUse, ZeroReserved, G!ZeroReserved
<1> QED
  BY <1>1, <1>3, <1>4, <1>5

LEMMA CreateFailMutex == MutexInv /\ (G!CreateFailLate \/ G!CreateFailEarly) => MutexInv'
<1> SUFFICES ASSUME MutexInv, G!CreateFailLate \/ G!CreateFailEarly PROVE MutexInv'
  OBVIOUS
<1> USE LocksType DEF MutexInv, G!Boot
<1>1. CASE G!CreateFailLate
  <2> USE <1>1 DEF G!CreateFailLate
  <2>1. nlocks' \in 1..G!locks /\ alive' = 0..(nlocks' - 1)
    BY DEF G!TypeOK, Booting
  <2>2. G!TypeOK'
    BY <2>1 DEF G!TypeOK, G!Mutex
  <2>3. Booting' /\ MutexesAlive'
    BY <2>1 DEF Booting, MutexesAlive, G!MutexesAlive
  <2>4. IndexBelow' /\ MutexInUse' /\ ZeroReserved'
    BY <2>1 DEF G!TypeOK, Booting, IndexBelow, MutexInUse, ZeroReserved, G!ZeroReserved
  <2> QED
    BY <2>2, <2>3, <2>4
<1>2. CASE G!CreateFailEarly
  BY <1>2 DEF G!CreateFailEarly, G!TypeOK, Booting, MutexesAlive, G!MutexesAlive, IndexBelow, MutexInUse, ZeroReserved, G!ZeroReserved
<1> QED
  BY <1>1, <1>2

(* A call by w that computes an index keeps the invariant, if what it does *)
(* to the owner of that mutex is to set or reset it.                       *)
LEMMA AsksMutex ==
    ASSUME HashSafe, MutexInv, NEW w \in Worker, G!Asks(w),
           NEW o \in Worker \cup {NoWorker}, NEW p \in {"python", "waiting"},
           owner' = owner \/ owner' = [owner EXCEPT ![index'[w]] = o],
           at' = at \/ at' = [at EXCEPT ![w] = p]
    PROVE  MutexInv'
<1>1. PICK x \in 0..(nlocks - 1) :
         /\ index' = [index EXCEPT ![w] = x]
         /\ \/ byKey' = [byKey EXCEPT ![w] = FALSE]
            \/ byKey' = [byKey EXCEPT ![w] = TRUE] /\ x # 0
         /\ phase = "up"
         /\ UNCHANGED <<phase, made, nlocks, alive, hash>>
  BY AsksInRange
<1>2. x \in G!Mutex /\ x < nlocks /\ nlocks \in Nat
  BY LocksType DEF MutexInv, G!TypeOK, G!Mutex
<1>3. index'[w] = x
  BY <1>1 DEF MutexInv, G!TypeOK
<1>4. G!TypeOK'
  <2>1. owner' \in [G!Mutex -> Worker \cup {NoWorker}]
    BY <1>2, <1>3 DEF MutexInv, G!TypeOK
  <2>2. at' \in [Worker -> {"python", "waiting", "crashed"}]
    BY DEF MutexInv, G!TypeOK
  <2>3. index' \in [Worker -> G!Mutex] /\ byKey' \in [Worker -> BOOLEAN]
    BY <1>1, <1>2 DEF MutexInv, G!TypeOK
  <2> QED
    BY <1>1, <2>1, <2>2, <2>3 DEF MutexInv, G!TypeOK, G!Mutex, G!locks
<1>5. Booting' /\ MutexesAlive'
  BY <1>1 DEF MutexInv, Booting, MutexesAlive, G!MutexesAlive
<1>6. IndexBelow'
  BY <1>1, <1>2 DEF MutexInv, G!TypeOK, IndexBelow
<1>7. MutexInUse'
  BY <1>1, <1>2, <1>3 DEF MutexInv, G!TypeOK, MutexInUse
<1>8. ZeroReserved'
  BY <1>1 DEF MutexInv, G!TypeOK, ZeroReserved, G!ZeroReserved
<1> QED
  BY <1>4, <1>5, <1>6, <1>7, <1>8 DEF MutexInv

LEMMA AcquireMutex ==
    ASSUME MutexInv, NEW w \in Worker, G!Acquire(w)
    PROVE  MutexInv'
<1> USE DEF MutexInv, G!Acquire
<1>1. phase = "up" /\ index[w] \in G!Mutex /\ index[w] < nlocks
  BY DEF G!TypeOK, MutexInUse, IndexBelow
<1>2. G!TypeOK'
  BY <1>1 DEF G!TypeOK
<1>3. Booting' /\ MutexesAlive' /\ IndexBelow' /\ ZeroReserved'
  BY <1>1 DEF Booting, MutexesAlive, G!MutexesAlive, IndexBelow, ZeroReserved, G!ZeroReserved
<1>4. MutexInUse'
  BY <1>1 DEF G!TypeOK, MutexInUse
<1> QED
  BY <1>2, <1>3, <1>4

LEMMA DivideByZeroMutex ==
    ASSUME MutexInv, NEW w \in Worker, NEW k \in Key, G!DivideByZero(w, k)
    PROVE  MutexInv'
<1> USE DEF MutexInv, G!DivideByZero, G!Call
<1>1. G!TypeOK'
  BY DEF G!TypeOK
<1>2. Booting' /\ MutexesAlive' /\ IndexBelow' /\ ZeroReserved'
  BY DEF Booting, MutexesAlive, G!MutexesAlive, IndexBelow, ZeroReserved, G!ZeroReserved
<1>3. MutexInUse'
  BY DEF G!TypeOK, MutexInUse
<1> QED
  BY <1>1, <1>2, <1>3

LEMMA NextMutex == HashSafe /\ MutexInv /\ [G!Next]_(G!vars) => MutexInv'
<1> SUFFICES ASSUME HashSafe, MutexInv, [G!Next]_(G!vars) PROVE MutexInv'
  OBVIOUS
<1>1. CASE G!CreateOk
  BY <1>1, CreateOkMutex
<1>2. CASE G!CreateFailLate \/ G!CreateFailEarly
  BY <1>2, CreateFailMutex
<1>3. ASSUME NEW w \in Worker, G!GlobalLock(w) PROVE MutexInv'
  BY <1>3, AsksMutex DEF G!GlobalLock
<1>4. ASSUME NEW w \in Worker, G!Acquire(w) PROVE MutexInv'
  BY <1>4, AcquireMutex
<1>5. ASSUME NEW w \in Worker, G!GlobalTrylock(w) PROVE MutexInv'
  BY <1>5, AsksMutex DEF G!GlobalTrylock
<1>6. ASSUME NEW w \in Worker, G!GlobalUnlock(w) PROVE MutexInv'
  BY <1>6, AsksMutex DEF G!GlobalUnlock
<1>7. ASSUME NEW w \in Worker, NEW k \in Key, G!DivideByZero(w, k) PROVE MutexInv'
  BY <1>7, DivideByZeroMutex
<1>8. CASE UNCHANGED G!vars
  BY <1>8 DEF G!vars, MutexInv, G!TypeOK, Booting, MutexesAlive, G!MutexesAlive, IndexBelow, MutexInUse, ZeroReserved, G!ZeroReserved
<1> QED
  BY <1>1, <1>2, <1>3, <1>4, <1>5, <1>6, <1>7, <1>8 DEF G!Next

(* The invariant holds at all times, whichever mutexes cannot be made.     *)
THEOREM MutexInvariantHolds ==
    ASSUME HashSafe
    PROVE  G!Spec => []MutexInv
<1>1. MutexInv /\ [G!Next]_(G!vars) => MutexInv'
  BY NextMutex
<1> QED
  BY InitMutex, <1>1, PTL DEF G!Spec

(* Every variable keeps its type.                                          *)
THEOREM MutexTypeCorrect ==
    ASSUME HashSafe
    PROVE  G!Spec => []G!TypeOK
<1>1. MutexInv => G!TypeOK
  BY DEF MutexInv
<1> QED
  BY MutexInvariantHolds, <1>1, PTL

(* glb->nlocks only counts mutexes that exist (init_mutexes).              *)
THEOREM Alive ==
    ASSUME HashSafe
    PROVE  G!Spec => []MutexesAlive
<1>1. MutexInv => MutexesAlive
  BY DEF MutexInv
<1> QED
  BY MutexInvariantHolds, <1>1, PTL

(* No thread waits for or owns a mutex that was not made or that was given *)
(* back (_global_lock, _global_trylock).                                   *)
THEOREM UsedAlive ==
    ASSUME HashSafe
    PROVE  G!Spec => []G!OwnedAlive
<1>1. ASSUME MutexInv PROVE G!OwnedAlive
  <2>1. ASSUME NEW w \in Worker, at[w] = "waiting" PROVE index[w] \in alive
    BY <1>1, <2>1, LocksType DEF MutexInv, G!TypeOK, MutexInUse, IndexBelow, MutexesAlive, G!MutexesAlive, G!Mutex
  <2>2. ASSUME NEW x \in G!Mutex, owner[x] # NoWorker PROVE x \in alive
    BY <1>1, <2>2, LocksType DEF MutexInv, G!TypeOK, MutexInUse, MutexesAlive, G!MutexesAlive, G!Mutex
  <2> QED
    BY <2>1, <2>2 DEF G!OwnedAlive
<1> QED
  BY MutexInvariantHolds, <1>1, PTL

(* A key never gets mutex 0, that of the dbm files.                        *)
THEOREM Reserved ==
    ASSUME HashSafe
    PROVE  G!Spec => []ZeroReserved
<1>1. MutexInv => ZeroReserved
  BY DEF MutexInv
<1> QED
  BY MutexInvariantHolds, <1>1, PTL

-----------------------------------------------------------------------------
(* Going on.                                                               *)

\* There are mutexes for the keys, beside that of the dbm files.
KeysHaveMutex ==
    /\ made \in 0..G!locks /\ nlocks \in Nat /\ nlocks # 1
    /\ phase = "boot" => nlocks = G!locks
    /\ at \in [Worker -> {"python", "waiting", "crashed"}]

(* Only the third and the fourth mutex, if they cannot be made, leave one. *)
LEMMA NextKeysHaveMutex ==
    ASSUME MayFail \cap {2, 3} = {}, G!GoesOn, KeysHaveMutex, [G!Next]_(G!vars)
    PROVE  (G!GoesOn /\ KeysHaveMutex)'
<1> USE LocksType DEF G!GoesOn, KeysHaveMutex
<1>1. CASE G!CreateOk
  BY <1>1 DEF G!CreateOk, G!Boot
<1>2. CASE G!CreateFailLate
  <2>1. made \in Nat /\ made > 3
    BY <1>2 DEF G!CreateFailLate
  <2> QED
    BY <1>2, <2>1 DEF G!CreateFailLate, G!Boot
<1>3. CASE G!CreateFailEarly
  BY <1>3 DEF G!CreateFailEarly, G!Boot
<1>4. ASSUME NEW w \in Worker, G!GlobalLock(w) \/ G!Acquire(w) \/ G!GlobalTrylock(w) \/ G!GlobalUnlock(w)
      PROVE  (G!GoesOn /\ KeysHaveMutex)'
  <2>1. UNCHANGED <<phase, made, nlocks>>
    BY <1>4 DEF G!GlobalLock, G!Acquire, G!GlobalTrylock, G!GlobalUnlock, G!Asks, G!KeyCall, G!IndexCall, G!Call
  <2>2. at' = at \/ at' = [at EXCEPT ![w] = "waiting"] \/ at' = [at EXCEPT ![w] = "python"]
    BY <1>4 DEF G!GlobalLock, G!Acquire, G!GlobalTrylock, G!GlobalUnlock, G!Asks, G!KeyCall, G!IndexCall, G!Call
  <2>3. \A v \in Worker : at'[v] # "crashed"
    BY <2>2
  <2>4. at' \in [Worker -> {"python", "waiting", "crashed"}]
    BY <2>2
  <2> QED
    BY <2>1, <2>3, <2>4
<1>5. ASSUME NEW w \in Worker, NEW k \in Key, G!DivideByZero(w, k)
      PROVE  (G!GoesOn /\ KeysHaveMutex)'
  BY <1>5 DEF G!DivideByZero
<1>6. CASE UNCHANGED G!vars
  BY <1>6 DEF G!vars
<1> QED
  BY <1>1, <1>2, <1>3, <1>4, <1>5, <1>6 DEF G!Next

(* With more than one mutex asked for, and the third and the fourth made,  *)
(* no call by key divides by zero: "we can probably continue" is wrong for *)
(* these two failures only (init_mutexes, mod_python.c).                   *)
THEOREM Continues ==
    G!locks # 1 /\ MayFail \cap {2, 3} = {} => (G!Spec => []G!GoesOn)
<1> SUFFICES ASSUME G!locks # 1, MayFail \cap {2, 3} = {} PROVE G!Spec => []G!GoesOn
  OBVIOUS
<1>1. G!Init => G!GoesOn /\ KeysHaveMutex
  BY LocksType DEF G!Init, G!GoesOn, KeysHaveMutex
<1>2. G!GoesOn /\ KeysHaveMutex /\ [G!Next]_(G!vars) => (G!GoesOn /\ KeysHaveMutex)'
  BY NextKeysHaveMutex
<1> QED
  BY <1>1, <1>2, PTL DEF G!Spec
=============================================================================
