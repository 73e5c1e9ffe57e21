----------------------------- MODULE FileCleanup -----------------------------
(***************************************************************************)
(* The sweep of the files of FileSession, filesession_cleanup(), which any *)
(* child may start at the end of a request, and the requests that load and *)
(* save sessions meanwhile.  Sweeps keep each other out with a lock file   *)
(* and take turns through the directories with a status file; requests and *)
(* sweeps are kept apart by nothing but time.                              *)
(*                                                                         *)
(* Times are ages that Tick makes older, up to Old, beyond which the code  *)
(* makes no difference.                                                    *)
(***************************************************************************)
EXTENDS Integers, FiniteSets, FiniteSetsExt

CONSTANTS
    Sweeper, Reader,   \* children that sweep, requests that use a session
    Sid,
    NDir,              \* 256: sessions are in directories 0..NDir-1
    DirOf,             \* the directory of a session
    Timeout, Grace,    \* of sessions and of the sweep, which have the same timeout
    StaleAge,          \* 3600: the age of a lock file that is taken for left behind
    Configs,           \* [fast, verify, loads, limit, crashes, dirs]
    NoSid

Dir == 0..(NDir - 1)
Old == Timeout + Grace + 1

ASSUME CleanupAssumption ==
    /\ NDir \in Nat \ {0} /\ DirOf \in [Sid -> Dir]
    /\ Timeout \in Nat /\ Grace \in Nat /\ StaleAge \in Nat
    /\ NoSid \notin Sid
    /\ Configs \subseteq [fast : BOOLEAN, verify : BOOLEAN, loads : BOOLEAN, limit : BOOLEAN,
                          crashes : Nat, dirs : SUBSET Dir]

VARIABLES
    conf,       \* fixed in a behaviour
    file,       \* [is, mtime, accessed]: a session file and the ages in and of it
    lockfile,   \* [there, age]
    status,     \* next_i in fs_status.txt, -1 if it cannot be read
    pc, i, next, todo, cur,   \* a sweep
    req,        \* [at, sid, age]: a request that has loaded a session
    since,      \* completed sweeps since one came through a directory, or since there are all
    crashes     \* how often a child died in a sweep

sweep == <<pc, i, next, todo, cur>>
vars == <<conf, file, lockfile, status, sweep, req, since, crashes>>

NoReq == [at |-> "none", sid |-> NoSid, age |-> 0]
Aged(a, cap) == Min({a + 1, cap})

Init ==
    /\ conf \in Configs
    /\ file \in [Sid -> {[is |-> "never", mtime |-> 0, accessed |-> 0],
                         [is |-> "there", mtime |-> 0, accessed |-> 0]}]
    /\ \A s \in Sid : file[s].is = "there" => DirOf[s] \in conf.dirs
    /\ lockfile = [there |-> FALSE, age |-> 0]
    /\ status \in {-1, 0}
    /\ pc = [w \in Sweeper |-> "idle"]
    /\ i = [w \in Sweeper |-> 0] /\ next = [w \in Sweeper |-> 0]
    /\ todo = [w \in Sweeper |-> {}] /\ cur = [w \in Sweeper |-> NoSid]
    /\ req = [r \in Reader |-> NoReq]
    /\ since = [d \in Dir |-> 0]
    /\ crashes = 0

-----------------------------------------------------------------------------
(* Requests.                                                               *)

\* A request that found no session saves a new one.
NewSession(s) ==
    /\ file[s].is = "never"
    /\ file' = [file EXCEPT ![s] = [is |-> "there", mtime |-> 0, accessed |-> 0]]
    /\ IF DirOf[s] \in conf.dirs THEN UNCHANGED <<conf, since>>
       ELSE /\ conf' = [conf EXCEPT !.dirs = Dir]
            /\ since' = [d \in Dir |-> Min({since[d], 0})]
    /\ UNCHANGED <<lockfile, status, sweep, req, crashes>>

\* do_load() reads a file that has not expired, and will set its modification time.
Load(r, s) ==
    /\ req[r] = NoReq
    /\ file[s].is = "there" /\ file[s].accessed <= Timeout
    /\ req' = [req EXCEPT ![r] = [at |-> "touch", sid |-> s, age |-> 0]]
    /\ UNCHANGED <<conf, file, lockfile, status, sweep, since, crashes>>

\* os.utime(); if the file is gone there is an exception, and nothing is loaded.
Touch(r) ==
    /\ req[r].at = "touch"
    /\ IF file[req[r].sid].is = "there"
       THEN /\ file' = [file EXCEPT ![req[r].sid].mtime = 0]
            /\ req' = [req EXCEPT ![r].at = "handler"]
       ELSE req' = [req EXCEPT ![r] = NoReq] /\ UNCHANGED file
    /\ UNCHANGED <<conf, lockfile, status, sweep, since, crashes>>

\* The request ends, having saved its session or not.  _accessed is from its start.
Save(r) ==
    /\ req[r].at = "handler"
    /\ file' = [file EXCEPT ![req[r].sid] =
                    [is |-> "there", mtime |-> 0, accessed |-> req[r].age]]
    /\ req' = [req EXCEPT ![r] = NoReq]
    /\ UNCHANGED <<conf, lockfile, status, sweep, since, crashes>>

NoSave(r) ==
    /\ req[r].at = "handler"
    /\ req' = [req EXCEPT ![r] = NoReq]
    /\ UNCHANGED <<conf, file, lockfile, status, sweep, since, crashes>>

\* Time passes.  Requests are shorter than the grace period, as the comment on
\* filesession_cleanup() asks, and sweeps shorter than an hour.
Tick ==
    /\ \A r \in Reader : req[r].at # "none" => req[r].age + 1 < Grace
    /\ lockfile.age < StaleAge \/ \A w \in Sweeper : pc[w] \in {"idle", "stat", "remove"}
    /\ file' = [s \in Sid |-> [file[s] EXCEPT !.mtime = Aged(@, Old), !.accessed = Aged(@, Old)]]
    /\ lockfile' = [lockfile EXCEPT !.age = IF lockfile.there THEN Aged(@, StaleAge + 1) ELSE 0]
    /\ req' = [r \in Reader |-> [req[r] EXCEPT !.age = IF req[r].at = "none" THEN 0 ELSE @ + 1]]
    /\ UNCHANGED <<conf, status, sweep, since, crashes>>

-----------------------------------------------------------------------------
(* A sweep.                                                                *)

At(w, a) == pc[w] = a
Goes(w, a) == pc' = [pc EXCEPT ![w] = a]

\* The sweep is over, and its local variables are gone.
Ends(w) ==
    /\ Goes(w, "idle")
    /\ i' = [i EXCEPT ![w] = 0] /\ next' = [next EXCEPT ![w] = 0]
    /\ todo' = [todo EXCEPT ![w] = {}] /\ cur' = [cur EXCEPT ![w] = NoSid]

\* The lock file is made if there is none, else its age is looked at.
Lock(w) ==
    /\ At(w, "idle")
    /\ IF lockfile.there THEN Goes(w, "stat") /\ UNCHANGED lockfile
       ELSE Goes(w, "status") /\ lockfile' = [there |-> TRUE, age |-> 0]
    /\ UNCHANGED <<conf, file, status, i, next, todo, cur, req, since, crashes>>

\* Fault: a lock file is never taken for left behind.
StatNever(w) ==
    /\ At(w, "stat") /\ Goes(w, "idle")
    /\ UNCHANGED <<conf, file, lockfile, status, i, next, todo, cur, req, since, crashes>>

\* os.stat(): the file may be gone, which is an exception.
Stat(w) ==
    /\ At(w, "stat")
    /\ Goes(w, IF lockfile.there /\ lockfile.age > StaleAge THEN "remove" ELSE "idle")
    /\ UNCHANGED <<conf, file, lockfile, status, i, next, todo, cur, req, since, crashes>>

\* The old lock file is removed, and this sweep left to the next.
RemoveLock(w) ==
    /\ At(w, "remove") /\ Goes(w, "idle")
    /\ lockfile' = [there |-> FALSE, age |-> 0]
    /\ UNCHANGED <<conf, file, status, i, next, todo, cur, req, since, crashes>>

\* The status file says where to go on; without it the sweep begins at 0.
ReadStatus(w) ==
    /\ At(w, "status") /\ Goes(w, "dirs")
    /\ LET n == IF status = -1 THEN 0 ELSE status
       IN i' = [i EXCEPT ![w] = n] /\ next' = [next EXCEPT ![w] = n]
    /\ UNCHANGED <<conf, file, lockfile, status, todo, cur, req, since, crashes>>

\* The loop over the directories: one that is missing is passed over.
NextDir(w) ==
    /\ At(w, "dirs") /\ i[w] < NDir
    /\ IF i[w] \in conf.dirs
       THEN /\ Goes(w, "files")
            /\ todo' = [todo EXCEPT ![w] = {s \in Sid : DirOf[s] = i[w] /\ file[s].is = "there"}]
            /\ since' = [since EXCEPT ![i[w]] = -1]
            /\ UNCHANGED i
       ELSE i' = [i EXCEPT ![w] = @ + 1] /\ UNCHANGED <<pc, todo, since>>
    /\ UNCHANGED <<conf, file, lockfile, status, next, cur, req, crashes>>

\* Fault: the grace period is forgotten.
TooOldAtOnce(age) == age >= Timeout

TooOld(age) == age >= Timeout + Grace

\* A file of the directory.  The fast way looks at its modification time.
CheckFile(w, s) ==
    /\ At(w, "files") /\ s \in todo[w]
    /\ todo' = [todo EXCEPT ![w] = @ \ {s}]
    /\ IF file[s].is # "there" \/ (conf.fast /\ ~TooOld(file[s].mtime))
       THEN UNCHANGED <<pc, cur>>
       ELSE /\ Goes(w, IF conf.fast /\ ~conf.verify THEN "unlink" ELSE "verify")
            /\ cur' = [cur EXCEPT ![w] = s]
    /\ UNCHANGED <<conf, file, lockfile, status, i, next, req, since, crashes>>

\* The session is loaded from a file opened as text, which fails in Python 3 (~conf.loads),
\* and its own times decide.  Errors are logged, and the file left.
Verify(w) ==
    /\ At(w, "verify")
    /\ LET f == file[cur[w]]
       IN Goes(w, IF f.is = "there" /\ conf.loads /\ f.accessed > Timeout + Grace
                  THEN "unlink" ELSE "files")
    /\ UNCHANGED <<conf, file, lockfile, status, i, next, todo, cur, req, since, crashes>>

Unlink(w) ==
    /\ At(w, "unlink") /\ Goes(w, "files")
    /\ file' = [file EXCEPT ![cur[w]] = [is |-> "gone", mtime |-> 0, accessed |-> 0]]
    /\ UNCHANGED <<conf, lockfile, status, i, next, todo, cur, req, since, crashes>>

\* Fault: the next sweep begins where this one ended.
DirDoneAgain(w) ==
    /\ At(w, "files") /\ todo[w] = {}
    /\ next' = [next EXCEPT ![w] = i[w]]
    /\ i' = [i EXCEPT ![w] = @ + 1]
    /\ \/ Goes(w, "dirs")
       \/ conf.limit /\ Goes(w, "write")
    /\ UNCHANGED <<conf, file, lockfile, status, todo, cur, req, since, crashes>>

\* A directory is done; the time limit may end the sweep here.
DirDone(w) ==
    /\ At(w, "files") /\ todo[w] = {}
    /\ next' = [next EXCEPT ![w] = (i[w] + 1) % NDir]
    /\ i' = [i EXCEPT ![w] = @ + 1]
    /\ \/ Goes(w, "dirs")
       \/ conf.limit /\ Goes(w, "write")
    /\ UNCHANGED <<conf, file, lockfile, status, todo, cur, req, since, crashes>>

AllDone(w) ==
    /\ At(w, "dirs") /\ i[w] = NDir /\ Goes(w, "write")
    /\ UNCHANGED <<conf, file, lockfile, status, i, next, todo, cur, req, since, crashes>>

WriteStatus(w) ==
    /\ At(w, "write") /\ Goes(w, "unlock")
    /\ status' = next[w]
    /\ since' = [d \in Dir |-> Min({since[d] + 1, NDir + 1})]
    /\ UNCHANGED <<conf, file, lockfile, i, next, todo, cur, req, crashes>>

Unlock(w) ==
    /\ At(w, "unlock") /\ Ends(w)
    /\ lockfile' = [there |-> FALSE, age |-> 0]
    /\ UNCHANGED <<conf, file, status, req, since, crashes>>

\* The child dies in a sweep: the lock file stays, and the status file that was being
\* written may be empty.
Crash(w) ==
    /\ crashes < conf.crashes /\ crashes' = crashes + 1
    /\ pc[w] # "idle" /\ Ends(w)
    /\ status' \in IF At(w, "write") THEN {status, -1} ELSE {status}
    /\ UNCHANGED <<conf, file, lockfile, req, since>>

Step(w) ==
    \/ Stat(w) \/ RemoveLock(w) \/ ReadStatus(w) \/ NextDir(w)
    \/ (\E s \in Sid : CheckFile(w, s))
    \/ Verify(w) \/ Unlink(w) \/ DirDone(w) \/ AllDone(w) \/ WriteStatus(w) \/ Unlock(w)

Next ==
    \/ \E s \in Sid : NewSession(s)
    \/ \E r \in Reader : (\E s \in Sid : Load(r, s)) \/ Touch(r) \/ Save(r) \/ NoSave(r)
    \/ Tick
    \/ \E w \in Sweeper : Lock(w) \/ Step(w) \/ Crash(w)

Spec == Init /\ [][Next]_vars

\* Time passes, requests end, sweeps go on unless they crash, and new ones are started.
Fairness ==
    /\ WF_vars(Tick)
    /\ \A r \in Reader : WF_vars(Touch(r) \/ Save(r) \/ NoSave(r))
    /\ \A w \in Sweeper : WF_vars(Step(w)) /\ WF_vars(Lock(w))

FairSpec == Spec /\ Fairness

-----------------------------------------------------------------------------
\* Every variable has its type; above all, positions stay among the directories.
TypeOK ==
    /\ file \in [Sid -> [is : {"never", "there", "gone"}, mtime : 0..Old, accessed : 0..Old]]
    /\ lockfile \in [there : BOOLEAN, age : 0..(StaleAge + 1)]
    /\ status \in Dir \cup {-1}
    /\ i \in [Sweeper -> 0..NDir] /\ next \in [Sweeper -> Dir]
    /\ todo \in [Sweeper -> SUBSET Sid] /\ cur \in [Sweeper -> Sid \cup {NoSid}]
    /\ since \in [Dir -> -1..(NDir + 1)] /\ crashes \in Nat

Sweeping(w) == pc[w] \notin {"idle", "stat", "remove"}

\* The sweep deletes expired sessions only, and none that a request has loaded and may still
\* save, though it takes no lock of theirs (the comment on filesession_cleanup).
OnlyExpired ==
    [][\A s \in Sid : file[s].is = "there" /\ file'[s].is = "gone" =>
            file[s].accessed > Timeout /\ \A r \in Reader : req[r].sid # s]_vars

\* As long as no child dies in it there is one sweep at a time; and however often the time
\* limit ends a sweep, each directory that exists gets its turn within as many sweeps as there
\* are directories, if the last one exists.
InTurn ==
    crashes = 0 => /\ Cardinality({w \in Sweeper : Sweeping(w)}) <= 1
                   /\ NDir - 1 \in conf.dirs => \A d \in conf.dirs : since[d] <= NDir

\* A lock file does not stay, be its sweep at work or dead: sweeps go on.
LockGoes == lockfile.there ~> ~lockfile.there
=============================================================================
