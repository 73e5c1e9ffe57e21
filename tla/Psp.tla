--------------------------------- MODULE Psp ---------------------------------
(***************************************************************************)
(* PSP pages, psp.py: how a page is found in the caches or compiled, how   *)
(* it runs with the session of the request, and how its error page runs in *)
(* its place.  The caches in memory are shared by the threads of a process *)
(* and have no lock, so every operation on their dict is a step; the dbm   *)
(* cache is used under mutex 0.                                            *)
(*                                                                         *)
(* The code of a page is the version of its file, and a time of the file   *)
(* that of the version.  All requests have one session id.                 *)
(***************************************************************************)
EXTENDS Integers, FiniteSets, FiniteSetsExt, SequencesExt

CONSTANTS
    Request, Page,
    UsesSession,  \* pages with the name "session" in their code
    ErrorPage,    \* [Page -> Page \cup {NoPage}]: what a page may set
    Size,         \* HitsCache.size
    MaxVersion,   \* versions of a page
    Configs,      \* [strings, dbm, ties, fails, changing, runs]
    NoPage, NoRequest

PspAssumption ==
    /\ UsesSession \subseteq Page /\ ErrorPage \in [Page -> Page \cup {NoPage}]
    /\ \A p \in Page : ErrorPage[p] # NoPage => ErrorPage[ErrorPage[p]] = NoPage
    /\ Size \in Nat \ {0} /\ MaxVersion \in Nat \ {0}
    /\ Configs \subseteq [strings : BOOLEAN, dbm : BOOLEAN, ties : BOOLEAN, fails : BOOLEAN,
                          changing : SUBSET Page, runs : Nat]
    /\ NoPage \notin Page /\ NoRequest \notin Request

VARIABLES
    conf,        \* strings: templates are strings; ties: entries can always be sorted (Python 2);
                 \* changing: pages whose files change; runs: how many are asked for
    file,        \* the version of each page
    cfile, dbm,  \* [mtime, code] of a page: its precompiled file, its entry in the dbm file
    mem,         \* [hits, mtime, code]: mem_fcache, or mem_scache of templates
    mutex0, lock,\* who has mutex 0, and the lock of the session
    pc, page, mtime, code, hits, \* a request: the page it loads
    todo,        \* what clean() has to delete, first the least hit
    frames,      \* run()s of a request: [page, code, made, error]
    has, saved,  \* req.session is there, and has been saved since it was made
    result,      \* of the run() that ends
    runs         \* pages asked for so far

load == <<page, mtime, code, hits, todo>>
running == <<frames, has, saved, result>>
caches == <<cfile, dbm, mem>>
vars == <<conf, file, caches, mutex0, lock, pc, load, running, runs>>

NoCode == 0
Nothing == [hits |-> 0, mtime |-> 0, code |-> NoCode]
NoFile == [mtime |-> 0, code |-> NoCode]

Init ==
    /\ conf \in Configs
    /\ file = [p \in Page |-> 1]
    /\ cfile = [p \in Page |-> NoFile] /\ dbm = [p \in Page |-> NoFile]
    /\ mem = [p \in Page |-> Nothing]
    /\ mutex0 = NoRequest /\ lock = NoRequest
    /\ pc = [r \in Request |-> "idle"] /\ page = [r \in Request |-> NoPage]
    /\ mtime = [r \in Request |-> 0] /\ code = [r \in Request |-> NoCode]
    /\ hits = [r \in Request |-> 0]
    /\ todo = [r \in Request |-> <<>>] /\ frames = [r \in Request |-> <<>>]
    /\ has = [r \in Request |-> FALSE] /\ saved = [r \in Request |-> FALSE]
    /\ result = [r \in Request |-> "ok"] /\ runs = 0

At(r, a) == pc[r] = a
Goes(r, a) == pc' = [pc EXCEPT ![r] = a]

-----------------------------------------------------------------------------
(* The files.                                                              *)

Modify(p) ==
    /\ p \in conf.changing /\ file[p] < MaxVersion
    /\ file' = [file EXCEPT ![p] = @ + 1]
    /\ UNCHANGED <<conf, caches, mutex0, lock, pc, load, running, runs>>

\* Someone compiles the page to a file.
Precompile(p) ==
    /\ p \in conf.changing /\ cfile[p] = NoFile
    /\ cfile' = [cfile EXCEPT ![p] = [mtime |-> file[p], code |-> file[p]]]
    /\ UNCHANGED <<conf, file, dbm, mem, mutex0, lock, pc, load, running, runs>>

-----------------------------------------------------------------------------
(* PSP(): load_from_file(), or the same for a template.                    *)

Loading(r, p) == page' = [page EXCEPT ![r] = p] /\ Goes(r, "stat")
Dropped(r) ==
    /\ page' = [page EXCEPT ![r] = NoPage] /\ mtime' = [mtime EXCEPT ![r] = 0]
    /\ code' = [code EXCEPT ![r] = NoCode] /\ hits' = [hits EXCEPT ![r] = 0]
    /\ todo' = [todo EXCEPT ![r] = <<>>]

\* handler(), or a handler of the user's that has made the session itself.
Start(r) ==
    /\ At(r, "idle") /\ runs < conf.runs /\ runs' = runs + 1
    /\ \E p \in Page : Loading(r, p)
    /\ \/ UNCHANGED <<lock, has>>
       \/ lock = NoRequest /\ lock' = r /\ has' = [has EXCEPT ![r] = TRUE]
    /\ UNCHANGED <<conf, file, caches, mutex0, mtime, code, hits, todo, frames, saved, result>>

\* An exception in PSP(): the request ends with it, or the page that sets its error page.
LoadFails(r) ==
    /\ Dropped(r)
    /\ Goes(r, IF frames[r] = <<>> THEN "end" ELSE "raised")

\* The time of the file is read before anything else.
Stat(r) ==
    /\ At(r, "stat")
    /\ mtime' = [mtime EXCEPT ![r] = IF conf.strings THEN 1 ELSE file[page[r]]]
    /\ Goes(r, IF conf.dbm THEN "dbm_get" ELSE "look")
    /\ UNCHANGED <<conf, file, caches, mutex0, lock, page, code, hits, todo, running, runs>>

NotFound(r) ==
    /\ At(r, "stat") /\ conf.fails /\ ~conf.strings
    /\ LoadFails(r)
    /\ UNCHANGED <<conf, file, caches, mutex0, lock, running, runs>>

\* _global_lock(None, 0) before each use of the dbm file.
DbmLock(r) ==
    /\ pc[r] \in {"dbm_get", "dbm_store"} /\ mutex0 = NoRequest
    /\ mutex0' = r
    /\ Goes(r, IF At(r, "dbm_get") THEN "dbm_read" ELSE "dbm_write")
    /\ UNCHANGED <<conf, file, caches, lock, load, running, runs>>

DbmRead(r) ==
    /\ At(r, "dbm_read") /\ mutex0' = NoRequest
    /\ IF dbm[page[r]].mtime = mtime[r]
       THEN code' = [code EXCEPT ![r] = dbm[page[r]].code] /\ Goes(r, "dbm_store")
       ELSE Goes(r, "look") /\ UNCHANGED code
    /\ UNCHANGED <<conf, file, caches, lock, page, mtime, hits, todo, running, runs>>

DbmWrite(r) ==
    /\ At(r, "dbm_write") /\ mutex0' = NoRequest
    /\ dbm' = [dbm EXCEPT ![page[r]] = [mtime |-> mtime[r], code |-> code[r]]]
    /\ Goes(r, "loaded")
    /\ UNCHANGED <<conf, file, cfile, mem, lock, load, running, runs>>

\* The file cannot be opened.
DbmFails(r) ==
    /\ pc[r] \in {"dbm_read", "dbm_write"} /\ conf.fails
    /\ mutex0' = NoRequest
    /\ LoadFails(r)
    /\ UNCHANGED <<conf, file, caches, lock, running, runs>>

InCache(p) == mem[p].hits > 0

\* get(), the first step: is there an entry, and is it of this time?
Look(r) ==
    /\ At(r, "look")
    /\ IF ~InCache(page[r])
       THEN Goes(r, IF conf.strings THEN "parse" ELSE "cfile") /\ UNCHANGED <<code, hits>>
       ELSE IF mem[page[r]].mtime # mtime[r] THEN Goes(r, "old") /\ UNCHANGED <<code, hits>>
       ELSE /\ code' = [code EXCEPT ![r] = mem[page[r]].code]
            /\ hits' = [hits EXCEPT ![r] = mem[page[r]].hits]
            /\ Goes(r, "hit")
    /\ UNCHANGED <<conf, file, caches, mutex0, lock, page, mtime, todo, running, runs>>

\* An old entry is deleted; the KeyError, if another thread has deleted it, is caught.
ForgetOld(r) ==
    /\ At(r, "old") /\ Goes(r, "cfile")
    /\ mem' = [mem EXCEPT ![page[r]] = Nothing]
    /\ UNCHANGED <<conf, file, cfile, dbm, mutex0, lock, load, running, runs>>

\* The hits are counted.  HitsCache.get() asks for the entry it has seen once more, which is
\* a KeyError if it is gone; FileCache.get() has it in hand.  A page is then stored again.
CountHit(r) ==
    /\ At(r, "hit")
    /\ IF conf.strings /\ ~InCache(page[r]) THEN LoadFails(r) /\ UNCHANGED mem
       ELSE /\ mem' = [mem EXCEPT ![page[r]] =
                        [hits |-> (IF conf.strings THEN @.hits ELSE hits[r]) + 1,
                         mtime |-> mtime[r], code |-> code[r]]]
            /\ Goes(r, IF conf.strings THEN "loaded" ELSE IF conf.dbm THEN "dbm_store" ELSE "store")
            /\ UNCHANGED load
    /\ UNCHANGED <<conf, file, cfile, dbm, mutex0, lock, running, runs>>

\* cfile_get(): a precompiled file that is not older.
CfileGet(r) ==
    /\ At(r, "cfile")
    /\ IF cfile[page[r]].mtime >= mtime[r]
       THEN code' = [code EXCEPT ![r] = cfile[page[r]].code]
            /\ Goes(r, IF conf.dbm THEN "dbm_store" ELSE "store")
       ELSE Goes(r, "parse") /\ UNCHANGED code
    /\ UNCHANGED <<conf, file, caches, mutex0, lock, page, mtime, hits, todo, running, runs>>

\* The page is parsed as it is now.  A syntax error is an exception.
Parse(r) ==
    /\ At(r, "parse")
    /\ \/ /\ code' = [code EXCEPT ![r] = file[page[r]]]
          /\ Goes(r, IF conf.dbm THEN "dbm_store" ELSE "store")
          /\ UNCHANGED <<page, mtime, hits, todo>>
       \/ conf.fails /\ LoadFails(r)
    /\ UNCHANGED <<conf, file, caches, mutex0, lock, running, runs>>

Count == Cardinality({p \in Page : InCache(p)})

\* store(): the entry is new, whatever its hits were.
Store(r) ==
    /\ At(r, "store")
    /\ mem' = [mem EXCEPT ![page[r]] = [hits |-> 1, mtime |-> mtime[r], code |-> code[r]]]
    /\ Goes(r, IF Cardinality({p \in Page : mem'[p].hits > 0}) > Size THEN "clean" ELSE "loaded")
    /\ UNCHANGED <<conf, file, cfile, dbm, mutex0, lock, load, running, runs>>

Rank(p) == IF conf.strings THEN <<mem[p].hits, 0>> ELSE <<mem[p].hits, mem[p].mtime>>
Before(p, q) == \/ Rank(p)[1] < Rank(q)[1]
                \/ Rank(p)[1] = Rank(q)[1] /\ Rank(p)[2] < Rank(q)[2]

\* How many clean() deletes, down to three quarters.
Excess == Max({Count - (Size * 3) \div 4, 0})

\* clean(): the entries are sorted.  With the same hits and time it is the code objects that
\* are compared, which Python 3 refuses.
Clean(r) ==
    /\ At(r, "clean")
    /\ LET tied == \E p, q \in Page : p # q /\ InCache(p) /\ InCache(q) /\ Rank(p) = Rank(q)
       IN IF tied /\ ~conf.ties THEN LoadFails(r)
          ELSE /\ \E s \in SetToSeqs({p \in Page : InCache(p)}) :
                    /\ \A i, j \in DOMAIN s : i < j => ~Before(s[j], s[i])
                    /\ todo' = [todo EXCEPT ![r] = SubSeq(s, 1, Min({Excess, Len(s)}))]
               /\ Goes(r, "delete") /\ UNCHANGED <<page, mtime, code, hits>>
    /\ UNCHANGED <<conf, file, caches, mutex0, lock, running, runs>>

\* The entries are deleted; one that another thread has deleted is a KeyError.
DeleteLeastHit(r) ==
    /\ At(r, "delete")
    /\ IF todo[r] = <<>> THEN Goes(r, "loaded") /\ UNCHANGED <<mem, load>>
       ELSE IF ~InCache(Head(todo[r])) THEN LoadFails(r) /\ UNCHANGED mem
       ELSE /\ mem' = [mem EXCEPT ![Head(todo[r])] = Nothing]
            /\ todo' = [todo EXCEPT ![r] = Tail(@)]
            /\ UNCHANGED <<pc, page, mtime, code, hits>>
    /\ UNCHANGED <<conf, file, cfile, dbm, mutex0, lock, running, runs>>

-----------------------------------------------------------------------------
(* run().                                                                  *)

Top(r) == Last(frames[r])
Frame(p, c) == [page |-> p, code |-> c, made |-> FALSE, error |-> NoCode]

\* Fault: every run() makes a session of its own.
NeedsSessionAlways(r, p) == p \in UsesSession

\* A session is made unless there is one.
NeedsSession(r, p) == p \in UsesSession /\ ~has[r]

Run(r, p, c) ==
    /\ frames' = [frames EXCEPT ![r] = Append(@, Frame(p, c))]
    /\ Goes(r, IF NeedsSession(r, p) THEN "session" ELSE "exec")

\* The page is loaded: it runs, or is the error page of the one that runs.
Loaded(r) ==
    /\ At(r, "loaded")
    /\ IF frames[r] = <<>> THEN Run(r, page[r], code[r])
       ELSE /\ frames' = [frames EXCEPT ![r] = [@ EXCEPT ![Len(@)].error = code[r]]]
            /\ Goes(r, "exec")
    /\ Dropped(r)
    /\ UNCHANGED <<conf, file, caches, mutex0, lock, has, saved, result, runs>>

\* Session.Session(req) waits for the lock of the session, also if this request has it.
MakeSession(r) ==
    /\ At(r, "session") /\ lock = NoRequest
    /\ lock' = r /\ has' = [has EXCEPT ![r] = TRUE] /\ saved' = [saved EXCEPT ![r] = FALSE]
    /\ frames' = [frames EXCEPT ![r] = [@ EXCEPT ![Len(@)].made = TRUE]]
    /\ Goes(r, "exec")
    /\ UNCHANGED <<conf, file, caches, mutex0, load, result, runs>>

\* psp.set_error_page() loads the page.
SetErrorPage(r) ==
    /\ At(r, "exec") /\ ErrorPage[Top(r).page] # NoPage /\ Top(r).error = NoCode
    /\ Loading(r, ErrorPage[Top(r).page])
    /\ UNCHANGED <<conf, file, caches, mutex0, lock, mtime, code, hits, todo, running, runs>>

\* Fault: the session is saved by the run() that made it.
ExecDoneOwn(r) ==
    /\ At(r, "exec")
    /\ saved' = [saved EXCEPT ![r] = @ \/ Top(r).made]
    /\ result' = [result EXCEPT ![r] = "ok"] /\ Goes(r, "finally")
    /\ UNCHANGED <<conf, file, caches, mutex0, lock, load, frames, has, runs>>

\* The code comes to its end, and the session, whoever made it, is saved.
ExecDone(r) ==
    /\ At(r, "exec")
    /\ saved' = [saved EXCEPT ![r] = @ \/ has[r]]
    /\ result' = [result EXCEPT ![r] = "ok"] /\ Goes(r, "finally")
    /\ UNCHANGED <<conf, file, caches, mutex0, lock, load, frames, has, runs>>

\* The code, or the save, raises an exception.
ExecRaises(r) ==
    /\ At(r, "exec") /\ Goes(r, "raised")
    /\ UNCHANGED <<conf, file, caches, mutex0, lock, load, running, runs>>

\* The error page runs, if there is one; else the exception goes on.
Raised(r) ==
    /\ At(r, "raised")
    /\ IF Top(r).error # NoCode
       THEN Run(r, ErrorPage[Top(r).page], Top(r).error) /\ UNCHANGED result
       ELSE result' = [result EXCEPT ![r] = "raised"] /\ Goes(r, "finally") /\ UNCHANGED frames
    /\ UNCHANGED <<conf, file, caches, mutex0, lock, load, has, saved, runs>>

\* The session is unlocked and forgotten by the run() that made it.  The run() of a page
\* ends as that of its error page did.
Finally(r) ==
    /\ At(r, "finally")
    /\ IF Top(r).made THEN lock' = NoRequest /\ has' = [has EXCEPT ![r] = FALSE]
       ELSE UNCHANGED <<lock, has>>
    /\ frames' = [frames EXCEPT ![r] = Front(@)]
    /\ Goes(r, IF Len(frames[r]) = 1 THEN "end" ELSE "finally")
    /\ UNCHANGED <<conf, file, caches, mutex0, load, saved, result, runs>>

\* The cleanup of the request unlocks a session that its handler made.
End(r) ==
    /\ At(r, "end") /\ Goes(r, "idle")
    /\ lock' = IF has[r] THEN NoRequest ELSE lock
    /\ has' = [has EXCEPT ![r] = FALSE] /\ saved' = [saved EXCEPT ![r] = FALSE]
    /\ result' = [result EXCEPT ![r] = "ok"]
    /\ UNCHANGED <<conf, file, caches, mutex0, load, frames, runs>>

Step(r) ==
    \/ Stat(r) \/ NotFound(r) \/ DbmLock(r) \/ DbmRead(r) \/ DbmWrite(r) \/ DbmFails(r)
    \/ Look(r) \/ ForgetOld(r) \/ CountHit(r) \/ CfileGet(r) \/ Parse(r) \/ Store(r)
    \/ Clean(r) \/ DeleteLeastHit(r) \/ Loaded(r) \/ MakeSession(r) \/ SetErrorPage(r)
    \/ ExecDone(r) \/ ExecRaises(r) \/ Raised(r) \/ Finally(r) \/ End(r)

Next ==
    \/ \E p \in Page : Modify(p) \/ Precompile(p)
    \/ \E r \in Request : Start(r) \/ Step(r)

Spec == Init /\ [][Next]_vars

\* Threads go on, and pages come to their end.
FairSpec == Spec /\ \A r \in Request : WF_vars(Step(r))

-----------------------------------------------------------------------------
TypeOK ==
    /\ file \in [Page -> 1..MaxVersion]
    /\ cfile \in [Page -> [mtime : 0..MaxVersion, code : 0..MaxVersion]]
    /\ dbm \in [Page -> [mtime : 0..MaxVersion, code : 0..MaxVersion]]
    /\ mem \in [Page -> [hits : Nat, mtime : 0..MaxVersion, code : 0..MaxVersion]]
    /\ {mutex0, lock} \subseteq Request \cup {NoRequest}

\* Whichever of the caches, files and other requests it comes from, the code that a request
\* has is not older than the file was when the request looked at it.
CodeFresh == \A r \in Request : code[r] # NoCode => code[r] >= mtime[r]

\* What clean() is for: the cache in memory is above its limit only while threads are about to
\* clean it.  It does not hold: a thread that finds an entry of its list gone leaves with a
\* KeyError, and the list of the other may be too short for what was stored meanwhile.  (TLC
\* shows it with two threads, three pages and Size 1.)
Bounded ==
    conf.ties => Count <= Size + Cardinality({r \in Request : pc[r] \in {"store", "clean", "delete"}})

\* A run() that ends well has saved the session ("it *always* has to be saved"), also when it
\* was the error page that ran to its end.
SessionSaved ==
    \A r \in Request : At(r, "finally") /\ result[r] = "ok" /\ Top(r).made => saved[r]

\* No page waits for the session that its own request has, and none is locked by a request
\* that has ended (the comment in run(), "to avoid deadlock").
NoSelfWait ==
    \A r \in Request : lock = r => ~At(r, "session") /\ ~At(r, "idle")

\* Every request comes to its end: no page waits for the session or the mutex that its own
\* request has, or one that has ended (the comment in run(), "to avoid deadlock").
RequestEnds == \A r \in Request : ~At(r, "idle") ~> At(r, "idle")
=============================================================================
