# mod_python in TLA+

mod_python puts a Python interpreter into the Apache web server: `src/src/*.c` is the
Apache module and the Python extension module `_apache`, `src/lib/python/mod_python/*.py`
is the library handlers use. This directory holds TLA+ models of the parts whose
correctness depends on order, sharing or failure, the TLC runs that check them on small
instances, and proofs that TLAPS checks for every instance.

Paths in this file are relative to the root of the repository.

## 1. The system

A server is a parent process and a number of child processes, each with worker threads.
The parent initializes Python and makes the global mutexes; children are forked from it.
In a child, worker threads serve requests; a request passes Apache's phases, and in each
phase the hooks of mod_python run the Python handlers configured for it, in the
subinterpreter the configuration names.

| Component | State it keeps | Operations | Talks to |
|---|---|---|---|
| Interpreters and thread states (`mod_python.c`) | hash of interpreters by name; per interpreter its callback object and array of spare tstates; the GIL | `get_interpreter`, `save_interpreter`, `make_obcallback`, `release_interpreter`, `python_cleanup` | every hook, filter and cleanup calls it; Python code calls back into Apache, which calls it again |
| Global mutexes (`mod_python.c`, `_apachemodule.c`) | array of mutexes shared by all children, `nlocks` | `init_mutexes`, `_global_lock`, `_global_trylock`, `_global_unlock` | sessions, PSP, user code |
| Sessions (`Session.py`) | session object of a request (`_sid`, `_locked`, `_invalid`, contents); a store: dbm file, one file per session, or a dict | constructor, `lock`, `unlock`, `load`, `save`, `delete`, `invalidate`, cleanups | global mutexes, cookies, request cleanups |
| Session file sweep (`Session.py`) | lock file, status file (`next_i`, expired and total counts), session directories | `filesession_cleanup` | FileSession, the file system |
| Handler dispatch (`mod_python.c`, `hlist.c`, `apache.py`) | handler lists of the configuration, `dynhls` of the request, the list in use, the status so far | `python_handler`, `req.add_handler`, `HandlerDispatch`, `python_cleanup_handler` | interpreters, module import, request object |
| Request body (`requestobject.c`) | `rbuff`, `rbuff_pos`, `rbuff_len`, Apache's count of what remains | `req.read`, `readline`, `readlines` | Apache's input filters, forms |
| Filters (`filterobject.c`, `mod_python.c`, `apache.py`) | context of the filter (`transparent`), brigades in and out, `closed`, `rc` | registering and adding, `python_filter`, `read`, `readline`, `write`, `flush`, `close`, `disable`, `pass_on`, `FilterDispatch` | interpreters, Apache's filter chain |
| Caches (`cache.py`, `publisher.py`) | dict of entries with value, lock and time; LRU list | `__getitem__`, `__setitem__`, `__delitem__`, `check`, `build`, `_checklru` | threads of one interpreter |
| Tables (`tableobject.c`) | an `apr_table`: array and index of first letters; iterators | the dict interface | everything that has headers, options, notes |
| Configuration (`mod_python.c`, `requestobject.c`) | per server and section: options, flags, handler and filter lists | directive handlers, `python_merge_config`, `select_interp_name`, `req.get_config`, `req.get_options` | handler dispatch, filters |
| Forms and query strings (`util.py`, `_apachemodule.c`) | the fields, the dict over them, the line read last | `parse_qsl`, `FieldStorage`, its mapping methods | request body, publisher |
| Publisher (`publisher.py`) | object, realm and user on the way along a path | `handler`, `process_auth`, `resolve_object`, `publish_object` | forms, caches |
| PSP (`psp.py`, `psp_parser.l`) | caches of compiled pages; session, form and error page of a run | `handler`, `load_from_file`, `run` | sessions, mutex 0 |
| Module import (`apache.py`) | `sys.modules`, time of last check | `import_module`, `module_mtime` | handler dispatch |
| Connection objects (`connobject.c`) | brigade read from the connection | `conn.read`, `readline`, `write` | connection handlers |
| Request, server, finfo objects | views of Apache's structures | attribute access | everything |
| Cookies (`Cookie.py`) | none | parse, sign | sessions |
| CGI and WSGI (`cgihandler.py`, `wsgi.py`) | process-wide `os.environ`, `sys.stdin`, a lock | one request | request object |

What is hard in it:

* **Threads and the GIL.** Python code may lose the GIL at any byte code, C code gives it up
  around every call into Apache, and such a call may come back into Python on the same
  thread, with another tstate. A tstate used by two threads corrupts the interpreter.
* **Processes and mutexes.** Sessions are locked for a whole request by mutexes that several
  ids share and that all children share; exceptions and cleanups decide when they are
  released.
* **Lists that change while they are used.** A handler list is copied, extended while it is
  worked through, and its entries carry flags that decide what a missing function means.
* **Short reads.** The body comes in blocks of any size; two operations share one buffer. A
  filter sees buckets cut anywhere, a multipart body is read in lines cut at a block size.
* **Shared configuration.** Records are merged once and used by all requests; a request may
  be given the server's own record, and write to it.
* **Caches without a lock around the whole of an operation**, in which another thread looks up, rebuilds
  or removes the same entry in between; files that change meanwhile.
* **Time in the place of locks.** The sweep of session files keeps clear of requests by a grace
  period and of another sweep by a lock file that may be left behind.
* **Failure half way**: of making mutexes, interpreters, callback objects, of opening the
  session store, of a read.

`PROJECT.json` lists these hazards with the line where each one bites and the property that
covers it, or why none does.

## 2. The modules

| Module | Lines of code it stands for | Content |
|---|---|---|
| `Interp` | `mod_python.c` 66-399, 698-830, 1362-1549, 2629-2754, calls out of Python in `requestobject.c` | threads, GIL, interpreters, tstates |
| `TstateLease`, `InterpLease` | | abstract lease of tstates; the mapping from `Interp` |
| `Interp_proofs` | | proofs about `Interp` and `InterpLease` |
| `GlobalLock` | `mod_python.c` 401-536, 602-623, `_apachemodule.c` 428-653 | mutexes made, counted, found by index or key |
| `Session`, `Session_proofs` | `Session.py` 103-842 but for cookies and the file sweep | session objects, mutexes, stores |
| `SessionRegister`, `SessionLocking` | | a session id as a register one request at a time has open; the mapping from `Session` |
| `Dispatch`, `Dispatch_proofs` | `mod_python.c` (`python_handler`, the hooks, `python_cleanup_handler`), `hlist.c`, `apache.py` `HandlerDispatch`, `req.add_handler` | the phases and handlers of a request |
| `ReqBody` | `requestobject.c` (`req_read`, `req_readline`, `req_readlines`) | reading the body |
| `Filter` | `filterobject.c`, `mod_python.c` 1808-1918, `apache.py` `FilterDispatch`, `requestobject.c` 506-686 | a Python filter of a request |
| `FileCleanup` | `Session.py` 526-740 | the sweep of session files, and requests beside it |
| `Cache` | `cache.py` 48-278, `publisher.py` `PageCache` | caches of one process and their threads |
| `Psp` | `psp.py` | caches of pages, `run()` with session and error page |
| `Table` | `tableobject.c` | a table and its iterators |
| `Multimap` | | what a table promises, abstractly |
| `Config` | `mod_python.c` 834-1431, 2214-2602, 2812-2821, `hlist.c`, `requestobject.c` 146-204, 918-1010 | directives, merging, what a request sees |
| `Form` | `util.py` 145-547, `_apachemodule.c` 110-398 | query strings, multipart bodies, the fields as a mapping |
| `Publisher` | `publisher.py`, `util.py` 574-660 | from a path to what is published |
| `Locks`, `Locks_proofs` | | `FileCleanup` beside `GlobalLock`; proofs about both |
| `Streams`, `Streams_proofs` | | `ReqBody` beside `Filter`; proofs about both |
| `Caches`, `Caches_proofs` | | `Cache` beside `Psp`; proofs about both |
| `Requests`, `Requests_proofs` | | `Publisher` beside `Table` and `Config`; proofs about the three |
| `Keeping`, `Keeping_proofs` | | selecting from a sequence by a set; induction over sequences, and what a selection is |
| `MC_*` | | values of the constants for TLC |

`Locks`, `Streams`, `Caches` and `Requests` put modules that share no state beside each other, one with
EXTENDS, the others with INSTANCE: a behaviour of `MC_Locks`, `MC_Streams`, `MC_Caches` and
`MC_Requests` (which adds `Form`) is one of one of them. `Dispatch`, `Filter`, `Table` and `Config`
select from sequences with `Keep` of `Keeping`.

### Interp

`pc[t]` is where thread `t` is: in Apache, in `get_interpreter()` (`want` before it has the
GIL, `lookup` after), in Python code started by C (`create`: `Py_NewInterpreter`, `makecb`:
`make_obcallback`), running a dispatch method (`run`), or about to take the GIL back after a
call into Apache (`resume`). One action is one stretch of code between two points at which
another thread may run: `Restore` is `PyEval_RestoreThread`, `HitPooled`, `HitNew` and `Miss`
are the three ways through the look-up, `CreateOk` is `save_interpreter()`, `Release` is
`release_interpreter()`, `CallOut` and `Return` are `Py_BEGIN_ALLOW_THREADS` and
`Py_END_ALLOW_THREADS` around code of Apache, `SwitchOut` and `SwitchIn` the loss of the GIL
in Python code. `stack[t]` holds the calls of `get_interpreter()` a thread has not released.

The key of the hash is a pointer. For `PythonInterpPerDirectory` the characters are
allocated from the pool of a request (`ap_make_dirstr_parent`); names that work that way are
`RequestNames`, and their entry becomes *dangling* with `EndRequest`. A dangling key may or
may not compare equal afterwards: `Matches` leaves that open.

### GlobalLock

`init_mutexes()` is a loop of `CreateOk` that ends with the last mutex or with
`CreateFailLate`, which gives back one or two mutexes and goes on, or `CreateFailEarly`.
Then threads compute an index as the C code does, with C's `abs()` and `%`
(`CAbs`, `CMod`), from a hash cut to an `int`. `DivideByZero` is the call by key with
`nlocks = 1`.

### Session

A worker's request goes through `pc`: the constructor locks the id of the cookie (`lock`),
loads (`op`, `in`), and if there is nothing to load takes a new id (`renew`) and locks that
(`locknew`); `handler` is the user's code; the cleanups follow in the order Apache runs
them, the last registered first. `Enter` and `Leave...` are the two ends of `do_load`,
`do_save` and `do_delete`, with what each class locks around the store. `conf` picks the
class, the `lock` argument, a failing store, and handlers that call `unlock()` and `lock()`
themselves; it never changes in a behaviour. The contents of a session are the number of the
save that wrote them, which is what lost updates and stale saves are about. A session
expires at any time (`Expire`). `SlotOf` is the index `GlobalLock` computes; that it is
never 0 is `SlotAssumption` here and theorem `Reserved` there.

### Dispatch

`at` is Apache's place in the phases. In each phase the hook runs `python_handler()`
(`Skip`, `NoHandler` or `Dispatch`), which makes the list of the phase: a copy of the
configured list (`Copy` is `hlist_copy()`, with the flags it forgets) followed by the handlers added
before, or gets no interpreter (`NoInterpreter`: no request object, no handler, and an error for Apache); then `HandlerDispatch()` looks up (`Find`, `FindNone`, `FindFails`) and runs
(`HandlerReturns`) one after the other. `obj` is the Python variable of that name, which
keeps its value from one entry to the next, as in the code. While a handler runs it may set
`req.user` and call `req.add_handler()`. Modules that Apache has of its own may refuse a
request in a phase where Python has nothing to say (`Skip` with `refused`).

### ReqBody

A byte is the number of its position in the body, so that a lost, doubled or swapped byte
shows. `Blocks` is every result `ap_get_client_block()` may have. `left` is what
`rbuff` holds between `rbuff_pos` and `rbuff_len`. `Written` places a block at an offset of
the result, over what is there, as the C code does.

### Filter

Bytes are numbers as in `ReqBody`; a brigade is a sequence of buckets, which are sequences of
bytes or the marks `Eos` and `Flush`. One action is one call of `python_filter()` up to its
handler (`OutputCall`, `InputCall`), one method of the filter object, or one way
`FilterDispatch()` ends. `_filter_read()` is `Read`, then a `ReadBucket` per bucket, then
`ReadEnds`, since where a buffer ends and a bucket is split is what may go wrong. `conf.copy`
marks handlers that copy as `Doc/pythonapi.rst` shows; others call what they like, up to `MaxOps`.
The next filter may fail at any use, having had a part of the brigade (`Begun`), and work again at the next.
`flush()` and `read()` raise IOError then, which a handler lets through or catches (`Raises`); `close()` and
`pass_on()` keep the failure to themselves. `write()` puts a bucket into `bbOut` that only points
to the Python string. What is there when the bucket is passed is what the string was if the handler keeps
it until then (`conf.keeps`); else any of its bytes may be `Garbage` (`Shown`). `Dropped` is a filter that is
not found, or has no interpreter.

### FileCleanup

Times are ages that `Tick` makes older. A sweep takes the lock file (`Lock`, with `O_EXCL`), or
finds it (`Stat`) and removes it when it is old (`RemoveLock`, a step of its own);
then directories from the one in the status file until the time limit (`NextDir`, which leaves
that choice open), in each `CheckFile`, `Verify` with a load, and `Unlink`. `Crash` is a child that dies in a
sweep, with the lock file left. Requests load a session, touch its file, and save it or not.

### Cache and Psp

In `Cache` a call is `Hit` or `Miss` under the lock of the cache, then `Acquire` of the entry's
lock, `CheckFresh` or `CheckStale` (with `FileCache.check()` storing the new time, `Stamped`),
`Build`, and `Pack`. A file may change between any two (`Modify`). `Fails` is an exception of
check or build. Values are versions of the file. `Miss` takes an entry that nothing refers to
(`Free`), which stands for the new `Entry` of the code. A value of a `WeakCache` goes with its last reference
(`LastReference`), and its callback deletes the name, also when a new entry has it (`Callback`). With values in
cycles (`conf.cycles`) the garbage collector finds them, at any allocation: `Collected` is that of `Entry()` in
`_get_entry()`, under the lock of the cache, for which the callback then waits on the thread that has it
(`Stuck`); no call or deletion begins after that. `Psp` has a request look for its page in
the caches, each operation on a dict without a lock a step, compile it, and run it; `frames`
are the `run()`s of a request, the page and its error page, and `has` and `saved` what became
of `req.session`. The dbm cache is used under mutex 0.

### Table and Multimap

The `apr_table` is an array `elts` of which `n` count and an index `ix` from a letter to the first
and last slot that may have it, changed as `apr_table_set`, `_add` and `_unset` do
(external). The methods are written as the code has them: some scan (`Subscript`, `Pairs`),
some search by the index (`Get`, `HasKey`), some shrink the array without the index (`PopItem`).
`Multimap` is names with sequences of values. `ImplementsMultimap` maps the array to it; `reply`
tells which call was made, so that e.g. an update may not pass for an add.

### Config

Directives are read into a record per scope, up to a number; then the virtual host's record is merged
over the main server's (`MergeServers`), and requests come. `Merge` is `python_merge_config()`
line by line of its kinds of field. A request that matches no section with directives uses its
server's own record (`shared`), so that `GetOptions` and `WriteOption` change it for all. The
properties compare what a request sees with `log`, the directives as they were read, which is kept per scope.
Sections have names of their own (`ConfigAssumption`), as Apache's have.

### Form

Strings are sequences of tokens. The multipart reader is a machine of one action per kind of
line (`Preamble`, `Part`, `Continued`, `HeaderLine`, `Data`, `EndPart`); `Collect` is the loop of
`read_to_boundary()`, with `prev` the delimiter it holds back; `LineAt` cuts at `block`, the
`readBlockSize`, as `req.readline()` does. A query string goes through `parse_qsl()`, and as a whole
through that of `urllib` where a pair is no text (`ParseQslSafely`, `Decodes`); a body without a length ends in 411. Then a handler uses the form as a mapping
(`GetItem`, `SetItem`, `DelItem`, ...), with the dict that `FieldList` makes on first use.

### Publisher

Objects are model values with a kind, attributes, guards and arguments. `Locate` finds the
module in three ways, `Resolve` takes one name at a time with `ProcessAuth` and `Traversable`,
`Call` goes on as long as the result can be called. Fields of an urlencoded body are named by bytes, which are no
names of arguments.

## 3. The runs

`tlc -config X.cfg M` for each entry of "runs" in `PROJECT.json`. All numbers are of
complete explorations.

| Run | Distinct states | What it shows |
|---|---|---|
| `Interp_nested` | 9 600 | two threads, one interpreter, calls two deep, calls out without the GIL: Python runs on the tstate of the innermost call (`ReadyToRun`); each `get_interpreter()` gets to its dispatch method (so nobody in Apache keeps the GIL), no tstate is made without need, and tstates go from thread to thread only through the array (`Served`) |
| `Interp_fail` | 1.6 million | two threads, two names, one in a request's pool, up to three interpreters, `Py_NewInterpreter()`, `save_interpreter()` and `apache.init()` may fail: no tstate in two places (`TstateExclusive`), none lost (`NoTstateLost`), and the whole implements `TstateLease` (`ImplementsLease`) |
| `GlobalLock_safe` | 487 000 | five mutexes of which any but the third may fail, two workers, two keys with every combination of five hashes: `MutexesAlive`, `ZeroReserved` |
| `Session_safe` | 4.4 million | two workers, three ids of which two share a mutex, three saves (two without locking), five configurations: one object per id (`OneObjectPerSid`), no circle of waiting requests and nothing held by one that is over (`NoCircularWait`), no lost update (`NoLostUpdate`), no return of an invalidated session (`StaysInvalid`) |
| `Session_live` | 109 000 | DbmSession: every request ends (`RequestEnds`), and sessions implement `SessionRegister` (`ImplementsRegister`) |
| `Dispatch_all` | 246 000 | four configurations through all twelve phases, every status from every handler, one added handler, any phase without an interpreter: `CalledIsListed`, `RunInOrder`, `RefusalStands`, `CleanupRuns` |
| `Streams_all` | 2.1 million | all bodies of up to four bytes, newlines anywhere, all ways to cut them into blocks, with failures (`NothingLost`, `CallReturns`); filters over all brigades of three bytes, copying or doing anything, with a next filter that fails at any use (`Delivered`, which also asks that no read overruns its buffer, `Copied`, `FailureReturned`, which also asks that nothing is passed twice); `FullResults` is that results are neither cut short nor too long |
| `FileCleanup_all` | 403 000 | two children that sweep three directories, a request, five configurations, some with directories that are missing: `InTurn`, `OnlyExpired`, `LockGoes` |
| `Caches_all` | 203 000 | two threads on six kinds of cache, two requests for pages with a session and an error page: `Fresh`, `WellKept`; of pages that their code is fresh, their session saved, and not waited for by its own request (`PagesRun`); all calls return, unless the collector met the lock of a weak cache, and all pages end (`AllEnd`) |
| `Requests_all` | 238 000 | tables (`ReadersAgree`, `Visits`, `ImplementsMultimap`), configurations (`EffectiveOptions`, `EffectiveHandlers`, `OnlyLocations`), forms (`PartsIntact`, `QueryIntact`), publisher (`PublishedIsAllowed`, `RealmNearest`) |
| `Form_deleted` | violation | `DeletedIsGone`, see section 5 |
| `Config_empty` | violation | `EmptyRemoved`, see section 5 |

Each property has a mutant in `PROJECT.json`: an operator with the comment "Fault:" that
changes one definition as a plausible bug would. TLC finds the property violated with it.

### Bounds, and why they are enough

* `Interp`: `MaxDepth` bounds nested calls of one thread, `MaxInterp` interpreters made. Two
  threads are enough for every race on one array or on the GIL. Depth two has one call inside another, which is all the code
  distinguishes. The proofs have no such limits. `Interp_fail` looks at states without `inits`
  (`NoHistory`), a count that no action and none of its properties read. `EndRequest` stops making names dangle once
  all interpreters are made, else the threads would have to create more than `MaxInterp`.
* `GlobalLock`: five mutexes have every case of the failure (none, one, two, three, four made
  before). The hashes are one of every kind: negative, -1 (which is refused), 0, small,
  `INT_MAX`. `INT_MIN` is left out, see section 5.
* `Session`: the mutexes of three ids have two ids that collide and one that does not; a
  third worker would only wait. `MaxSaves` bounds saves in a behaviour. To lose one between two requests takes
  three, one that both load and one of each, so it is 3; where sessions are not locked, or handlers unlock them, `NoLostUpdate` asks nothing and two are
  explored (`SavesExplored`).
  `Request` waits until there are fresh ids for all constructors, as the code's ids never run
  out.
* `Dispatch`: `MaxAdds` bounds `req.add_handler()`. The four configurations have a list of
  two in a phase of every kind of status rule, lists of the server replaced by those of the
  directory, missing handlers in the first, middle and last place, and all kinds of entry.
* `ReqBody`: `HUGE_STRING_LEN` is 3 instead of 8192, so that lines shorter, equal and longer
  than the buffer fit into four bytes.
* `Filter`: three bytes and `HUGE_STRING_LEN` 2 let one bucket be cut by the end of the buffer
  and again by a newline; `MaxOps` bounds calls of handlers that do not copy. `Explored` leaves out mixes of choices that have
  nothing to do with each other: handlers that call what they like and let strings go, and error
  reports that are off (PythonDebug) with either. The proofs have all.
* `FileCleanup`: three directories of 256 with the session in the last; ages up to just past
  every limit the code compares with. At most one crash, which leaves one lock file.
* `Cache`, `Psp`: limits of 0 and 1, two keys, two versions, three calls: one entry found by two
  threads, one thrown out, one built again. `MaxEntries` entries are enough that those forgotten but
  still in use never run out. `Size` 2 of `Psp` makes 75 % of it one, so that `clean()` has to
  choose; three pages are the least that fill it.
* `Table`: keys equal but for case, different keys with one first letter, another letter, in tables of two and
  three entries: removal at either end and in the middle of a letter's span.
* `Config`: two servers, a `<Directory>` with a pattern, a `<Location>`, up to three directives; `conf`
  restricts the kinds per behaviour, as kinds of field do not touch each other in the code.
  Two requests at once are only taken outside of sections, where they share a record.
* `Form`: all data of up to six bytes of `x`, CR, LF, in blocks of four and five, so that lines of data are
  cut before, in and behind their ends; bodies cut at every place; four malformed ones.
* `Publisher`: all paths of up to two names, some of three, in three modules that have each kind of
  object, guard and argument list once.

`CHECK_DEADLOCK FALSE` is set where the program may stop: a request is over, `init_mutexes()`
failed, the bound on interpreters, saves, ids, calls or directives is reached, a form is read, all workers wait for a
mutex a user holds. That waiting workers do not wait for each other is `NoCircularWait`, that
requests go on is in the liveness properties. In the `Interp` runs, where deadlock would be
a thread that cannot go on, it is `Served` that says so, as `MaxInterp` and the calls with
the GIL kept make dead ends of their own.

### Fairness

* `Interp`: strong fairness of taking the GIL, per thread: CPython makes the holder give it
  up when another thread waits, and the operating system's lock lets each waiter have it in
  the end. The holder's own code goes on; handlers, and Apache's code they call, return. No
  fairness for `Phase`, `CallOut`, `SwitchOut`: nothing must happen, and no fairness that
  failures do or do not come.
* `Session`: strong fairness of being granted a mutex, as waiters of an APR global mutex are
  queued or woken; handlers return; what does not wait goes on. Without the
  first no session lock is ever live.
* `FileCleanup`: time passes, a request ends, a sweep that does not crash goes on, and children
  start sweeps, as `do_cleanup()` is called from requests by chance of `1/CLEANUP_CHANCE`.
* `Cache`, `Psp`: weak fairness of every thread in a call: code goes on, pages come to an end. With calls bounded,
  a lock cannot be taken from a waiter for ever, so strong fairness is not needed.
* `Table`, `Config`, `Form`, `Publisher`, `Filter` have no liveness properties.
* `Dispatch`, `ReqBody`: one thread; its code goes on, handlers return, and
  `ap_get_client_block()` returns at last because Apache's `Timeout` ends a read.

## 4. The proofs

`tlapm M_proofs.tla` proves all obligations. A theorem has the form `Spec => []Property`, or
`Spec => Property` for an action property or a refinement, for all values of the constants that
the named assumptions of the module allow. A few need a hypothesis more, which they state
as `Hypothesis => (Spec => ...)`; it is a fact about the constants, named below with the reason, and the
runs meet it (but for `Continues`, whose run is to crash). Each theorem comes from an inductive invariant `IInv`: `Init => IInv`, then one
lemma per action that `IInv` is preserved, then `IInv => Property`. Of modules that come in by INSTANCE the
assumptions (`TableAssumption`, `ConfigAssumption`, `FilterAssumption`, `PspAssumption`) are such
hypotheses too, and TLC evaluates them on the runs' constants.

**Induction over data.** The library's induction theorems take an operator, which the provers cannot
instantiate. `Keeping_proofs` states induction on sets instead: a set of numbers that has 0, and n + 1 with each n, has
all (`Induction`, from the least element that `WFMin` of `WellFoundedInduction` gives;
`InductionUpTo`, `SequenceInduction`), and a function that is computed from its value before is there
(`Recursion`). On these rest what `Keep` selects of an appended, joined, selected or
mapped sequence, and all that is said below of sequences, folds and merges of any length.

**Interp** (any threads, names, failures, depth; theorems `TypeCorrect`, `Exclusive`,
`AtHome`, `NoneLost`, `Ready`). `TstateExclusive` alone is not inductive: that the tstate
pushed by `release_interpreter()` is not in an array already needs that `current` is the
one of the caller's top frame, and that needs `current` to be right after every switch.
`IInv` is `TypeOK`, `TstateExclusive`, `TstateAtHome`, `NoTstateLost` with
`Stacked` (where a thread must have a frame), `CurrentMine` (who holds the GIL in Python has
its own tstate current), `HeldCall` (who is in Apache with the GIL is below a frame marked
held), `CallbackSet` (a frame that runs, or called out, has its callback object), `Saved`
(which interpreters have an interpreterdata), `Numbered` (tstates are numbered in
order, so a new one is new) and `Creating` (a tstate of an unsaved interpreter is in the one
frame that is making it). Steps that push, pop, or do neither share lemmas.

From `IInv` follow more. `Refinement`: each step lends a tstate, gives one back, makes one,
or does nothing to `lentOf` in `InterpLease`, the tstates in the frames of each
thread. The GIL's tstate may be `global_tstate`, which is nobody's; `GlobalNeverLent` shows that
no frame and no array ever holds it. `ThroughPool` (`HandedOverThroughPool`): a
tstate that is in one thread's frame before a step is in no other's after it. `Bounded`
(`TstatesBounded`, with finitely many threads): no more tstates of an interpreter than calls; `Miss` makes one only if
the array is empty, that is if all others are in frames, which a counting lemma bounds. `GilReturned` (`NoGilOutside`):
if `Py_NewInterpreter()` and `save_interpreter()` do not fail and no handler
discards the body, no thread in Apache has the GIL; with one of these it does happen: `get_interpreter()`
returns NULL without giving the GIL back (`mod_python.c:242-254`), after which nobody else runs Python in
that child. The exclusiveness of tstates holds all the same; it is not what would show that.

**GlobalLock** (in `Locks_proofs`; any workers, keys, mutexes, failures; `MutexTypeCorrect`, `Alive`, `UsedAlive`,
`Reserved`, `Continues`). The first four assume `HashSafe`: no key has the hash `INT_MIN`, which `abs()` leaves
negative. `MutexInv` is `TypeOK`, `MutexesAlive`, `ZeroReserved` with `Booting` (while mutexes are
made, the first `n` are there and nobody uses any), `IndexBelow` (an index once computed
stays below `nlocks`, as `nlocks` does not change any more), `InUse` (only with the
server up is a mutex used, and only one below `nlocks`). That `nlocks` may end as 1, and a
call by key then crashes, is covered. `Continues` (`GoesOn`) says when it does not: with
more than one mutex asked for, and the third and the fourth made. Each of these two leaves
one if it fails. This needs no assumption on hashes.

**Session** (any workers, ids, hash, class and use; `LockedTellsTruth`, `OneObject`).
`IInv` is `Types`, `LockedIsHeld` and for each worker `Local`: what its session object
is like at its point of the request, above all that with locking on and handlers that leave
it alone, `_locked` is set from the constructor to the last cleanup. A step
keeps, takes or releases the mutex of the worker's own id (`Keeps`, `Takes`, `Releases`);
one lemma shows that each of these preserves `LockedIsHeld`, and the lemma of an action shows
which it is. Two constructed objects with one id would both hold its mutex.

* `WaitEnds` (`NoCircularWait`), if the dbm file opens (`DbmOpens`): without that,
  `Session.py:413` leaves mutex 0 locked and all wait for it, see section 5. `Zero` adds that mutex 0
  is held for one access only; then a request that waits for a session holds no
  other, and one that waits for mutex 0 waits for one that waits for nothing. `DbmMutexShort` states
  `DbmLockShort`, a comment of `psp.py`, under the same hypothesis.
* `Invalidated` (`StaysInvalid`) and `Updates` (`NoLostUpdate`), if with locking on the store does not fail
  (`StoreWorks`): `FileSession.do_delete()` ignores that it could not delete, so that an
  invalidated session may well be there still. `Stored` is the invariant: what is in the store is what the
  one constructed object of the id holds (`Based`), a new id that waits for its lock is
  in nobody's use but that of constructors which will not find it (`NewId`), and an invalidated session is saved by nobody (`Dead`).
  `Updates` names the request that saves: it is in `save`, and what it replaces is what it loaded or made itself.
* `Refinement` (`ImplementsRegister`), with locking on and no handler that unlocks (`AllLock`), which is what the register
  promises: with any store that fails. The workers are finitely many, as
  `MaxSaves` must count the saves under way (`SavesFit`).

**Dispatch** (any configuration, handlers, number of added ones; `TypeCorrect`, `Called`).
The look-up leaves `obj` alone when the function of a silent entry is missing, so
`CalledIsListed` is in danger behind another entry. `IInv` adds `SilentFirst` (only the first
entry of a list is silent: `hlist_copy()` forgets the flag of the others, and
`req.add_handler()` does not set it), `UnsetAtFirst` (`obj` is not set before the first
look-up), `AtStart` and `RunningInList`. The property is safe because of what looks like
an oversight in `hlist_copy()`: were the flag kept, the function of the entry before
would run twice. The mutant `CopyWhole` is that repair, and TLC shows it breaks the property.

In any phase there may be no interpreter; no handler runs then, and the invariants have nothing to say of that phase.

`Refusals` (`RefusalStands`) follows the handlers that ran (`RInv`): the phase of one that refused or
failed is behind Apache's place, which then is at the log or later (`RefusedBehind`); only
PythonAuthenHandler with PythonAuthoritative Off is waived; and no request is authentic before a user
is set (`UserKnown`).

`InTheirOrder` (`RunInOrder`) says of the sequence of all that ran in a phase that it is a prefix of the
configured handlers followed by the added ones, without those that do not exist, and the whole unless one
stopped it. `OInv` is `NotYet` (before a phase nothing of it ran, and `dyn` has what was added for it), `Underway`
(the list is what is due, what ran is its part up to `pos`) and `InOrder` of each phase. A handler that
is added to the list worked through lengthens both in the same place.

**ReqBody** (in `Streams_proofs`; any body, `HUGE_STRING_LEN`, lengths; `BodyKept`, `Cuts`). Two things have to be followed
through the loops: how much is still wanted, of a length that for -1 was
made up from what Apache and `rbuff` have left (`Fits`, `ReadLoop`, `LineLoop`); and that `readline()` asks
for a block only when it has emptied `rbuff`. Where handlers do not mix the calls, what they got, what the
result has so far and what `rbuff` holds are, one behind the other, what Apache gave out (`Follows`).
`Cuts` holds for handlers that mix them too. The bound of `want` in `TypeOK`, which the runs
never noticed, was too small for lengths larger than the body, and is gone.

**Filter** (in `Streams_proofs`; any stream, buckets, newlines, lengths, `HUGE_STRING_LEN`, and handlers that call what
they like; `FailuresReturned`, `AllDelivered`, `AllCopied`). `FilterInv` is `FilterType`, `Reads` (what a read
has fits its buffer and its length), `Failing` (whether the last use of the next filter failed is what `rc` says, then what the call
returned), `Giving` (where strings are kept and nothing has failed, what was written is the data that was passed followed by that in
`bbOut`) and, for handlers that copy, `Copying`: written, in hand and left in `bbIn` are, one behind the
other, the bytes that came in, and the end of the stream is behind them. `Copied` needs
`~FlushInside`, that FLUSH stands at the end of a brigade: else `read()` returns "" in the middle, see section 5.
`FailuresReturned` says of any handler, also one that catches IOError or lets strings go, that `python_filter()`
returns a failure just when the last use of the next filter failed, and that no byte reaches the next filter twice, though it may
have had a part of a brigade it did not take. For the second, `Once` counts each byte in what was passed, what waits in
`bbOut`, what a read has so far or the handler has in hand, and what is unread: no more often than it came in, which needs that
a failed pass leaves nothing in `bbOut`. (Handlers write what they read once.) `Delivered` and `Copied` are about handlers
whose strings live until they are passed (`conf.keeps`), see section 5.
What of this a handler's call or the end of one leaves alone is the same for most of them (`Called`, `ReturnedTo`).

**FileCleanup** (in `Locks_proofs`; any sweeps, sessions, directories, crashes; `Expired`, `TakesTurns`). `Expired` assumes
`0 < Grace` and `Grace <= Timeout + 1`: requests are shorter than the grace period, as the
comment on `filesession_cleanup()` says, and if that were longer than the timeout, a request
could save a session that is expired already (the code has 240 and 1800 seconds). `LoadedFresh`
says that a loaded session is older than the timeout by no more than its request is; `Condemned` that
what a sweep is about to delete was too old for that when it was looked at, and stays so.
`TakesTurns` needs no hypothesis: while nobody died the lock file is that of the one sweep
(`OneSweep`), and `Turns` bounds, for each directory, how many sweeps ago one came through it, by its
distance from where the next begins. A missing directory that is made in the middle of a sweep had to be
told apart (`Underway`).

**Publisher** (in `Requests_proofs`; any objects, guards, requests that `PublisherAssumption` admits; `Allowed`, `Realm`). `IInv` says at
each point which objects the names so far lead to (`WalkedRight`: each the attribute of the one before, each
let the user in, none of a hidden name), what is left of the path (`AtResolve`), and which realm is
the nearest so far (`RealmSoFar`).

**Table** (in `Requests_proofs`; any keys, values, letters and calls; `Readers`, `Iterators`, `TableImplementsMultimap`).
`TableInv` is `TableType`, above all that the index of both tables is the one a scan of the array would find
(`Indexed`), and `Visiting` (an iterator has passed the first entries). Each `Apr...` operator is shown to leave the
table as `Reindexed` of a sequence, with a lemma on what it does to `Keep` of each name; the
refinement follows, as a multimap has for each name what `Keep` selects. Merging tables (`update`, `table(seq)`) goes by
induction over the pairs. `Readers` needs `FoldsAgree`: `t[k]` compares with `apr_strnatcasecmp()`, the others with
`strcasecmp()`, and keys that only the second tells apart (they differ in blanks, say) would make `t[k]` and `get()` differ.

**Config** (in `Requests_proofs`; any sections, directives, kinds and requests; `Locations`, `HandlersOfScopes`,
`OptionsOfScopes`). `ConfigInv` is `ConfigType`, `Begun` (what there is at which stage), `Scopes` (the record of a scope
says what its directives say, `Faithful`), `Served` (a record that requests are served by says what
the innermost scope with a directive of the kind says, `Serves`), and `Optioned` for options. A request's record is
merged section by section: `MergeOne` is that one merge moves "innermost" by one scope, and
an induction over the sections of the request gives the rest. `OptionsOfScopes` assumes
`~SharedWrites`: a handler that writes to options of a shared record changes them for all, see section 5;
the emptying of the table by `get_options()` is covered.

**Cache** (in `Caches_proofs`; any threads, names, versions, limits; `Keeps`, `AnswersAreFresh`). An entry is found under the lock of the
cache and used under its own. `IInv` follows it from the one to the other: it is
that of the name though it may have been discarded (`InCall`), who works on it has its lock (`Locked`), its
time is one the file had, and its value was read then or later (`Timed`, `Built`); `Kept` and
`Limited` are for the caches without and with a limit. All of it holds also when the collector has stopped the cache for good (`Stuck`). The proof showed an earlier form of
`Fresh`, on the value a caller holds, to be false: with one call and one version more than the
run has, another thread builds the entry again and clears `failed` while
the caller still has the stale value. `Fresh` is now about the step that gives the answer.

**Psp** (in `Caches_proofs`; any requests, pages, error pages, configurations and size; `PagesRunRight`). `PspInv`
is `PspType`, `RunType`, `Placed` (who loads has a page, who runs has a frame), `Codes` and `Owned`. `Codes`: in
each cache, and in each request that has found its code, the code is not older than the time beside
it, and no time is later than the file. It holds through lost entries and overtaken stores, as
the time is read first. `Owned`: a request has its session as long as it has the lock, at most one of its `run()`s
made it, and a run that ends well has saved it: also the error page's, which
did not make it. Steps that load leave the run alone (`LoadStep`), steps that run leave the caches alone. That the
cache stays within its limit, `Bounded`, was a property here; the attempt to prove it showed
that it is false, see section 5.

Only model-checked:

* What needs fairness, which TLAPS cannot do: `Served`, `RequestEnds`, `CleanupRuns`, `CallReturns`,
  `LockGoes`, `AllEnd`.
* `PartsIntact` and `QueryIntact` of `Form`: that what is sent comes back is about the whole of a text and its
  encoding, which the model has case by case, as the bodies and queries of the run.

`TypeOK`, `TstateAtHome`, `OwnedAlive`, `LockedIsHeld`, `NoGilOutside`, `DbmLockShort` and `GoesOn` are proved, the
last three under their hypotheses, so that no run asks for them; `Served` asks for
`HandedOverThroughPool` and `TstatesBounded`, which are proved by themselves.

## 5. Where code and documentation part

With a run that shows it, and an entry in "findings":

* `Form_deleted`: `del form[name]` calls `list.remove()` for each field of the name
  (`util.py:544`), which takes the first field that compares equal. A `StringField` compares as its
  text, so with `b=x&a=x`, `del form["a"]` deletes `b`. `__setitem__` has the same loop.
* `Config_empty`: `req.get_options()` promises to "remove the empty values"
  (`requestobject.c:1001`), but passes over the entry behind each one that it removes.

Without a run. Those with a name are properties of the modules that TLC refutes (with the
configuration that is named); they stay there as statements of intent:

* `GoesOn` (`GlobalLock`): if the third or the fourth mutex cannot be made, `init_mutexes()` logs that it can
  probably continue (`mod_python.c:517`) with `nlocks` 1, and the first lock by key divides by
  `nlocks - 1` (`_apachemodule.c:475`).
* `DbmLockShort` (`Session`, with a dbm file that fails): DbmSession opens its file after it locks mutex 0 and
  before `try:` (`Session.py:413`). If that fails the mutex stays locked, for all sessions.
* `AllReturned` (`ReqBody`): `req.read()` after `req.readline()` reads its first block over the bytes it
  just copied from the buffer (`requestobject.c:1142`).
* `SilentIgnored` (`Dispatch`): `PythonHandlerModule` with a module that lacks a handler gives
  UnboundLocalError instead of being ignored (`apache.py:366`), if the entry is the first of
  its list and its name has no dot.
* `PopTakesOne` (`Table`, `FullSpec`): `popitem()` returns the first pair and takes the last out
  (`tableobject.c:889`), "remove and return some (key, value) pair" (`:1045`).
* `InitOnce` (`Interp`): `get_interpreter()` tests `obcallback` before `make_obcallback()`,
  which runs Python and may lose the GIL, so two threads can both run `apache.init()`
  (`mod_python.c:275`). `Doc/changes.rst:127` lists that as fixed.
* `OneInterpreterPerName` (`Interp`): two threads can both make an interpreter of one name,
  as `Py_NewInterpreter()` runs Python; and a name in a request's pool is compared with freed
  memory later (`mod_python.c:176`). `Doc/pythonapi.rst:51` says a subinterpreter is reused.
* `DiscardReturns` (`Interp`, with `HeldCalls`): `req.discard_request_body()` reads through
  the input filters with the GIL held; a Python input filter on that request waits for the
  GIL its own thread has (`requestobject.c:894`).
* `SweepSparesLive` (`Session`): `mem_cleanup()` looks at a session and deletes it in two steps; a
  save in between is lost (`Session.py:755`).
* `LinesComplete` (`ReqBody`): `readlines(sizehint)` passes the hint to `readline()` as the
  longest line, so all lines behind the first may be cut (`requestobject.c:1375`).
* `OwnedAlive` (`GlobalLock`) with `INT_MIN` among the hashes: the index is negative
  (`_apachemodule.c:466`).
* `Bounded` (`Psp`; two threads, three pages, `Size` 1): `HitsCache.clean()` is to "delete enough least hit entries to
  make cache 75% full" (`psp.py:448`). Of two threads that clean at once one finds an entry of its list
  deleted and leaves with KeyError, and the list of the other may be too short for what was stored
  meanwhile: the cache stays above its size with nobody to clean it.
* A `PythonInitHandler` configured for a directory never runs: the hook of the first phase
  always notes that it ran (`mod_python.c:2803`); `Doc/directives.rst:249-253` promises
  that it does. In `Dispatch` the phase `init` has one place, the first.
* A `PythonCleanupHandler` only runs if another handler made the request object
  (`mod_python.c:1279`), hence the condition in `CleanupRuns`. Nor does it run if `python_handler()`
  gets no interpreter for it (`mod_python.c:1534`), which only logs an error; the property says so.

Of the new modules, in short; the model has each of them, or names the bound that leaves it out:

* `Table`: `setdefault(k, d)` for a missing key reads through a null pointer after it set the
  key (`SetDefaultNull`, only in `FullSpec`).
* `Filter`: `read()` that meets a FLUSH bucket before data returns what it has, "" at the start
  of a stream, which the documented loop takes for the end (with `FlushInside`, `Copied` fails);
  `pass_on()` after `write()` overtakes what was written and not flushed; SERVER_RETURN throws away what was
  not flushed; an exception in an output filter returns success with the brigade dropped; `read(-5)`
  returns "" (`Doc/pythonapi.rst:1645` says all is read); `flush()` after `close()` raises nothing (`:1666`);
  `str(etype) == "exceptions.IOError"` never holds in `FilterDispatch()`. Two more concern failures: one is hidden by a
  success behind it, as when `flush()` follows a `close()` or `pass_on()` that failed and raised nothing; and a filter
  without an interpreter drops the brigade (`mod_python.c:1859`).
* `Filter`, strings that go too early: the comment in `filter_write()` (`filterobject.c:337-339`) says that a bucket
  may point into the string "since Python won't free that memory before the write is over". But the write is over with `write()`, and the
  bucket stays in `bb_out` until `flush()`, `close()`, or the end of the handler. The documented
  example, `filter.write(s.upper())` in a loop (`Doc/pythonapi.rst:229-237`), keeps no reference to what it writes, so
  that anything may arrive instead; for an input filter the strings must outlive the handler itself, as its caller reads the
  brigade. `Delivered` and `Copied` hold for handlers that do keep them, and not without `conf.keeps`.
* `FileCleanup`: that directories get their turn needs the last directory to exist; when a child
  died two others can both find its lock file old, and the second removes the new one of the
  third (why `InTurn` asks for no crash); verifying deletes nothing under Python 3. `OnlyExpired` needs requests that
  are shorter than the grace period, and one timeout for all sessions.
* `Cache`: after a rebuild that failed the old value counts as fresh (`cache.py:268`); after `del` the
  entry stays in the LRU list, whose `_checklru()` then raises KeyError; an entry thrown out while
  it is built may be built twice. The properties say what is left out. The callback of a `WeakCache`
  (`cache.py:239`) takes `_lock` (`:92`), a `Lock` and no `RLock` (`:65`). If the garbage collector runs when `_get_entry()`
  allocates an entry under that lock (`:104`), and finds a value there, the callback waits for its own thread, and with it
  all that use the cache (`Collected`). `CallReturns` says that this is the only way for a call not to return.
* `Psp`: a page is stored again after every hit, so that its hits are 1 for ever; under Python 3 two
  entries with equal hits cannot be sorted (`ties`), and `clean()` raises; a page that raises
  without an error page leaves its session unsaved, though the comment says "*always*".
* `Config`: `PythonImport` in a `<VirtualHost>` never runs, as its table is not merged; imports run in
  reverse; `PythonOption` in a nested `<Location>` without a handler turns `d_is_location` off; a
  handler that writes to the options of a shared record changes them for all requests after it
  (`SharedWrites`); `authoritative` can be set by no directive.
* `Form`: an epilogue, a lone "\n" as the empty header line, a body cut behind "\r", and a part
  without Content-Disposition each end in an exception; a last boundary without a line end is
  taken for data; data equal to the boundary just behind a cut line is taken for one; a query of which one pair
  is not UTF-8 is done again by `urllib` as a whole (`util.py:411-413`), which does not separate at ";" and does not end values at
  `%00`, so that one byte changes the other fields (`QueryIntact` leaves ";" out there), and `parse_qs()` has no such way out; under
  Python 3 `form[b"k"] = v` never replaces a field named by a string; `%00` ends a value.
* `Publisher`: an `__auth__` that is data gives NameError under Python 3 (`publisher.py:324`,
  against `Doc/handlers.rst:177-183`); what a call returns is called and written without a check
  of its own; objects of built-in types that Python 3 does not name in `types` may be traversed; an
  empty name in a path is an IndexError; a class is refused with 403, as the comment in `tp_rules()` has it
  ("not traversable nor publishable", `publisher.py:364`), though `Doc/handlers.rst:150-151` says that for a class "its string
  representation is returned" (`PublishedIsAllowed` goes with the code's comment); fields of a posted urlencoded form
  are named by bytes under Python 3 and reach no argument, against `Doc/handlers.rst:140-144`, and give a TypeError where all
  are taken by `**kw`.

## 6. Not modelled

* Of `Interp`: reference counts; the API `mp_acquire_interpreter` for other modules; a
  build of Apache without threads; the end of the process.
* Of `Session`: cookies, their signatures and the form of ids; the pickled contents.
* Of `Dispatch`: connection handlers, handlers by file extension (their configuration is in
  `Config`), redirects and sub-requests, import and reload of modules (that a module has a
  function is a constant).
* Of `ReqBody`: what comes after an IOError, and what comes of the write in front of the buffer that
  `ReadFailsFirst` leads to, which is undefined.
* Of `Filter`: two Python filters one behind the other.
* Of `Cache`: `HTTPCache`; the collector running a callback in the middle of a call but outside of the
  cache's lock, where it does no more than on another thread. Of `Psp`: the scanner, which turns a page into Python text in one pass.
* Of `Config`: which sections a request falls in (a choice), directives that set a string or a
  flag, but for those that choose an interpreter.
* Of `Form`: factories for fields and files, escapes that are cut off or no hex digits, decoding other than its failure. Of `Publisher`: the byte
  code tricks that find `__auth__` inside functions, callables that return themselves, the
  content type.
* `conn.read()` and `conn.readline()`: the loop over buckets is that of `Filter`.
* Cookie parsing and `httpdconf.py` keep no state; the objects for requests, servers and
  files pass single attributes through; `wsgi.py` is straight-line, `cgihandler.py` runs one request
  under one lock. Tests and build are read as statements of intent.

## 7. Plan

The system is modelled as far as it has state that order, sharing or failure can upset, and the
components have their safety properties proved, but for `Form`. What is left there are
`PartsIntact` and `QueryIntact`: a proof needs the encoding of a form as an operator of its own, whose
results `Bodies` and the queries of `MC_Requests` would be, and an induction over the
blocks of a line as `Filter` has it over buckets. Beyond that, `HTTPCache`, connection handlers and two filters
one behind the other are the next things to model.
