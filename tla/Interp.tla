------------------------------- MODULE Interp -------------------------------
(***************************************************************************)
(* How one Apache child process shares Python between its worker threads   *)
(* (src/mod_python.c): get_interpreter() finds or creates the sub-         *)
(* interpreter of a name and gives the calling thread a thread state       *)
(* (tstate) of it, release_interpreter() puts the tstate back into the     *)
(* array of available ones, and in between Python code runs, which may     *)
(* lose the global interpreter lock (GIL) at any point and may call back   *)
(* into Apache, which may call get_interpreter() again on the same thread. *)
(*                                                                         *)
(* Interpreters and tstates are numbered in the order they are made.       *)
(* Interpreter 1 and tstate 1 are those Py_Initialize() makes;             *)
(* global_tstate is tstate 1 for the life of the process.                  *)
(***************************************************************************)
EXTENDS Integers, SequencesExt

CONSTANTS
    Thread,        \* the worker threads of the child process
    Name,          \* interpreter names select_interp_name() can return
    Main,          \* MAIN_INTERPRETER, the name used when there is none
    RequestNames,  \* names whose characters live in the pool of a request
                   \* (ap_make_dirstr_parent under PythonInterpPerDirectory)
    Failures,      \* calls that may fail: subset of {"new", "save", "init"}
    HeldCalls,     \* TRUE if handlers use a C function that runs Apache's
                   \* filters without releasing the GIL
    MaxInterp,     \* bound: interpreters made
    MaxDepth,      \* bound: nested get_interpreter() calls of one thread
    NoThread, NoName

ASSUME ThreadAssumption == NoThread \notin Thread
ASSUME NameAssumption   == Main \in Name /\ RequestNames \subseteq Name /\ NoName \notin Name
ASSUME BoundAssumption  == MaxInterp \in Nat \ {0} /\ MaxDepth \in Nat \ {0}
ASSUME FailureAssumption == Failures \subseteq {"new", "save", "init"} /\ HeldCalls \in BOOLEAN

VARIABLES
    gil,       \* the thread that holds the GIL, or NoThread
    current,   \* the tstate the runtime considers current (PyThreadState_Get), 0 if none
    pc,        \* where each thread is
    want,      \* the name it passed to get_interpreter
    stack,     \* the get_interpreter() calls it has not released, innermost last; "held"
               \* if the call is now in C code that kept the GIL
    table,     \* the hash "interpreters": for each name its entries, in chain order
    obcb,      \* obcallback of each interpreterdata: "none" while there is no interpreterdata
    names,     \* the name each interpreter was saved under
    inits,     \* how often apache.init() ran in each interpreter
    pool,      \* the array "tstates" of each interpreterdata
    home,      \* the interpreter of each tstate ever made
    ninterp    \* interpreters made so far

vars == <<gil, current, pc, want, stack, table, obcb, names, inits, pool, home, ninterp>>

Interps == 1..MaxInterp
Global  == 1                       \* global_tstate
Frame   == [interp : Interps, ts : Nat, held : BOOLEAN]
Entry   == [idata : Interps, owner : Thread \cup {NoThread}, dangling : BOOLEAN]

\* Program points at which a thread runs Python code and can lose the GIL.
InPython == {"create", "makecb", "run"}

Top(t) == Last(stack[t])

(***************************************************************************)
(* apr_hash_get/apr_hash_set find an entry by comparing the key's          *)
(* characters. The table keeps the pointer it was given: an entry whose    *)
(* key was freed with its request's pool is compared with whatever is      *)
(* there now, so it matches or does not. 0 stands for "no entry".          *)
(***************************************************************************)
Matches(n) ==
    {k \in 0..Len(table[n]) :
        /\ \A j \in 1..(IF k = 0 THEN Len(table[n]) ELSE k - 1) : table[n][j].dangling}

Push(t, i, ts) == stack' = [stack EXCEPT ![t] = Append(@, [interp |-> i, ts |-> ts, held |-> FALSE])]
Pop(t)         == stack' = [stack EXCEPT ![t] = Front(@)]
Goto(t, l)     == pc' = [pc EXCEPT ![t] = l]

-----------------------------------------------------------------------------
(***************************************************************************)
(* After python_init() and PythonChildInitHandler(): the GIL is free and   *)
(* the main interpreter is in the table, with no callback object and no    *)
(* tstate to spare.                                                        *)
(***************************************************************************)
Init ==
    /\ gil = NoThread
    /\ current = 0
    /\ pc = [t \in Thread |-> "apache"]
    /\ want = [t \in Thread |-> NoName]
    /\ stack = [t \in Thread |-> <<>>]
    /\ table = [n \in Name |-> IF n = Main
                               THEN <<[idata |-> 1, owner |-> NoThread, dangling |-> FALSE]>>
                               ELSE <<>>]
    /\ obcb = [i \in Interps |-> IF i = 1 THEN "null" ELSE "none"]
    /\ names = [i \in Interps |-> IF i = 1 THEN Main ELSE NoName]
    /\ inits = [i \in Interps |-> 0]
    /\ pool = [i \in Interps |-> <<>>]
    /\ home = <<1>>
    /\ ninterp = 1

\* A phase, a filter, a connection or a cleanup needs Python: get_interpreter(n) is called.
Phase(t, n) ==
    /\ pc[t] = "apache"
    /\ Len(stack[t]) < MaxDepth
    /\ want' = [want EXCEPT ![t] = n]
    /\ Goto(t, "want")
    /\ UNCHANGED <<gil, current, stack, table, obcb, names, inits, pool, home, ninterp>>

\* PyEval_RestoreThread(global_tstate)
Restore(t) ==
    /\ pc[t] = "want"
    /\ gil = NoThread
    /\ gil' = t
    /\ current' = Global
    /\ Goto(t, "lookup")
    /\ UNCHANGED <<want, stack, table, obcb, names, inits, pool, home, ninterp>>

\* The rest of get_interpreter() once it has tstate ts of interpreter i.
Enter(t, i, ts) ==
    /\ Push(t, i, ts)
    /\ current' = ts
    /\ want' = [want EXCEPT ![t] = NoName]
    /\ Goto(t, IF obcb[i] = "set" THEN "run" ELSE "makecb")
    /\ UNCHANGED <<gil, table, obcb, names, inits, ninterp>>

\* Fault: the tstate is read from the array and not popped.
HitPooledNoPop(t) ==
    /\ pc[t] = "lookup" /\ gil = t
    /\ \E k \in Matches(want[t]) \ {0} :
         LET i == table[want[t]][k].idata IN
           /\ pool[i] # <<>>
           /\ Enter(t, i, Last(pool[i]))
    /\ UNCHANGED <<home, pool>>

\* The name is known and a tstate is available: pop it and make it current.
HitPooled(t) ==
    /\ pc[t] = "lookup" /\ gil = t
    /\ \E k \in Matches(want[t]) \ {0} :
         LET i == table[want[t]][k].idata IN
           /\ pool[i] # <<>>
           /\ Enter(t, i, Last(pool[i]))
           /\ pool' = [pool EXCEPT ![i] = Front(@)]
    /\ UNCHANGED home

\* The name is known, no tstate is available: PyThreadState_New.
HitNew(t) ==
    /\ pc[t] = "lookup" /\ gil = t
    /\ \E k \in Matches(want[t]) \ {0} :
         LET i == table[want[t]][k].idata IN
           /\ pool[i] = <<>>
           /\ Enter(t, i, Len(home) + 1)
           /\ home' = Append(home, i)
    /\ UNCHANGED pool

\* The name is unknown: Py_NewInterpreter() starts, with a tstate of its own.
Miss(t) ==
    /\ pc[t] = "lookup" /\ gil = t
    /\ 0 \in Matches(want[t])
    /\ ninterp < MaxInterp
    /\ ninterp' = ninterp + 1
    /\ home' = Append(home, ninterp + 1)
    /\ Push(t, ninterp + 1, Len(home) + 1)
    /\ current' = Len(home) + 1
    /\ Goto(t, "create")
    /\ UNCHANGED <<gil, want, table, obcb, names, inits, pool>>

\* Py_NewInterpreter() returns; save_interpreter() stores the interpreterdata.
CreateOk(t) ==
    /\ pc[t] = "create" /\ gil = t
    /\ LET n == want[t]
           i == Top(t).interp IN
         /\ \E k \in Matches(n) :
              table' = [table EXCEPT ![n] =
                 IF k = 0
                 THEN Append(@, [idata    |-> i,
                                 owner    |-> IF n \in RequestNames THEN t ELSE NoThread,
                                 dangling |-> FALSE])
                 ELSE [@ EXCEPT ![k].idata = i]]
         /\ obcb' = [obcb EXCEPT ![i] = "null"]
         /\ names' = [names EXCEPT ![i] = n]
    /\ want' = [want EXCEPT ![t] = NoName]
    /\ Goto(t, "makecb")
    /\ UNCHANGED <<gil, current, stack, inits, pool, home, ninterp>>

\* Py_NewInterpreter() returns NULL, the former tstate current again:
\* get_interpreter() returns at once.
CreateFail(t) ==
    /\ "new" \in Failures
    /\ pc[t] = "create" /\ gil = t
    /\ Pop(t)
    /\ current' = Global
    /\ want' = [want EXCEPT ![t] = NoName]
    /\ Goto(t, "apache")
    /\ UNCHANGED <<gil, table, obcb, names, inits, pool, home, ninterp>>

\* save_interpreter() returns NULL: get_interpreter() returns at once.
SaveFail(t) ==
    /\ "save" \in Failures
    /\ pc[t] = "create" /\ gil = t
    /\ Pop(t)
    /\ want' = [want EXCEPT ![t] = NoName]
    /\ Goto(t, "apache")
    /\ UNCHANGED <<gil, current, table, obcb, names, inits, pool, home, ninterp>>

\* make_obcallback() returns the object apache.init() made.
CallbackOk(t) ==
    /\ pc[t] = "makecb" /\ gil = t
    /\ LET i == Top(t).interp IN
         /\ obcb' = [obcb EXCEPT ![i] = "set"]
         /\ inits' = [inits EXCEPT ![i] = @ + 1]
    /\ Goto(t, "run")
    /\ UNCHANGED <<gil, current, want, stack, table, names, pool, home, ninterp>>

\* Fault: the tstate does not go to any array.
ReleaseNoPush(t) ==
    /\ current' = 0
    /\ gil' = NoThread
    /\ Pop(t)
    /\ Goto(t, "apache")
    /\ UNCHANGED <<want, table, obcb, names, inits, pool, home, ninterp>>

\* release_interpreter(idata): the current tstate goes to the array of idata, the GIL is released.
ReleaseInterpreter(t) ==
    /\ pool' = [pool EXCEPT ![Top(t).interp] = Append(@, current)]
    /\ current' = 0
    /\ gil' = NoThread
    /\ Pop(t)
    /\ Goto(t, "apache")
    /\ UNCHANGED <<want, table, obcb, names, inits, home, ninterp>>

\* make_obcallback() returns NULL: the interpreter is released.
CallbackFail(t) ==
    /\ "init" \in Failures
    /\ pc[t] = "makecb" /\ gil = t
    /\ ReleaseInterpreter(t)

\* The dispatch method returned.
Release(t) ==
    /\ pc[t] = "run" /\ gil = t
    /\ ReleaseInterpreter(t)

\* The runtime takes the GIL from a thread in Python code, or gives it back.
SwitchOut(t) ==
    /\ pc[t] \in InPython /\ gil = t
    /\ gil' = NoThread
    /\ current' = 0
    /\ UNCHANGED <<pc, want, stack, table, obcb, names, inits, pool, home, ninterp>>

\* Fault: the GIL is taken back with global_tstate.
SwitchInGlobal(t) ==
    /\ pc[t] \in InPython \cup {"resume"} /\ gil = NoThread
    /\ gil' = t
    /\ current' = Global
    /\ Goto(t, IF pc[t] = "resume" THEN "run" ELSE pc[t])
    /\ UNCHANGED <<want, stack, table, obcb, names, inits, pool, home, ninterp>>

SwitchIn(t) ==
    /\ pc[t] \in InPython \cup {"resume"} /\ gil = NoThread
    /\ gil' = t
    /\ current' = Top(t).ts
    /\ Goto(t, IF pc[t] = "resume" THEN "run" ELSE pc[t])
    /\ UNCHANGED <<want, stack, table, obcb, names, inits, pool, home, ninterp>>

\* Fault: the filters run without Py_BEGIN_ALLOW_THREADS.
CallOutWithGil(t) ==
    /\ pc[t] = "run" /\ gil = t
    /\ Goto(t, "apache")
    /\ UNCHANGED <<gil, current, want, stack, table, obcb, names, inits, pool, home, ninterp>>

\* Python code calls a C function that runs Apache's filters or handlers between
\* Py_BEGIN_ALLOW_THREADS and Py_END_ALLOW_THREADS.
CallOut(t) ==
    /\ pc[t] = "run" /\ gil = t
    /\ gil' = NoThread
    /\ current' = 0
    /\ Goto(t, "apache")
    /\ UNCHANGED <<want, stack, table, obcb, names, inits, pool, home, ninterp>>

\* Python code calls req.discard_request_body(), which reads through the input
\* filters and keeps the GIL.
CallOutHeld(t) ==
    /\ HeldCalls
    /\ pc[t] = "run" /\ gil = t
    /\ Goto(t, "apache")
    /\ stack' = [stack EXCEPT ![t][Len(stack[t])].held = TRUE]
    /\ UNCHANGED <<gil, current, want, table, obcb, names, inits, pool, home, ninterp>>

\* The C function returns to Python: at once if it kept the GIL, else through
\* Py_END_ALLOW_THREADS (SwitchIn).
Return(t) ==
    /\ pc[t] = "apache" /\ stack[t] # <<>>
    /\ Goto(t, IF Top(t).held THEN "run" ELSE "resume")
    /\ stack' = [stack EXCEPT ![t][Len(stack[t])].held = FALSE]
    /\ UNCHANGED <<gil, current, want, table, obcb, names, inits, pool, home, ninterp>>

\* The pool of the thread's request is destroyed, with the names allocated from it.
\* Bound: no name is lost once all interpreters are made.
EndRequest(t) ==
    /\ pc[t] = "apache" /\ stack[t] = <<>>
    /\ \E n \in Name : \E k \in DOMAIN table[n] : table[n][k].owner = t
    /\ ninterp < MaxInterp
    /\ table' = [n \in Name |-> [k \in DOMAIN table[n] |->
                    IF table[n][k].owner = t
                    THEN [table[n][k] EXCEPT !.owner = NoThread, !.dangling = TRUE]
                    ELSE table[n][k]]]
    /\ UNCHANGED <<gil, current, pc, want, stack, obcb, names, inits, pool, home, ninterp>>

GetInterpreter(t) == \/ HitPooled(t) \/ HitNew(t) \/ Miss(t)
                     \/ CreateOk(t) \/ CreateFail(t) \/ SaveFail(t)
                     \/ CallbackOk(t) \/ CallbackFail(t)

Next == \E t \in Thread :
    \/ \E n \in Name : Phase(t, n)
    \/ Restore(t) \/ GetInterpreter(t) \/ Release(t)
    \/ SwitchOut(t) \/ SwitchIn(t)
    \/ CallOut(t) \/ CallOutHeld(t) \/ Return(t)
    \/ EndRequest(t)

Spec == Init /\ [][Next]_vars

(***************************************************************************)
(* Fairness: a thread that repeatedly could take the GIL gets it (CPython  *)
(* makes the holder give it up when another thread waits), C code that     *)
(* holds it goes on, and every handler and every call out of it comes to   *)
(* an end.                                                                 *)
(***************************************************************************)
GoOn(t) == \/ HitPooled(t) \/ HitNew(t) \/ Miss(t)
           \/ CreateOk(t) \/ CallbackOk(t) \/ Release(t)

Fairness == \A t \in Thread :
    /\ SF_vars(Restore(t)) /\ SF_vars(SwitchIn(t)) /\ SF_vars(GoOn(t))
    /\ WF_vars(Return(t))

FairSpec == Spec /\ Fairness
-----------------------------------------------------------------------------
(***************************************************************************)
(* Properties                                                              *)
(***************************************************************************)
OnStack(ts)   == \E t \in Thread : \E k \in 1..Len(stack[t]) : stack[t][k].ts = ts
InPool(i, ts) == \E k \in 1..Len(pool[i]) : pool[i][k] = ts

TypeOK ==
    /\ gil \in Thread \cup {NoThread}
    /\ current \in Nat
    /\ pc \in [Thread -> {"apache", "want", "lookup", "resume"} \cup InPython]
    /\ want \in [Thread -> Name \cup {NoName}]
    /\ \A t \in Thread : pc[t] \in {"want", "lookup", "create"} => want[t] \in Name
    /\ stack \in [Thread -> Seq(Frame)]
    /\ table \in [Name -> Seq(Entry)]
    /\ obcb \in [Interps -> {"none", "null", "set"}]
    /\ names \in [Interps -> Name \cup {NoName}]
    /\ inits \in [Interps -> Nat]
    /\ pool \in [Interps -> Seq(Nat)]
    /\ home \in Seq(Interps)
    /\ ninterp \in Interps

\* A tstate is in one place only: in one frame of one thread, or once in one
\* array (get_interpreter pops it, release_interpreter pushes it). Two threads
\* running on one tstate corrupt the interpreter.
TstateExclusive ==
    /\ \A t1, t2 \in Thread : \A k1 \in 1..Len(stack[t1]), k2 \in 1..Len(stack[t2]) :
          stack[t1][k1].ts = stack[t2][k2].ts => t1 = t2 /\ k1 = k2
    /\ \A i, j \in Interps : \A k \in 1..Len(pool[i]), l \in 1..Len(pool[j]) :
          pool[i][k] = pool[j][l] => i = j /\ k = l
    /\ \A i \in Interps : \A k \in 1..Len(pool[i]) : ~OnStack(pool[i][k])

\* A frame and an array only hold tstates of their own interpreter: a tstate
\* pushed to the array of another interpreterdata would run a request in the
\* wrong namespace.
TstateAtHome ==
    /\ \A t \in Thread : \A k \in 1..Len(stack[t]) :
          stack[t][k].ts \in 1..Len(home) /\ home[stack[t][k].ts] = stack[t][k].interp
    /\ \A i \in Interps : \A k \in 1..Len(pool[i]) :
          pool[i][k] \in 1..Len(home) /\ home[pool[i][k]] = i

\* "At this point GIL is held and tstate is set, we're ready to run": a thread
\* that executes Python code does so on the tstate of its innermost
\* get_interpreter() call, in spite of the switches and of the nested calls
\* that made other tstates current in between.
ReadyToRun ==
    /\ \A t \in Thread : gil = t /\ pc[t] \in InPython =>
          stack[t] # <<>> /\ current = Top(t).ts
    /\ \A t \in Thread : pc[t] = "run" => obcb[Top(t).interp] = "set"
    /\ gil = NoThread => current = 0

\* No tstate of a saved interpreter is lost: it is in the array or in use.
NoTstateLost ==
    \A ts \in 2..Len(home) :
        obcb[home[ts]] # "none" => InPool(home[ts], ts) \/ OnStack(ts)

\* "There is no need to malloc() a new thread state at every request": an
\* interpreter never has more tstates than calls that can be in it at once.
TstatesBounded ==
    \A i \in Interps :
        Cardinality({ts \in 2..Len(home) : home[ts] = i}) <= Cardinality(Thread) * MaxDepth

\* A thread that is back in Apache, or that waits in get_interpreter(), does
\* not hold the GIL; if it did no thread would run Python again.
NoGilOutside ==
    \A t \in Thread : pc[t] \in {"apache", "want", "resume"} => gil # t

\* "Once created, a subinterpreter will be reused for subsequent requests"
\* (Doc/pythonapi.rst): no name ever has two interpreters.
OneInterpreterPerName ==
    \A i, j \in Interps : names[i] = names[j] /\ names[i] # NoName => i = j

\* "the apache.init() function could be called more than once for a specific
\* interpreter instance whereas it should only be called once"
\* (Doc/changes.rst, listed as fixed).
InitOnce == \A i \in Interps : inits[i] <= 1

\* A tstate changes hands only through the array: the step that takes it out of
\* a frame puts it in an array and never in a frame of another thread.
HandedOverThroughPool ==
    [][\A t1, t2 \in Thread : t1 # t2 =>
         \A k1 \in 1..Len(stack[t1]), k2 \in 1..Len(stack'[t2]) :
            stack'[t2][k2].ts # stack[t1][k1].ts]_vars

\* Every call of get_interpreter() gets to run its dispatch method.
CallServed == \A t \in Thread : pc[t] = "want" ~> pc[t] = "run"

\* req.discard_request_body() comes back: "Tests for and reads any message body
\* in the request, simply discarding whatever it receives" (Doc/pythonapi.rst).
DiscardReturns == \A t \in Thread : (pc[t] = "apache" /\ gil = t) ~> pc[t] = "run"
=============================================================================
