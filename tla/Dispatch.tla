------------------------------- MODULE Dispatch -------------------------------
(***************************************************************************)
(* The handlers of one request. Apache calls the hooks of mod_python.c     *)
(* phase by phase; python_handler() makes the list of handlers of the      *)
(* phase, those of the configuration and those earlier handlers added with *)
(* req.add_handler() (src/requestobject.c), and HandlerDispatch() of       *)
(* apache.py finds and calls one after the other until one returns a       *)
(* status that ends the phase.                                             *)
(***************************************************************************)
EXTENDS Integers, SequencesExt, Keeping

CONSTANTS
    Handler,    \* names of handlers, module and function
    Existing,   \* those whose module has the function
    Configs,    \* configurations: see conf
    MaxAdds     \* bound: calls of req.add_handler()

Phases == {"init", "postread", "trans", "headerparser", "access", "authen", "authz", "type",
           "fixup", "handler", "log", "cleanup"}

\* An entry of a handler list: silent if it comes from PythonHandlerModule, dotted if the
\* name of the function has a dot.
Entry == [h : Handler, silent : BOOLEAN, dotted : BOOLEAN]

ASSUME ExistAssumption == Existing \subseteq Handler
ASSUME ConfAssumption  ==
    \A c \in Configs : /\ DOMAIN c = {"main", "dir", "authoritative"}
                       /\ c.main \in [Phases -> Seq(Entry)] /\ c.dir \in [Phases -> Seq(Entry)]
                       /\ c.authoritative \in BOOLEAN
ASSUME AddsAssumption  == MaxAdds \in Nat

VARIABLES
    conf,     \* handler lists of the server and of the directory; never changes
    at,       \* where Apache is in Order
    pc,       \* "apache", "find" and "running" (in HandlerDispatch), or "over"
    hlist,    \* the handler list of the phase
    pos,      \* the position in it
    obj,      \* the function HandlerDispatch last found
    result,   \* the status so far
    dyn,      \* req_config->dynhls: the handlers added for phases to come
    made,     \* the request object exists, and its cleanup is registered
    user,     \* req.user is set
    answer,   \* what each phase returned to Apache, and why if not because of Python's handlers
    ran,      \* history: the handlers that ran, and what they returned
    added     \* history: the handlers added in time

vars == <<conf, at, pc, hlist, pos, obj, result, dyn, made, user, answer, ran, added>>

\* Fault: a refusal does not end the phase.
ExpectedRefusal(p) == {"OK", "DECLINED", "UNAUTHORIZED"}

\* _status_values: what lets the next handler of the phase run.
Expected(p) == CASE p \in {"trans", "authen", "authz", "type"} -> {"DECLINED"}
                 [] p \in {"handler", "cleanup"}               -> {"OK"}
                 [] OTHER                                      -> {"OK", "DECLINED"}

Statuses == {"OK", "DECLINED", "DONE", "UNAUTHORIZED", "ERROR"}

\* The hooks in order. PythonInitHandler is part of the first; PythonHeaderParserHandler
\* only runs it if the first did not, and it always does.
Order == <<"init", "postread", "trans", "headerparser", "access", "authen", "authz", "type",
           "fixup", "handler", "log", "cleanup">>
Place(p) == CHOOSE k \in DOMAIN Order : Order[k] = p
phase    == Order[at]

Unset == "unset"
None  == "None"

ASSUME NoneAssumption == Unset \notin Handler /\ None \notin Handler

\* Fault: the lists of the directory get lost.
ConfiguredMain(p) == conf.main[p]

\* The configuration of the directory is known once the URI has been translated; its list
\* for a phase replaces that of the server.
DirKnown(p) == p \notin {"init", "postread", "trans"} /\ answer["trans"] \in {"OK", "DECLINED"}

Configured(p) == IF DirKnown(p) /\ conf.dir[p] # <<>> THEN conf.dir[p] ELSE conf.main[p]

\* Fault: every entry is copied whole.
CopyWhole(l) == l

\* hlist_copy() forgets silent, but for the first entry.
Copy(l) == [k \in DOMAIN l |-> IF k = 1 THEN l[k] ELSE [l[k] EXCEPT !.silent = FALSE]]

Init ==
    /\ conf \in Configs
    /\ at = 1 /\ pc = "apache"
    /\ hlist = <<>> /\ pos = 1 /\ obj = Unset /\ result = "ERROR"
    /\ dyn = [p \in Phases |-> <<>>]
    /\ made = FALSE /\ user = FALSE
    /\ answer = [p \in Phases |-> "none"]
    /\ ran = <<>> /\ added = <<>>

\* Where Apache goes after a phase: an error, or DONE, leads to the log.
After(p, r) == IF Place(p) >= Place("log") \/ r \in {"OK", "DECLINED"}
               THEN Place(p) + 1 ELSE Place("log")

\* python_handler() returns r to Apache.
Answer(r) ==
    /\ answer' = [answer EXCEPT ![phase] = r]
    /\ IF at = Len(Order)
       THEN pc' = "over" /\ UNCHANGED at
       ELSE pc' = "apache" /\ at' = After(phase, r)

\* Apache does not come to the hook, as another module answered, or refused the request. It
\* goes on as if Python had nothing to say, or to the log. The cleanup only runs if it was
\* registered.
Skip ==
    /\ pc = "apache"
    /\ phase \notin {"init", "postread", "log"}
    /\ phase = "cleanup" => ~made
    /\ \E r \in {"DECLINED", "refused"} : Answer(r)
    /\ UNCHANGED <<conf, hlist, pos, obj, result, dyn, made, user, ran, added>>

\* Fault: the handlers added come first.
HandlersAddedFirst(p) == dyn[p] \o Copy(Configured(p))

Handlers(p) == IF Configured(p) = <<>> THEN Copy(dyn[p]) ELSE Copy(Configured(p)) \o dyn[p]

CleanupDue == phase = "cleanup" => made

\* python_handler() gets no interpreter: no request object is made, and no handler runs. The
\* request goes on from there if it was the callback object that could not be made; where the
\* interpreter itself fails the thread keeps the GIL, which is in Interp.
NoInterpreter ==
    /\ pc = "apache" /\ CleanupDue
    /\ Handlers(phase) # <<>>
    /\ Answer("noInterpreter")
    /\ UNCHANGED <<conf, hlist, pos, obj, result, dyn, made, user, ran, added>>

\* "nothing to do here"
NoHandler ==
    /\ pc = "apache" /\ CleanupDue
    /\ Handlers(phase) = <<>>
    /\ Answer("DECLINED")
    /\ UNCHANGED <<conf, hlist, pos, obj, result, dyn, made, user, ran, added>>

\* It gets one, and calls HandlerDispatch() with the list.
Dispatch ==
    /\ pc = "apache" /\ CleanupDue
    /\ Handlers(phase) # <<>>
    /\ hlist' = Handlers(phase)
    /\ made' = TRUE
    /\ pc' = "find"
    /\ UNCHANGED <<conf, at, pos, obj, result, dyn, user, answer, ran, added>>

\* What python_handler() makes of the status of HandlerDispatch().
Returned(r) == CASE phase = "authen" /\ r = "OK" /\ ~user                -> "ERROR"
                 [] phase = "authen" /\ r = "UNAUTHORIZED" /\ ~conf.authoritative -> "DECLINED"
                 [] OTHER -> r

\* HandlerDispatch() returns r, and its variables are gone.
Done(r) == /\ Answer(Returned(r))
           /\ hlist' = <<>> /\ pos' = 1 /\ obj' = Unset /\ result' = "ERROR"

entry == hlist[pos]

\* What obj is after the look-up. With a dot resolve_object() returns None for what is
\* missing; without one obj stays what it was.
LookedUp == IF entry.h \in Existing THEN entry.h
            ELSE IF entry.dotted THEN None ELSE obj

Missing == entry.h \notin Existing /\ ~entry.silent

\* There is a function to call.
Find ==
    /\ pc = "find" /\ pos <= Len(hlist)
    /\ ~Missing /\ LookedUp \in Handler
    /\ obj' = LookedUp
    /\ pc' = "running"
    /\ UNCHANGED <<conf, at, hlist, pos, result, dyn, made, user, answer, ran, added>>

\* AttributeError, as the function is missing, or UnboundLocalError, as it is missing,
\* silent, and obj was not set before. ReportError() makes it an error, or DONE with the
\* text of the exception sent to the client (PythonDebug).
FindFails ==
    /\ pc = "find" /\ pos <= Len(hlist)
    /\ Missing \/ LookedUp = Unset
    /\ \E r \in {"ERROR", "DONE"} : Done(r)
    /\ UNCHANGED <<conf, dyn, made, user, ran, added>>

\* It is missing and silent, and passed over.
FindNone ==
    /\ pc = "find" /\ pos <= Len(hlist)
    /\ ~Missing /\ LookedUp = None
    /\ obj' = None
    /\ result' = IF result = "ERROR" THEN "DECLINED" ELSE result
    /\ pos' = pos + 1
    /\ UNCHANGED <<conf, at, pc, hlist, dyn, made, user, answer, ran, added>>

\* All handlers have run.
ListEnds ==
    /\ pc = "find" /\ pos > Len(hlist)
    /\ Done(result)
    /\ UNCHANGED <<conf, dyn, made, user, ran, added>>

\* The handler returns r, or raises SERVER_RETURN with r, or any exception if r is ERROR.
HandlerReturns(r) ==
    /\ pc = "running"
    /\ ran' = Append(ran, [phase |-> phase, h |-> obj, r |-> r])
    /\ IF r \in Expected(phase)
       THEN result' = r /\ pos' = pos + 1 /\ pc' = "find" /\ UNCHANGED <<at, hlist, obj, answer>>
       ELSE Done(r)
    /\ UNCHANGED <<conf, dyn, made, user, added>>

SetUser ==
    /\ pc = "running" /\ ~user
    /\ user' = TRUE
    /\ UNCHANGED <<conf, at, pc, hlist, pos, obj, result, dyn, made, answer, ran, added>>

NewEntry(h) == [h |-> h, silent |-> FALSE, dotted |-> FALSE]

\* Where req.add_handler() puts it: at the end of the present list, or of the list kept for p.
Added(p, h) == IF p = phase
               THEN hlist' = Append(hlist, NewEntry(h)) /\ UNCHANGED dyn
               ELSE dyn' = [dyn EXCEPT ![p] = Append(@, NewEntry(h))] /\ UNCHANGED hlist

\* The handler calls req.add_handler(), which refuses PythonCleanupHandler. For a phase
\* that is over it changes a list nobody reads again, which is left out.
\* Bound: MaxAdds.
AddHandler(p, h) ==
    /\ pc = "running"
    /\ p # "cleanup"
    /\ Len(added) < MaxAdds /\ Place(p) >= at
    /\ Added(p, h)
    /\ added' = Append(added, [phase |-> p, h |-> h])
    /\ UNCHANGED <<conf, at, pc, pos, obj, result, made, user, answer, ran>>

InDispatch == Find \/ FindFails \/ FindNone \/ ListEnds

Next == \/ Skip \/ NoHandler \/ NoInterpreter \/ Dispatch \/ InDispatch
        \/ \E r \in Statuses : HandlerReturns(r)
        \/ SetUser
        \/ \E p \in Phases, h \in Handler : AddHandler(p, h)

Spec == Init /\ [][Next]_vars

(***************************************************************************)
(* Fairness: Apache takes the request through its phases, and handlers     *)
(* return.                                                                 *)
(***************************************************************************)
FairSpec == /\ Spec
            /\ WF_vars(Skip \/ NoHandler \/ NoInterpreter \/ Dispatch \/ InDispatch)
            /\ WF_vars(\E r \in Statuses : HandlerReturns(r))
-----------------------------------------------------------------------------
TypeOK ==
    /\ conf \in Configs
    /\ at \in DOMAIN Order /\ pc \in {"apache", "find", "running", "over"}
    /\ hlist \in Seq(Entry) /\ pos \in 1..Len(hlist) + 1
    /\ obj \in Handler \cup {Unset, None}
    /\ result \in Statuses
    /\ dyn \in [Phases -> Seq(Entry)]
    /\ made \in BOOLEAN /\ user \in BOOLEAN
    /\ answer \in [Phases -> Statuses \cup {"none", "refused", "noInterpreter"}]
    /\ ran \in Seq([phase : Phases, h : Handler, r : Statuses])
    /\ added \in Seq([phase : Phases, h : Handler])

OfPhase(s, p) == Keep(s, {e \in Range(s) : e.phase = p})
Names(s)      == [k \in DOMAIN s |-> s[k].h]
RanIn(p)      == Names(OfPhase(ran, p))

\* What should run in phase p: what is configured, then what was added before and during
\* the phase, each once.
DueIn(p) == Names(Configured(p)) \o Names(OfPhase(added, p))

\* "Find the object": what HandlerDispatch calls is the function the list names, never
\* one it looked up for an earlier entry of the list.
CalledIsListed == pc = "running" => obj = hlist[pos].h

\* Handlers run in the order of the configuration and of req.add_handler(), and none twice
\* or without having been asked for, though a list grows while it is worked through; and all
\* of them run, unless one of them stops the phase or is missing: "It is possible to register
\* more handlers while inside the handler of the same type" (Doc/pythonapi.rst).
RunInOrder ==
    \A p \in Phases :
        LET due == Keep(DueIn(p), Existing)
        IN  /\ IsPrefix(RanIn(p), due)
            /\ answer[p] # "none" /\ RanIn(p) # <<>> =>
                 \/ RanIn(p) = due
                 \/ Last(OfPhase(ran, p)).r \notin Expected(p)
                 \/ answer[p] \in {"ERROR", "DONE"}

\* A handler that refuses the request, or fails, is the last but for those that log and
\* clean up, of the same phase and of those to come: "if any handler in the sequence
\* returns a value other than apache.OK or apache.DECLINED, then execution of all
\* subsequent handlers for this phase is aborted" (Doc/directives.rst). The exception is
\* PythonAuthenHandler with PythonAuthoritative Off. And no handler's approval makes Apache
\* take a request for authentic before there is a user.
RefusalStands ==
    /\ answer["authen"] = "OK" /\ RanIn("authen") # <<>> => user
    /\ \A j, k \in DOMAIN ran : j < k /\ ran[j].r \notin {"OK", "DECLINED"} =>
           /\ ran[k].phase # ran[j].phase
           /\ \/ ran[k].phase \in {"log", "cleanup"}
              \/ ran[j].phase = "authen" /\ ran[j].r = "UNAUTHORIZED" /\ ~conf.authoritative

\* PythonHandlerModule: "their absense will be silently ignored" (mod_python.c,
\* directive_PythonHandlerModule): a phase only fails because of a handler that failed, or
\* one that is missing and was not configured that way.
SilentIgnored ==
    \A p \in Phases : answer[p] \in {"ERROR", "DONE"} /\ RanIn(p) = <<>> =>
        \E k \in DOMAIN (Configured(p) \o dyn[p]) :
            LET e == (Configured(p) \o dyn[p])[k] IN ~e.silent /\ e.h \notin Existing

\* Once a handler has run, the PythonCleanupHandler of the directory runs, after all others,
\* if there is an interpreter to run it.
CleanupRuns ==
    /\ ran # <<>> /\ answer["trans"] \in {"OK", "DECLINED"}
    /\ conf.dir["cleanup"] # <<>> /\ Head(conf.dir["cleanup"]).h \in Existing
    ~> pc = "over" /\ ran # <<>> /\
           (Last(ran).phase = "cleanup" \/ answer["cleanup"] = "noInterpreter")
=============================================================================
