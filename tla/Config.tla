------------------------------- MODULE Config -------------------------------
(***************************************************************************)
(* The configuration of mod_python: directives are read into a record per  *)
(* scope (a server outside of any section, or a section), the records of a *)
(* virtual host are merged over those of the main server, and those of the *)
(* sections that a request falls in over those of its server.  Where none  *)
(* of its sections has a directive of mod_python, Apache gives the request *)
(* the record of the server itself, which all such requests share.         *)
(*                                                                         *)
(* Names and values are model strings.  Of the directives that only set a  *)
(* string or a flag, Flag has those that choose an interpreter.            *)
(***************************************************************************)
EXTENDS Integers, Sequences, SequencesExt, FiniteSetsExt, Keeping

CONSTANTS
    Request,
    Sections,   \* a sequence of [name, location, pattern, dir], in the order they are merged in
    Key, Value, \* options; the value "" is there
    Phase, Ext, \* phases of Python*Handler, extensions of files; "" is none
    Handler,
    File,       \* of the requests: [ext, dir], the directory that it is in
    Resolved,   \* [directories and patterns -> the directory of the file that each matches]
    SharedWrites, \* handlers write to the options of req.get_options() also where it is shared
    Configs     \* [kinds, most, requests, sections], see conf

Server == {"main", "vhost"}
Flag   == {"PythonInterpreter", "PythonInterpPerDirectory", "PythonInterpPerDirective"}
Unset  == "unset"

\* Sections have names and paths of their own.
ConfigAssumption ==
    /\ Sections \in Seq([name : STRING, location : BOOLEAN, pattern : BOOLEAN, dir : STRING])
    /\ \A i, j \in DOMAIN Sections : Sections[i].name = Sections[j].name => i = j
    /\ \A i \in DOMAIN Sections : Sections[i].name \notin Server /\ Sections[i].dir # Unset
    /\ File.ext \in {""} \union Ext
    /\ \A c \in Configs : c.sections \subseteq DOMAIN Sections

VARIABLES
    conf,    \* kinds of directives that are used, most of them, requests that come, and indices of
             \* the sections that they may fall in
    stage,
    local,   \* per scope: options, flags, hlists, filters, dir, loc
    global,  \* per server: options, flags, conn (handlers of connections), imports
    made,    \* sections with a record of their own
    log,     \* per scope, the directives read in it: <<kind, name, value>>
    req      \* requests: server, matched (indices of sections), shared (uses the server's record),
             \* own (else its own record), wrote (to its options)

vars == <<conf, stage, local, global, made, log, req>>

Names  == {s.name : s \in Range(Sections)}
Scope  == Server \union Names
Slot   == Phase \X ({""} \union Ext)

(* Records and their merging. *)

CreateConfig(dir) ==
    [options |-> <<>>, flags |-> [f \in Flag |-> Unset], hlists |-> [s \in Slot |-> <<>>],
     filters |-> [h \in Handler |-> Unset], dir |-> dir, loc |-> FALSE]

CreateServerConfig ==
    [options |-> <<>>, flags |-> [f \in Flag |-> Unset], conn |-> <<>>, imports |-> <<>>]

\* apr_table_set() of a table that has each key once.
Assign(options, k, v) ==
    IF \E i \in DOMAIN options : options[i][1] = k
    THEN [i \in DOMAIN options |-> IF options[i][1] = k THEN <<k, v>> ELSE options[i]]
    ELSE Append(options, <<k, v>>)

\* The pairs of new assigned to, one after the other.
AssignAll(options, new) ==
    LET upTo[n \in 0..Len(new)] == IF n = 0 THEN options
                                   ELSE Assign(upTo[n - 1], new[n][1], new[n][2])
    IN  upTo[Len(new)]

\* Fault: the record that is merged in gives way.
OverlapReversed(current, new) == AssignAll(new, current)

Overlap(current, new) == AssignAll(current, new)
Over(current, new, none) == [x \in DOMAIN new |-> IF new[x] = none THEN current[x] ELSE new[x]]

\* Fault: only the directory that is merged in has its handlers.
MergeOwnHandlers(cc, nc) ==
    [options |-> Overlap(cc.options, nc.options),
     flags   |-> Over(cc.flags, nc.flags, Unset),
     hlists  |-> nc.hlists,
     filters |-> Over(cc.filters, nc.filters, Unset),
     dir     |-> IF nc.dir = Unset THEN cc.dir ELSE nc.dir,
     loc     |-> IF nc.dir = Unset THEN cc.loc ELSE nc.loc]

\* Fault: the first directory stays.
MergeFirstDir(cc, nc) ==
    [options |-> Overlap(cc.options, nc.options),
     flags   |-> Over(cc.flags, nc.flags, Unset),
     hlists  |-> Over(cc.hlists, nc.hlists, <<>>),
     filters |-> Over(cc.filters, nc.filters, Unset),
     dir     |-> IF cc.dir = Unset THEN nc.dir ELSE cc.dir,
     loc     |-> IF nc.dir = Unset THEN cc.loc ELSE nc.loc]

Merge(cc, nc) ==
    [options |-> Overlap(cc.options, nc.options),
     flags   |-> Over(cc.flags, nc.flags, Unset),
     hlists  |-> Over(cc.hlists, nc.hlists, <<>>),
     filters |-> Over(cc.filters, nc.filters, Unset),
     dir     |-> IF nc.dir = Unset THEN cc.dir ELSE nc.dir,
     loc     |-> IF nc.dir = Unset THEN cc.loc ELSE nc.loc]

\* The imports of neither record are taken over.
MergeServer(cc, nc) ==
    [options |-> Overlap(cc.options, nc.options),
     flags   |-> Over(cc.flags, nc.flags, Unset),
     conn    |-> IF nc.conn = <<>> THEN cc.conn ELSE nc.conn,
     imports |-> <<>>]

NoRequest == [server |-> Unset, matched |-> {}, shared |-> TRUE, own |-> CreateConfig(Unset),
              wrote |-> FALSE]

(* Directives. *)

\* The section that a directive is in, past <Files>; outside of sections there is no directory.
DetermineContext(s) ==
    IF s \in Server THEN [dir |-> Unset, pattern |-> FALSE, loc |-> FALSE]
    ELSE LET section == CHOOSE x \in Range(Sections) : x.name = s
         IN  [dir |-> section.dir, pattern |-> section.pattern, loc |-> section.location]

Reading(s, kind, name, value) ==
    /\ stage = "reading" /\ kind \in conf.kinds
    /\ FoldFunction(LAMBDA l, n : Len(l) + n, 0, log) < conf.most
    /\ made' = made \union ({s} \ Server)
    /\ log' = [log EXCEPT ![s] = Append(@, <<kind, name, value>>)]
    /\ UNCHANGED <<conf, stage, req>>

\* An option without a value is set to the empty string.
PythonOption(s, k, v) ==
    /\ Reading(s, "option", k, v)
    /\ local' = [local EXCEPT ![s].options = Assign(@, k, v)]
    /\ global' = [g \in Server |-> IF g = s THEN [global[g] EXCEPT !.options = Assign(@, k, v)]
                                   ELSE global[g]]

PythonDirective(s, f, v) ==
    /\ Reading(s, "flag", f, v)
    /\ local' = [local EXCEPT ![s].flags[f] = v]
    /\ global' = [g \in Server |-> IF g = s /\ f # "PythonInterpPerDirectory"
                                   THEN [global[g] EXCEPT !.flags[f] = v] ELSE global[g]]

Entry(s, h, silent) ==
    LET at == DetermineContext(s)
    IN  [handler |-> h, dir |-> at.dir, pattern |-> at.pattern, loc |-> at.loc, silent |-> silent]

\* The handlers h of a directive, added to the lists of these phases and extensions.
HlAdd(s, slots, hs, silent) ==
    local' = [local EXCEPT
        ![s].loc = DetermineContext(s).loc,
        ![s].hlists = [x \in Slot |-> IF x \in slots
                                      THEN @[x] \o [i \in DOMAIN hs |-> Entry(s, hs[i], silent)]
                                      ELSE @[x]]]

PythonHandler(s, phase, exts, hs) ==
    LET slots == {phase} \X (IF exts = {} THEN {""} ELSE exts)
    IN  Reading(s, "handler", slots, hs) /\ HlAdd(s, slots, hs, FALSE) /\ UNCHANGED global

PythonHandlerModule(s, h) ==
    LET slots == Phase \X {""}
    IN  Reading(s, "handler", slots, <<h>>) /\ HlAdd(s, slots, <<h>>, TRUE) /\ UNCHANGED global

PythonConnectionHandler(g, h) ==
    /\ Reading(g, "conn", "", h)
    /\ global' = [global EXCEPT ![g].conn = Append(@, h)] /\ UNCHANGED local

\* A filter is registered under its name and found by it in the record of the request.
PythonFilter(s, name, h) ==
    /\ Reading(s, "filter", name, h)
    /\ local' = [local EXCEPT ![s].filters[name] = h] /\ UNCHANGED global

PythonImport(g, h) ==
    /\ Reading(g, "import", "", h)
    /\ global' = [global EXCEPT ![g].imports = Append(@, h)] /\ UNCHANGED local

\* Apache merges what virtual hosts have over what the main server has.
MergeServers ==
    /\ stage = "reading" /\ stage' = "serving"
    /\ local' = [local EXCEPT !["vhost"] = Merge(local["main"], @)]
    /\ global' = [global EXCEPT !["vhost"] = MergeServer(global["main"], @)]
    /\ UNCHANGED <<conf, made, log, req>>

(* Requests. *)

On(r) == req[r].server # Unset
Conf(r) == IF req[r].shared THEN local[req[r].server] ELSE req[r].own

With(matched) == {i \in matched : Sections[i].name \in made}

\* The record of a server with those of these sections over it, one after the other.
Merged(g, with) ==
    LET upTo[n \in 0..Len(Sections)] ==
            IF n = 0 THEN local[g]
            ELSE IF n \in with THEN Merge(upTo[n - 1], local[Sections[n].name])
            ELSE upTo[n - 1]
    IN  upTo[Len(Sections)]

Begin(r, g, matched) ==
    LET with == With(matched)
    IN  /\ stage = "serving" /\ r \in conf.requests /\ ~On(r)
        /\ req' = [req EXCEPT ![r] =
               [server |-> g, matched |-> matched, shared |-> with = {}, wrote |-> FALSE,
                own |-> IF with = {} THEN CreateConfig(Unset) ELSE Merged(g, with)]]
        /\ UNCHANGED <<conf, stage, local, global, made, log>>

SetOptions(r, options) ==
    /\ IF req[r].shared
       THEN /\ local' = [local EXCEPT ![req[r].server].options = options]
            /\ UNCHANGED req
       ELSE /\ req' = [req EXCEPT ![r].own.options = options]
            /\ UNCHANGED local
    /\ UNCHANGED <<conf, stage, global, made, log>>

\* The loop of req.get_options(): where an entry is taken out, the next one moves to its place
\* and is passed over.
UnsetEmpty(options) ==
    LET upTo[n \in 0..Len(options)] ==
            IF n = 0 THEN options
            ELSE IF n <= Len(upTo[n - 1]) /\ upTo[n - 1][n][2] = "" THEN RemoveAt(upTo[n - 1], n)
            ELSE upTo[n - 1]
    IN  upTo[Len(options)]

GetOptions(r) == On(r) /\ SetOptions(r, UnsetEmpty(Conf(r).options))

\* The table that req.get_options() returned is assigned to.
WriteOption(r, k, v) ==
    /\ On(r) /\ ~req[r].wrote
    /\ req[r].shared => SharedWrites
    /\ IF req[r].shared
       THEN /\ local' = [local EXCEPT ![req[r].server].options = Assign(@, k, v)]
            /\ req' = [req EXCEPT ![r].wrote = TRUE]
       ELSE /\ req' = [req EXCEPT ![r].wrote = TRUE, ![r].own.options = Assign(@, k, v)]
            /\ UNCHANGED local
    /\ UNCHANGED <<conf, stage, global, made, log>>

End(r) ==
    /\ On(r) /\ req' = [req EXCEPT ![r] = NoRequest]
    /\ UNCHANGED <<conf, stage, local, global, made, log>>

\* The list of a phase: that of the extension of the file if there is one, with patterns
\* of directories resolved against the file.
HlistOf(r, phase) ==
    LET lists == Conf(r).hlists
        list  == IF lists[<<phase, File.ext>>] # <<>> THEN lists[<<phase, File.ext>>]
                 ELSE lists[<<phase, "">>]
    IN  [i \in DOMAIN list |->
            IF ~list[i].loc /\ list[i].pattern
            THEN [list[i] EXCEPT !.dir = Resolved[@], !.pattern = FALSE] ELSE list[i]]

\* Unset is the main interpreter.
SelectInterpName(r, phase) ==
    LET flags == Conf(r).flags
    IN  IF flags["PythonInterpreter"] # Unset THEN flags["PythonInterpreter"]
        ELSE IF flags["PythonInterpPerDirectory"] = "1" THEN File.dir
        ELSE IF flags["PythonInterpPerDirective"] = "1" THEN HlistOf(r, phase)[1].dir
        ELSE req[r].server

\* In a <Location> nothing is mapped to storage, and its path is where a WSGI application is.
MapToStorage(r) == IF Conf(r).loc THEN "OK" ELSE "DECLINED"
WsgiBase(r) == IF Conf(r).loc THEN Conf(r).dir ELSE Unset

Init ==
    /\ conf \in Configs
    /\ stage = "reading" /\ made = {}
    /\ local = [s \in Scope |-> CreateConfig(DetermineContext(s).dir)]
    /\ global = [g \in Server |-> CreateServerConfig]
    /\ log = [s \in Scope |-> <<>>]
    /\ req = [r \in Request |-> NoRequest]

Directive ==
    \/ \E s \in Scope, k \in Key, v \in Value : PythonOption(s, k, v)
    \/ \E s \in Scope : \/ PythonDirective(s, "PythonInterpreter", "named")
                        \/ \E v \in {"0", "1"} : \E f \in Flag \ {"PythonInterpreter"} :
                               PythonDirective(s, f, v)
    \/ \E s \in Scope, h \in Handler :
           \/ \E p \in Phase, exts \in SUBSET Ext : PythonHandler(s, p, exts, <<h, h>>)
           \/ PythonHandlerModule(s, h)
           \/ PythonFilter(s, h, h)
    \/ \E g \in Server, h \in Handler : PythonConnectionHandler(g, h) \/ PythonImport(g, h)

Serve ==
    \E r \in Request :
        \/ \E g \in Server, matched \in SUBSET conf.sections : Begin(r, g, matched)
        \/ GetOptions(r) \/ End(r)
        \/ \E k \in Key, v \in Value : WriteOption(r, k, v)

Next == Directive \/ MergeServers \/ Serve

Spec == Init /\ [][Next]_vars

-----------------------------------------------------------------------------
(* What the directives mean, from the log of them. *)

ScopesOf(r) == {"main", req[r].server} \union {Sections[i].name : i \in req[r].matched}

Options(k)  == {"option"} \X {k} \X Value
Flags(f)    == {"flag"} \X {f} \X {"named", "0", "1"}
Handlers(x) == {"handler"} \X {slots \in SUBSET Slot : x \in slots} \X Seq(Handler)

Read(s, D) == Keep(log[s], D)

\* Those of the directives D that the innermost scope that has one has, for a request to the
\* server g in these sections.
Innermost(g, matched, D) ==
    LET in == {i \in matched : Read(Sections[i].name, D) # <<>>}
    IN  IF in # {} THEN Read(Sections[Max(in)].name, D)
        ELSE IF Read(g, D) # <<>> THEN Read(g, D)
        ELSE Read("main", D)

Said(r, D) == Innermost(req[r].server, req[r].matched, D)

Option(ds) == IF ds = <<>> THEN "" ELSE Last(ds)[3]
FlagIs(ds) == IF ds = <<>> THEN Unset ELSE Last(ds)[3]

\* The handlers that directives name, in their order.
Named(ds) ==
    LET upTo[n \in 0..Len(ds)] == IF n = 0 THEN <<>> ELSE upTo[n - 1] \o ds[n][3]
    IN  upTo[Len(ds)]

\* The options of a request are the last set in the innermost scope that sets them, whatever
\* requests before it or beside it took out of the table that they share.
EffectiveOptions ==
    \A r \in Request : On(r) /\ ~req[r].wrote =>
        {o \in Range(Conf(r).options) : o[2] # ""}
            = {<<k, Option(Said(r, Options(k)))>> : k \in {k \in Key : Option(Said(r, Options(k))) # ""}}

\* Where the flags have the interpreter go by the directive.
PerDirective(r) ==
    /\ FlagIs(Said(r, Flags("PythonInterpreter"))) = Unset
    /\ FlagIs(Said(r, Flags("PythonInterpPerDirectory"))) # "1"
    /\ FlagIs(Said(r, Flags("PythonInterpPerDirective"))) = "1"

\* The handlers of a phase are those of the innermost scope that names it, in their order, and
\* with PythonInterpPerDirective they run in the interpreter of that scope.
EffectiveHandlers ==
    \A r \in Request, p \in Phase : On(r) =>
        LET said(x) == Said(r, Handlers(x))
            ds == IF said(<<p, File.ext>>) # <<>> THEN said(<<p, File.ext>>) ELSE said(<<p, "">>)
            hl == HlistOf(r, p)
        IN  /\ [i \in DOMAIN hl |-> hl[i].handler] = Named(ds)
            /\ hl # <<>> /\ PerDirective(r)
               => \E s \in ScopesOf(r) :
                      /\ \E d \in Range(ds) : d \in Range(log[s])
                      /\ LET at == DetermineContext(s)
                         IN  SelectInterpName(r, p) = IF at.pattern /\ ~at.loc THEN Resolved[at.dir]
                                                      ELSE at.dir

\* Mapping to storage is left out, and the base of a WSGI application taken from the path of the
\* section, only for a request whose innermost section with directives is a <Location> that
\* names a handler.
OnlyLocations ==
    \A r \in Request : On(r) /\ MapToStorage(r) = "OK" =>
        LET inner == Sections[Max(With(req[r].matched))]
        IN  /\ inner.location /\ WsgiBase(r) = inner.dir
            /\ \E d \in Range(log[inner.name]) : d[1] = "handler"

\* "If the value is omitted or empty, then the key is removed from the local configuration."
EmptyRemoved ==
    [][\A r \in Request : GetOptions(r) => \A o \in Range(Conf(r)'.options) : o[2] # ""]_vars
=============================================================================
