----------------------------- MODULE Publisher ------------------------------
(***************************************************************************)
(* The publisher: a request's path is resolved from a module through its   *)
(* attributes, each object on the way may ask who the user is, and the     *)
(* last one is published: called with the form for its arguments, as long  *)
(* as what comes back can be called, and then written.  As under Python 3. *)
(*                                                                         *)
(* The objects of published modules are model values.  A password goes     *)
(* with its user: a wrong one makes another user.                          *)
(***************************************************************************)
EXTENDS Integers, Sequences, SequencesExt

CONSTANTS
    Kind,     \* [objects -> "module", "class", "function", "builtin", "generator" or "instance"]
    Attr,     \* [objects -> [names of attributes -> objects]]
    Guard,    \* [objects -> [auth, users, access, allowed, realm]], see ProcessAuth
    Takes,    \* [objects that can be called -> [names, needs, rest]], their arguments
    Returns,  \* [objects that can be called -> what a call returns]
    Text,     \* [objects -> what str() makes of them]
    Nothing, NoUser, NoRealm, Unknown, Bad, Hidden, Empty,
    Requests  \* see req

VARIABLES
    req,     \* method; files, [names -> modules]; name, of the file or Empty; path, its parts;
             \* credentials: NoUser, Bad or a user; args and posted, sequences of <<name, value>>
    pc, obj, todo, realm, user,
    walked,  \* the objects that the request was let to, the module first
    status, challenge, \* the response: challenge is the realm of WWW-Authenticate
    body,    \* of the request, what was not read yet
    form,
    called,  \* the calls made: <<object, arguments>>
    written

Objects == DOMAIN Kind

\* Attributes, modules and what a call returns are objects; a path is a sequence.
PublisherAssumption ==
    /\ Nothing \in Objects
    /\ \A o \in Objects : /\ \A n \in DOMAIN Attr[o] : Attr[o][n] \in Objects
                          /\ Guard[o].auth \in {"none", "call", "data"}
                          /\ Guard[o].access \in {"none", "call", "list"}
    /\ \A o \in DOMAIN Takes : Returns[o] \in Objects
    /\ \A r \in Requests : /\ \A n \in DOMAIN r.files : r.files[n] \in Objects
                           /\ r.path \in Seq(Range(r.path))

vars == <<req, pc, obj, todo, realm, user, walked, status, challenge, body, form, called, written>>

OK        == 200
Forbidden == 403
NotFound  == 404
Error     == 500

Finish(s) == pc' = "done" /\ status' = s

(* Who may see an object. *)

\* Fault: a user that an object has accepted is asked no more.
ProcessAuthOnce(o, r, u) ==
    LET g     == Guard[o]
        known == IF u = NoUser THEN req.credentials ELSE u
    IN  [status |-> IF u # NoUser THEN OK
                    ELSE IF g.auth # "none" /\ known \notin g.users THEN 401
                    ELSE IF g.access # "none" /\ known \notin g.allowed THEN Forbidden
                    ELSE OK,
         realm |-> IF g.realm = NoRealm THEN r ELSE g.realm,
         user  |-> IF g.auth = "none" /\ g.access = "none" THEN u ELSE known]

\* Objects with a guard make the user known, and let pass those that it accepts.  auth and access
\* are "none", "call" (for access also "list"), or for auth "data", which is compared with a
\* type that is not there in Python 3.
ProcessAuth(o, r, u) ==
    LET g       == Guard[o]
        nobody  == {NoUser, Empty}
        parses  == (g.auth # "none" \/ g.access # "none") /\ u \in nobody /\ req.credentials # NoUser
        known   == IF parses THEN req.credentials ELSE u
        s       == IF parses /\ known = Bad THEN 400
                   ELSE IF g.auth # "none" /\ known \in nobody THEN 401
                   ELSE IF g.auth = "data" THEN Error
                   ELSE IF g.auth = "call" /\ known \notin g.users THEN 401
                   ELSE IF g.access # "none" /\ known \notin g.allowed THEN Forbidden
                   ELSE OK
    IN  [status |-> s, realm |-> IF g.realm = NoRealm THEN r ELSE g.realm, user |-> known]

Traversable(o) == Kind[o] = "instance"
Publishable(o) == Kind[o] \in {"function", "generator", "instance"}
Callable(o)    == o \in DOMAIN Takes

(* The handler. *)

Start ==
    /\ pc = "start"
    /\ IF req.method \in {"GET", "POST", "HEAD"} THEN pc' = "locate" /\ UNCHANGED status
       ELSE Finish(405)
    /\ UNCHANGED <<req, obj, todo, realm, user, walked, challenge, body, form, called, written>>

\* The file of the module or else "index", which is also the name of a directory and of the
\* function where none is given.
Locate ==
    LET name  == IF req.name = Empty THEN "index" ELSE req.name
        found == name \in DOMAIN req.files
        path  == IF found THEN req.path ELSE <<name>> \o req.path
    IN  /\ pc = "locate"
        /\ IF name \in DOMAIN req.files \/ "index" \in DOMAIN req.files
           THEN /\ obj' = req.files[IF found THEN name ELSE "index"]
                /\ todo' = IF path = <<>> THEN <<"index">> ELSE path
                /\ pc' = "load" /\ UNCHANGED status
           ELSE Finish(NotFound) /\ UNCHANGED <<obj, todo>>
        /\ UNCHANGED <<req, realm, user, walked, challenge, body, form, called, written>>

\* Fault: the realm of an object on the path is not kept for those behind it.
EnterOwnRealm(o, default) ==
    LET a == ProcessAuth(o, Unknown, user)
    IN  /\ realm' = a.realm /\ user' = a.user
        /\ challenge' = IF a.status = 401 THEN a.realm ELSE challenge
        /\ IF a.status = OK THEN /\ walked' = Append(walked, o) /\ obj' = o
                                 /\ pc' = "resolve" /\ UNCHANGED status
           ELSE Finish(a.status) /\ UNCHANGED <<walked, obj>>

\* Let the request to an object, or end it.
Enter(o, default) ==
    LET a == ProcessAuth(o, default, user)
    IN  /\ realm' = a.realm /\ user' = a.user
        /\ challenge' = IF a.status = 401 THEN a.realm ELSE challenge
        /\ IF a.status = OK THEN /\ walked' = Append(walked, o) /\ obj' = o
                                 /\ pc' = "resolve" /\ UNCHANGED status
           ELSE Finish(a.status) /\ UNCHANGED <<walked, obj>>

\* page_cache, see Cache; a module that cannot be loaded is an error.
Load ==
    /\ pc = "load"
    /\ \/ Enter(obj, Unknown)
       \/ Finish(Error) /\ UNCHANGED <<realm, user, challenge, walked, obj>>
    /\ UNCHANGED <<req, todo, body, form, called, written>>

\* The next part of the path; the module itself need not be traversable.
Resolve ==
    /\ pc = "resolve" /\ todo # <<>>
    /\ todo' = Tail(todo)
    /\ IF Head(todo) = Empty
       THEN Finish(Error) /\ UNCHANGED <<realm, user, challenge, walked, obj>>
       ELSE IF Head(todo) \in Hidden \/ (Len(walked) > 1 /\ ~Traversable(obj))
       THEN Finish(Forbidden) /\ UNCHANGED <<realm, user, challenge, walked, obj>>
       ELSE IF Head(todo) \notin DOMAIN Attr[obj]
       THEN Finish(NotFound) /\ UNCHANGED <<realm, user, challenge, walked, obj>>
       ELSE Enter(Attr[obj][Head(todo)], realm)
    /\ UNCHANGED <<req, body, form, called, written>>

Resolved ==
    /\ pc = "resolve" /\ todo = <<>>
    /\ IF Publishable(obj) THEN pc' = "publish" /\ UNCHANGED status ELSE Finish(Forbidden)
    /\ UNCHANGED <<req, obj, todo, realm, user, walked, challenge, body, form, called, written>>

(* Publishing. *)

\* The values of each name that the object takes; "req" is there from the start.
Arguments(takes, fields) ==
    LET of(n)  == SelectSeq(fields, LAMBDA f : f[1] = n)
        names  == {f[1] : f \in Range(fields)}
        wanted == IF takes.rest THEN names ELSE names \intersect takes.names
    IN  [n \in wanted |-> [i \in DOMAIN of(n) |-> of(n)[i][2]]]

\* Every call gets a form of its own, and the body can be read once.  A field "req" is appended
\* to the request object that is already in the arguments.  The names of posted fields are bytes,
\* which no argument has: they are dropped, or a TypeError where all are taken.
Call ==
    LET posted == IF req.method = "POST" THEN body ELSE <<>>
        args   == Arguments(Takes[obj], req.args)
        fits   == /\ \A f \in Range(req.args) : f[1] # "req"
                  /\ Takes[obj].needs \ {"req"} \subseteq DOMAIN args
                  /\ Takes[obj].rest => posted = <<>>
    IN  /\ pc = "publish" /\ Callable(obj)
        /\ form' = req.args \o posted
        /\ body' = IF req.method = "POST" THEN <<>> ELSE body
        /\ \/ ~fits /\ Finish(Error) /\ UNCHANGED <<called, obj>>
           \/ fits /\ called' = Append(called, <<obj, args>>)
              /\ obj' = Returns[obj] /\ UNCHANGED <<pc, status>>
        /\ UNCHANGED <<req, todo, realm, user, walked, challenge, written>>

Write ==
    /\ pc = "publish" /\ ~Callable(obj)
    /\ written' = IF obj = Nothing THEN written ELSE Append(written, Text[obj])
    /\ Finish(OK)
    /\ UNCHANGED <<req, obj, todo, realm, user, walked, challenge, body, form, called>>

Init ==
    /\ req \in Requests
    /\ pc = "start" /\ obj = Nothing /\ todo = <<>>
    /\ realm = Unknown /\ user = NoUser /\ walked = <<>>
    /\ status = 0 /\ challenge = NoRealm
    /\ body = req.posted /\ form = <<>> /\ called = <<>> /\ written = <<>>

Next == Start \/ Locate \/ Load \/ Resolve \/ Resolved \/ Call \/ Write

Spec == Init /\ [][Next]_vars

-----------------------------------------------------------------------------
Accepts(o, u) ==
    /\ Guard[o].auth # "none" => Guard[o].auth = "call" /\ u \in Guard[o].users
    /\ Guard[o].access # "none" => u \in Guard[o].allowed

\* The names from the module on.
Names ==
    LET path == IF req.name = Empty \/ req.name \in DOMAIN req.files THEN req.path
                ELSE <<req.name>> \o req.path
    IN  IF path = <<>> THEN <<"index">> ELSE path

\* Nothing is called or written for a path of which one object does not accept the user that the
\* request names, is behind a name with an underscore, or is not open to be traversed or
\* published, the module where it starts and the object where it ends included: of modules,
\* classes and built-in functions "Those are not traversable nor publishable" (publisher.py:364),
\* classes too, although Doc/handlers.rst:150 has their string representation returned.
PublishedIsAllowed ==
    called # <<>> \/ written # <<>> =>
        /\ Len(walked) = Len(Names) + 1
        /\ Range(Names) \intersect (Hidden \union {Empty}) = {}
        /\ \A i \in DOMAIN Names : walked[i + 1] = Attr[walked[i]][Names[i]]
        /\ \A i \in DOMAIN walked : Accepts(walked[i], req.credentials)
        /\ \A i \in 2..(Len(walked) - 1) : Kind[walked[i]] = "instance"
        /\ Kind[Last(walked)] \notin {"module", "class", "builtin"}

\* A refused request is told the realm of the innermost object on its path that has one.
RealmNearest ==
    challenge # NoRealm =>
        LET refused == IF walked = <<>> THEN obj
                       ELSE Attr[obj][Names[Len(walked)]]
            path    == Append(walked, refused)
            having  == {i \in DOMAIN path : Guard[path[i]].realm # NoRealm}
        IN  /\ status = 401
            /\ having = {} => challenge = Unknown
            /\ \A i \in having : (\A j \in having : j <= i) => challenge = Guard[path[i]].realm
=============================================================================
