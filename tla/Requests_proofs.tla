-------------------------- MODULE Requests_proofs ---------------------------
(***************************************************************************)
(* Proofs about what a request to the publisher meets: the publisher       *)
(* itself, then tables, then configurations.                               *)
(***************************************************************************)
EXTENDS Requests, Keeping_proofs, SequenceTheorems, TLAPS

(***************************************************************************)
(* The parts a path may be made of, and how a sequence grows.              *)
(***************************************************************************)
Part == {"index"} \cup UNION {{r.name} \cup Range(r.path) : r \in Requests}

LEMMA AppendFacts ==
  ASSUME NEW S, NEW s \in Seq(S), NEW e \in S
  PROVE  /\ Append(s, e) \in Seq(S) /\ Len(s) \in Nat
         /\ Len(Append(s, e)) = Len(s) + 1 /\ DOMAIN Append(s, e) = 1..Len(s) + 1
         /\ \A k \in 1..Len(s) : Append(s, e)[k] = s[k]
         /\ Append(s, e)[Len(s) + 1] = e
         /\ Last(Append(s, e)) = e
<1>1. /\ Append(s, e) \in Seq(S) /\ Len(s) \in Nat
      /\ Len(Append(s, e)) = Len(s) + 1
      /\ \A k \in 1..Len(s) : Append(s, e)[k] = s[k]
      /\ Append(s, e)[Len(s) + 1] = e
  BY AppendProperties, LenProperties
<1>2. DOMAIN Append(s, e) = 1..Len(s) + 1
  BY <1>1, LenProperties
<1>3. QED BY <1>1, <1>2 DEF Last

LEMMA TailFacts ==
  ASSUME NEW S, NEW s \in Seq(S), s # <<>>
  PROVE  /\ Tail(s) \in Seq(S) /\ Head(s) = s[1] /\ Head(s) \in S
         /\ Len(s) \in Nat \ {0} /\ Len(Tail(s)) = Len(s) - 1
         /\ \A k \in 1..Len(s) - 1 : Tail(s)[k] = s[k + 1]
<1>1. Len(s) \in Nat \ {0}
  BY EmptySeq
<1>2. Head(s) = s[1] /\ Head(s) \in S
  BY <1>1, ElementOfSeq
<1>3. Tail(s) \in Seq(S) /\ Len(Tail(s)) = Len(s) - 1 /\ \A k \in 1..Len(s) - 1 : Tail(s)[k] = s[k + 1]
  BY <1>1
<1>4. QED BY <1>1, <1>2, <1>3

-----------------------------------------------------------------------------
(***************************************************************************)
(* The inductive invariant: at every program point, what the objects let   *)
(* to so far have to do with the names of the request.                     *)
(***************************************************************************)
TypeOK ==
    /\ req \in Requests
    /\ pc \in {"start", "locate", "load", "resolve", "publish", "done"}
    /\ obj \in Objects
    /\ todo \in Seq(Part)
    /\ walked \in Seq(Objects)

\* The user is the one the request names, once an object has asked.
UserNamed == user \in {NoUser, req.credentials}

\* The objects let to are those the names lead to, and each let the user in.
WalkedRight ==
    /\ Len(walked) <= Len(Names) + 1
    /\ \A i \in 1..Len(walked) - 1 : /\ Names[i] \notin Hidden \cup {Empty}
                                     /\ walked[i + 1] = Attr[walked[i]][Names[i]]
    /\ \A i \in 1..Len(walked) : Accepts(walked[i], req.credentials)
    /\ \A i \in 2..Len(walked) - 1 : Kind[walked[i]] = "instance"

\* Before the module is loaded nothing was let to; then the names still to do are the rest.
Before == pc \in {"start", "locate", "load"} => walked = <<>>
AtLoad == pc = "load" => todo = Names
AtResolve == pc = "resolve" =>
    /\ walked # <<>> /\ obj = walked[Len(walked)]
    /\ Len(todo) + Len(walked) = Len(Names) + 1
    /\ \A k \in 1..Len(todo) : todo[k] = Names[Len(walked) - 1 + k]

\* What is published is the object the last name leads to.
Complete == pc = "publish" \/ called # <<>> \/ written # <<>> =>
    /\ Len(walked) = Len(Names) + 1
    /\ Publishable(walked[Len(walked)])
    /\ pc \in {"publish", "done"}

\* The realm so far is that of the last object on the path that has one.
Nearest(r, path) ==
    LET having == {i \in 1..Len(path) : Guard[path[i]].realm # NoRealm}
    IN  /\ having = {} => r = Unknown
        /\ \A i \in having : (\A j \in having : j <= i) => r = Guard[path[i]].realm

RealmSoFar ==
    /\ pc = "resolve" => Nearest(realm, walked)
    /\ pc # "done" => challenge = NoRealm

IInv == /\ TypeOK /\ UserNamed /\ WalkedRight /\ Before /\ AtLoad /\ AtResolve /\ Complete
        /\ RealmSoFar /\ RealmNearest

LEMMA NamesFacts ==
  ASSUME PublisherAssumption, req \in Requests
  PROVE  /\ Names \in Seq(Part) /\ Len(Names) \in Nat \ {0} /\ DOMAIN Names = 1..Len(Names)
         /\ req.path \in Seq(Part) /\ req.name \in Part /\ "index" \in Part
<1>1. req.name \in Part /\ "index" \in Part /\ Range(req.path) \subseteq Part
  BY DEF Part
<1>2. req.path \in Seq(Range(req.path))
  BY DEF PublisherAssumption
<1>3. req.path \in Seq(Part)
  <2>1. \A k \in 1..Len(req.path) : req.path[k] \in Part
    BY <1>1, <1>2, ElementOfSeq
  <2>2. QED BY <1>2, <2>1, LenProperties
<1>4. <<req.name>> \o req.path \in Seq(Part) /\ <<"index">> \in Seq(Part)
      /\ <<req.name>> \o req.path # <<>> /\ <<"index">> # <<>>
  BY <1>1, <1>3
<1>5. Names \in Seq(Part) /\ Names # <<>>
  BY <1>3, <1>4 DEF Names
<1>6. QED BY <1>1, <1>3, <1>5, EmptySeq, LenProperties

\* What a guard decides when the user is nobody or the one that the request names.
LEMMA AuthFacts ==
  ASSUME PublisherAssumption, UserNamed, NEW o \in Objects, NEW d
  PROVE  LET a == ProcessAuth(o, d, user)
         IN  /\ a.user \in {NoUser, req.credentials}
             /\ a.status = OK => Accepts(o, req.credentials)
             /\ a.realm = IF Guard[o].realm = NoRealm THEN d ELSE Guard[o].realm
<1> DEFINE nobody == {NoUser, Empty}
           guarded == Guard[o].auth # "none" \/ Guard[o].access # "none"
           parses == guarded /\ user \in nobody /\ req.credentials # NoUser
           known == IF parses THEN req.credentials ELSE user
<1>1. ProcessAuth(o, d, user).user = known
      /\ ProcessAuth(o, d, user).realm = IF Guard[o].realm = NoRealm THEN d ELSE Guard[o].realm
  BY DEF ProcessAuth
<1>2. known \in {NoUser, req.credentials} /\ (guarded => known = req.credentials)
  BY DEF UserNamed
<1>3. ProcessAuth(o, d, user).status = OK =>
        /\ Guard[o].auth # "none" => Guard[o].auth = "call" /\ known \in Guard[o].users
        /\ Guard[o].access # "none" => known \in Guard[o].allowed
  <2>1. Guard[o].auth \in {"none", "call", "data"}
    BY DEF PublisherAssumption
  <2>2. QED BY <2>1 DEF ProcessAuth, OK, Error, Forbidden
<1>4. QED BY <1>1, <1>2, <1>3 DEF Accepts

\* Letting the request to an object: it goes on there, or it ends where it was.
LEMMA EnterFacts ==
  ASSUME PublisherAssumption, UserNamed, NEW o \in Objects, NEW d, Enter(o, d)
  PROVE  LET r == IF Guard[o].realm = NoRealm THEN d ELSE Guard[o].realm
         IN  /\ user' \in {NoUser, req.credentials}
             /\ \/ /\ Accepts(o, req.credentials)
                   /\ walked' = Append(walked, o) /\ obj' = o
                   /\ pc' = "resolve" /\ realm' = r /\ status' = status /\ challenge' = challenge
                \/ /\ walked' = walked /\ obj' = obj /\ pc' = "done"
                   /\ challenge' = challenge \/ (status' = 401 /\ challenge' = r)
<1> DEFINE a == ProcessAuth(o, d, user)
<1>1. /\ a.user \in {NoUser, req.credentials}
      /\ a.status = OK => Accepts(o, req.credentials)
      /\ a.realm = IF Guard[o].realm = NoRealm THEN d ELSE Guard[o].realm
  BY AuthFacts
<1>2. /\ realm' = a.realm /\ user' = a.user
      /\ challenge' = IF a.status = 401 THEN a.realm ELSE challenge
      /\ \/ a.status = OK /\ walked' = Append(walked, o) /\ obj' = o
            /\ pc' = "resolve" /\ status' = status
         \/ a.status # OK /\ pc' = "done" /\ status' = a.status /\ walked' = walked /\ obj' = obj
  BY DEF Enter, Finish
<1> HIDE DEF a
<1>3. QED BY <1>1, <1>2 DEF OK

\* One more object on the path: its realm, or else the one so far.
LEMMA NearestAppend ==
  ASSUME NEW path \in Seq(Objects), NEW o \in Objects, NEW d, Nearest(d, path)
  PROVE  Nearest(IF Guard[o].realm = NoRealm THEN d ELSE Guard[o].realm, Append(path, o))
<1> DEFINE r == IF Guard[o].realm = NoRealm THEN d ELSE Guard[o].realm
           p == Append(path, o)
           n == Len(path) + 1
           had == {i \in 1..Len(path) : Guard[path[i]].realm # NoRealm}
           having == {i \in 1..Len(p) : Guard[p[i]].realm # NoRealm}
<1>1. /\ Len(path) \in Nat /\ Len(p) = n /\ p[n] = o
      /\ \A k \in 1..Len(path) : p[k] = path[k]
  BY AppendFacts
<1>2. CASE Guard[o].realm = NoRealm
  <2>1. having = had
    BY <1>1, <1>2
  <2>2. \A i \in had : p[i] = path[i]
    BY <1>1
  <2>3. QED BY <1>2, <2>1, <2>2 DEF Nearest
<1>3. CASE Guard[o].realm # NoRealm
  <2>1. n \in having
    BY <1>1, <1>3
  <2>2. ASSUME NEW i \in having, \A j \in having : j <= i PROVE i = n
    BY <1>1, <2>1, <2>2
  <2>3. \A i \in having : (\A j \in having : j <= i) => r = Guard[p[i]].realm
    BY <1>1, <1>3, <2>2
  <2>4. QED BY <2>1, <2>3 DEF Nearest
<1>4. QED BY <1>2, <1>3

-----------------------------------------------------------------------------
LEMMA InitInv == PublisherAssumption /\ Init => IInv
<1> SUFFICES ASSUME PublisherAssumption, Init PROVE IInv
  OBVIOUS
<1>1. req \in Requests /\ obj = Nothing /\ Nothing \in Objects
  BY DEF Init, PublisherAssumption
<1>2. TypeOK
  BY <1>1 DEF Init, TypeOK
<1>3. Len(Names) \in Nat
  BY <1>1, NamesFacts
<1>4. UserNamed /\ WalkedRight /\ Before /\ AtLoad /\ AtResolve /\ Complete
  BY <1>3 DEF Init, UserNamed, WalkedRight, Before, AtLoad, AtResolve, Complete
<1>5. RealmSoFar /\ RealmNearest
  BY DEF Init, RealmSoFar, RealmNearest
<1>6. QED BY <1>2, <1>4, <1>5 DEF IInv

\* Steps that leave the path alone.
LEMMA PlainStep ==
  ASSUME PublisherAssumption, IInv, Start \/ Locate \/ Resolved \/ Call \/ Write
  PROVE  IInv'
<1> USE DEF IInv
<1>1. /\ UNCHANGED <<req, realm, user, walked, challenge>>
      /\ pc \in {"start", "locate", "resolve", "publish"}
  BY DEF Start, Locate, Resolved, Call, Write, Finish
<1>2. /\ Names \in Seq(Part) /\ Len(Names) \in Nat /\ Names' = Names
      /\ req.path \in Seq(Part) /\ req.name \in Part /\ "index" \in Part
  BY <1>1, NamesFacts DEF TypeOK, Names
<1>3. TypeOK'
  <2>1. CASE Locate
    <3>1. DOMAIN req.files # {} => \A n \in DOMAIN req.files : req.files[n] \in Objects
      BY DEF TypeOK, PublisherAssumption
    <3>2. todo' \in Seq(Part)
      <4> DEFINE name == IF req.name = Empty THEN "index" ELSE req.name
                 path == IF name \in DOMAIN req.files THEN req.path ELSE <<name>> \o req.path
      <4>1. name \in Part
        BY <1>2
      <4>2. <<name>> \o req.path \in Seq(Part) /\ <<"index">> \in Seq(Part)
        <5> HIDE DEF name
        <5>1. QED BY <1>2, <4>1
      <4>3. todo' = todo \/ todo' = IF path = <<>> THEN <<"index">> ELSE path
        BY <2>1 DEF Locate
      <4>4. QED BY <1>2, <4>2, <4>3 DEF TypeOK
    <3>3. obj' \in Objects /\ pc' \in {"load", "done"}
      BY <2>1, <3>1 DEF Locate, TypeOK, Finish
    <3>4. QED BY <1>1, <3>2, <3>3 DEF TypeOK
  <2>2. CASE Call
    <3>1. obj' \in Objects
      BY <2>2 DEF Call, Callable, TypeOK, PublisherAssumption
    <3>2. QED BY <1>1, <2>2, <3>1 DEF TypeOK, Call, Finish
  <2>3. CASE Start \/ Resolved \/ Write
    BY <1>1, <2>3 DEF TypeOK, Start, Resolved, Write, Finish
  <2>4. QED BY <2>1, <2>2, <2>3
<1>4. UserNamed' /\ WalkedRight'
  BY <1>1, <1>2 DEF UserNamed, WalkedRight, Accepts
<1>5. Before' /\ AtLoad' /\ AtResolve'
  <2>1. pc' # "resolve"
    BY DEF Start, Locate, Resolved, Call, Write, Finish
  <2>2. pc' \in {"start", "locate", "load"} => walked = <<>>
    BY DEF Start, Locate, Resolved, Call, Write, Finish, Before
  <2>3. pc' = "load" => todo' = Names
    <3>1. pc' = "load" => Locate
      BY DEF Start, Locate, Resolved, Call, Write, Finish
    <3>2. Locate /\ pc' = "load" => todo' = Names
      BY DEF Locate, Names, Finish
    <3>3. QED BY <3>1, <3>2
  <2>4. QED BY <1>1, <1>2, <2>1, <2>2, <2>3 DEF Before, AtLoad, AtResolve
<1>6. Complete'
  <2>1. CASE Start \/ Locate
    <3>1. pc' # "publish" /\ called = <<>> /\ written = <<>> /\ UNCHANGED <<called, written>>
      BY <2>1 DEF Start, Locate, Finish, Complete
    <3>2. QED BY <3>1 DEF Complete
  <2>2. CASE Resolved
    <3>1. /\ pc = "resolve" /\ todo = <<>> /\ UNCHANGED <<called, written>>
          /\ pc' = "done" \/ (pc' = "publish" /\ Publishable(obj))
      BY <2>2 DEF Resolved, Finish
    <3>2. called = <<>> /\ written = <<>>
      BY <3>1 DEF Complete
    <3>3. Len(walked) = Len(Names) + 1 /\ obj = walked[Len(walked)]
      <4>1. Len(todo) = 0
        BY <3>1
      <4>2. Len(walked) \in Nat
        BY LenProperties DEF TypeOK
      <4>3. QED BY <1>2, <3>1, <4>1, <4>2 DEF AtResolve
    <3>4. QED BY <1>1, <1>2, <3>1, <3>2, <3>3 DEF Complete
  <2>3. CASE Call \/ Write
    <3>1. pc = "publish" /\ pc' \in {"publish", "done"}
      BY <2>3 DEF Call, Write, Finish
    <3>2. QED BY <1>1, <1>2, <3>1 DEF Complete
  <2>4. QED BY <2>1, <2>2, <2>3
<1>7. RealmSoFar' /\ RealmNearest'
  <2>1. challenge' = NoRealm /\ pc' # "resolve"
    BY <1>1 DEF RealmSoFar, Start, Locate, Resolved, Call, Write, Finish
  <2>2. QED BY <2>1 DEF RealmSoFar, RealmNearest
<1>8. QED BY <1>3, <1>4, <1>5, <1>6, <1>7

\* The module is loaded and lets the request in, or the request ends.
LEMMA LoadStep ==
  ASSUME PublisherAssumption, IInv, Load
  PROVE  IInv'
<1> USE DEF IInv
<1>1. /\ pc = "load" /\ UNCHANGED <<req, todo, body, form, called, written>>
      /\ walked = <<>> /\ todo = Names /\ challenge = NoRealm
      /\ called = <<>> /\ written = <<>>
  BY DEF Load, Before, AtLoad, RealmSoFar, Complete
<1>2. Names' = Names /\ Names \in Seq(Part) /\ Len(Names) \in Nat \ {0}
  BY <1>1, NamesFacts DEF TypeOK, Names
<1>3. CASE walked' = walked /\ pc' = "done" /\ obj' = obj /\ user' \in {NoUser, req.credentials}
           /\ RealmNearest'
  <2>1. TypeOK' /\ UserNamed'
    BY <1>1, <1>3 DEF TypeOK, UserNamed
  <2>2. WalkedRight' /\ Before' /\ AtLoad' /\ AtResolve' /\ Complete' /\ RealmSoFar'
    BY <1>1, <1>2, <1>3 DEF WalkedRight, Before, AtLoad, AtResolve, Complete, RealmSoFar, Accepts
  <2>3. QED BY <1>3, <2>1, <2>2
<1>4. CASE Finish(Error) /\ UNCHANGED <<realm, user, challenge, walked, obj>>
  <2>1. RealmNearest'
    BY <1>1, <1>4 DEF RealmNearest
  <2>2. QED BY <1>3, <1>4, <2>1 DEF Finish, UserNamed
<1>5. CASE Enter(obj, Unknown)
  <2> DEFINE r == IF Guard[obj].realm = NoRealm THEN Unknown ELSE Guard[obj].realm
  <2>1. /\ user' \in {NoUser, req.credentials}
        /\ \/ /\ Accepts(obj, req.credentials)
              /\ walked' = Append(walked, obj) /\ obj' = obj
              /\ pc' = "resolve" /\ realm' = r /\ challenge' = challenge
           \/ /\ walked' = walked /\ obj' = obj /\ pc' = "done"
              /\ challenge' = challenge \/ (status' = 401 /\ challenge' = r)
    BY <1>5, EnterFacts DEF TypeOK
  <2>2. Nearest(Unknown, <<>>)
    BY DEF Nearest
  <2>3. Nearest(r, Append(<<>>, obj))
    <3>1. <<>> \in Seq(Objects) /\ obj \in Objects
      BY DEF TypeOK
    <3>2. QED BY <2>2, <3>1, NearestAppend
  <2>4. Append(<<>>, obj) = <<obj>> /\ Len(<<obj>>) = 1 /\ <<obj>>[1] = obj /\ DOMAIN <<obj>> = 1..1
    OBVIOUS
  <2> HIDE DEF r
  <2>5. CASE /\ Accepts(obj, req.credentials) /\ walked' = <<obj>> /\ obj' = obj
             /\ pc' = "resolve" /\ realm' = r /\ challenge' = challenge
    <3>1. TypeOK' /\ UserNamed'
      BY <1>1, <2>1, <2>5 DEF TypeOK, UserNamed
    <3>2. WalkedRight'
      BY <1>1, <1>2, <2>4, <2>5 DEF WalkedRight, Accepts
    <3>3. Before' /\ AtLoad' /\ Complete'
      BY <1>1, <2>5 DEF Before, AtLoad, Complete
    <3>4. AtResolve'
      BY <1>1, <1>2, <2>4, <2>5 DEF AtResolve
    <3>5. RealmSoFar' /\ RealmNearest'
      BY <1>1, <2>3, <2>4, <2>5 DEF RealmSoFar, RealmNearest
    <3>6. QED BY <3>1, <3>2, <3>3, <3>4, <3>5
  <2>6. CASE /\ walked' = walked /\ obj' = obj /\ pc' = "done"
             /\ challenge' = challenge \/ (status' = 401 /\ challenge' = r)
    <3>1. Append(walked', obj') = <<obj>>
      BY <1>1, <2>4, <2>6
    <3>2. Nearest(r, <<obj>>)
      BY <2>3, <2>4
    <3>3. RealmNearest'
      BY <1>1, <2>4, <2>6, <3>1, <3>2 DEF RealmNearest, Nearest
    <3>4. QED BY <1>3, <2>1, <2>6, <3>3
  <2>7. QED BY <1>1, <2>1, <2>4, <2>5, <2>6
<1>6. QED BY <1>4, <1>5 DEF Load

\* The next name is looked up in the object where the request is.
LEMMA ResolveStep ==
  ASSUME PublisherAssumption, IInv, Resolve
  PROVE  IInv'
<1> USE DEF IInv
<1> DEFINE n == Len(walked)
           name == Head(todo)
<1>1. /\ pc = "resolve" /\ todo # <<>> /\ todo' = Tail(todo)
      /\ UNCHANGED <<req, body, form, called, written>>
      /\ challenge = NoRealm /\ called = <<>> /\ written = <<>>
      /\ Nearest(realm, walked)
  BY DEF Resolve, RealmSoFar, Complete
<1>2. /\ Names' = Names /\ Names \in Seq(Part) /\ Len(Names) \in Nat \ {0}
      /\ n \in Nat \ {0} /\ obj = walked[n] /\ DOMAIN walked = 1..n
      /\ Len(todo) + n = Len(Names) + 1
      /\ \A k \in 1..Len(todo) : todo[k] = Names[n - 1 + k]
  <2>1. Names' = Names /\ Names \in Seq(Part) /\ Len(Names) \in Nat \ {0}
    BY <1>1, NamesFacts DEF TypeOK, Names
  <2>2. QED BY <1>1, <2>1, EmptySeq, LenProperties DEF AtResolve, TypeOK
<1>3. /\ Tail(todo) \in Seq(Part) /\ Len(todo) \in Nat \ {0} /\ Len(Tail(todo)) = Len(todo) - 1
      /\ \A k \in 1..Len(todo) - 1 : Tail(todo)[k] = todo[k + 1]
      /\ name = todo[1]
  BY <1>1, TailFacts DEF TypeOK
<1>4. name = Names[n] /\ n <= Len(Names)
  BY <1>2, <1>3
<1> HIDE DEF n, name
<1>5. CASE walked' = walked /\ pc' = "done" /\ obj' = obj /\ user' \in {NoUser, req.credentials}
           /\ RealmNearest'
  <2>1. TypeOK' /\ UserNamed'
    BY <1>1, <1>3, <1>5 DEF TypeOK, UserNamed
  <2>2. WalkedRight' /\ Before' /\ AtLoad' /\ AtResolve' /\ Complete' /\ RealmSoFar'
    BY <1>1, <1>2, <1>5 DEF WalkedRight, Before, AtLoad, AtResolve, Complete, RealmSoFar, Accepts
  <2>3. QED BY <1>5, <2>1, <2>2
<1>6. CASE pc' = "done" /\ UNCHANGED <<realm, user, challenge, walked, obj>>
  <2>1. RealmNearest'
    BY <1>1, <1>6 DEF RealmNearest
  <2>2. QED BY <1>5, <1>6, <2>1 DEF UserNamed
<1>7. CASE /\ name \notin Hidden \cup {Empty} /\ ~(n > 1 /\ ~Traversable(obj))
           /\ name \in DOMAIN Attr[obj] /\ Enter(Attr[obj][name], realm)
  <2> DEFINE o == Attr[obj][name]
             r == IF Guard[o].realm = NoRealm THEN realm ELSE Guard[o].realm
             w == Append(walked, o)
  <2>1. o \in Objects
    BY <1>7 DEF TypeOK, PublisherAssumption
  <2>2. /\ user' \in {NoUser, req.credentials}
        /\ \/ /\ Accepts(o, req.credentials)
              /\ walked' = w /\ obj' = o
              /\ pc' = "resolve" /\ realm' = r /\ challenge' = challenge
           \/ /\ walked' = walked /\ obj' = obj /\ pc' = "done"
              /\ challenge' = challenge \/ (status' = 401 /\ challenge' = r)
    BY <1>7, <2>1, EnterFacts
  <2>3. Nearest(r, w)
    BY <1>1, <2>1, NearestAppend DEF TypeOK
  <2>4. /\ w \in Seq(Objects) /\ Len(w) = n + 1 /\ DOMAIN w = 1..n + 1
        /\ \A k \in 1..n : w[k] = walked[k]
        /\ w[n + 1] = o /\ w # <<>>
    BY <2>1, AppendFacts, AppendProperties DEF TypeOK, n
  <2>5. n > 1 => Kind[walked[n]] = "instance"
    BY <1>2, <1>4, <1>7 DEF Traversable
  <2>6. CASE /\ Accepts(o, req.credentials) /\ walked' = w /\ obj' = o
             /\ pc' = "resolve" /\ realm' = r /\ challenge' = challenge
    <3> HIDE DEF w, r
    <3>1. TypeOK' /\ UserNamed'
      BY <1>1, <1>3, <2>1, <2>2, <2>4, <2>6 DEF TypeOK, UserNamed
    <3>2. WalkedRight'
      <4>1. \A i \in 1..n : w[i] = walked[i] /\ Accepts(walked[i], req.credentials)
        BY <2>4 DEF WalkedRight, n
      <4>2. \A i \in 1..n + 1 : Accepts(w[i], req.credentials)
        BY <1>2, <2>4, <2>6, <4>1
      <4>3. \A i \in 1..n : /\ Names[i] \notin Hidden \cup {Empty}
                            /\ w[i + 1] = Attr[w[i]][Names[i]]
        <5>1. ASSUME NEW i \in 1..n - 1
              PROVE  Names[i] \notin Hidden \cup {Empty} /\ w[i + 1] = Attr[w[i]][Names[i]]
          BY <1>2, <2>4 DEF WalkedRight, n
        <5>2. Names[n] \notin Hidden \cup {Empty} /\ w[n + 1] = Attr[w[n]][Names[n]]
          BY <1>2, <1>4, <1>7, <2>4
        <5>3. QED BY <1>2, <5>1, <5>2
      <4>4. \A i \in 2..n : Kind[w[i]] = "instance"
        <5>1. \A i \in 2..n - 1 : Kind[w[i]] = "instance"
          BY <1>2, <2>4 DEF WalkedRight, n
        <5>2. n > 1 => Kind[w[n]] = "instance"
          BY <1>2, <2>4, <2>5
        <5>3. QED BY <1>2, <5>1, <5>2
      <4>5. req' = req /\ Len(walked') = n + 1 /\ walked' = w
        BY <1>1, <2>4, <2>6
      <4>6. QED BY <1>2, <1>4, <4>2, <4>3, <4>4, <4>5 DEF WalkedRight, Accepts
    <3>3. Before' /\ AtLoad' /\ Complete'
      BY <1>1, <2>6 DEF Before, AtLoad, Complete
    <3>4. AtResolve'
      <4>1. \A k \in 1..Len(Tail(todo)) : Tail(todo)[k] = Names[n + k]
        BY <1>2, <1>3
      <4>2. /\ todo' = Tail(todo) /\ walked' = w /\ obj' = o /\ Len(w) = n + 1 /\ w[n + 1] = o /\ w # <<>>
        BY <1>1, <2>4, <2>6
      <4>3. Len(Tail(todo)) + (n + 1) = Len(Names) + 1
        BY <1>2, <1>3
      <4>4. \A k \in 1..Len(Tail(todo)) : Tail(todo)[k] = Names[(n + 1) - 1 + k]
        BY <1>2, <4>1
      <4>5. QED BY <1>2, <4>2, <4>3, <4>4 DEF AtResolve
    <3>5. RealmSoFar' /\ RealmNearest'
      BY <1>1, <2>3, <2>6 DEF RealmSoFar, RealmNearest
    <3>6. QED BY <3>1, <3>2, <3>3, <3>4, <3>5
  <2>7. CASE /\ walked' = walked /\ obj' = obj /\ pc' = "done"
             /\ challenge' = challenge \/ (status' = 401 /\ challenge' = r)
    <3>1. walked # <<>> /\ Attr[obj][Names[Len(walked)]] = o
      BY <1>1, <1>4 DEF AtResolve, n
    <3>2. RealmNearest'
      <4> HIDE DEF o, r
      <4>1. Append(walked', Attr[obj'][Names'[Len(walked')]]) = w
        BY <1>2, <2>7, <3>1
      <4>2. walked' # <<>>
        BY <2>7, <3>1
      <4> HIDE DEF w
      <4>3. challenge' # NoRealm => status' = 401 /\ challenge' = r
        BY <1>1, <2>7
      <4> DEFINE having == {i \in DOMAIN w : Guard[w[i]].realm # NoRealm}
      <4>4. challenge' # NoRealm =>
              /\ status' = 401
              /\ having = {} => challenge' = Unknown
              /\ \A i \in having : (\A j \in having : j <= i) => challenge' = Guard[w[i]].realm
        <5>1. having = {i \in 1..Len(w) : Guard[w[i]].realm # NoRealm}
          BY <2>4
        <5>2. QED BY <2>3, <4>3, <5>1 DEF Nearest
      <4>5. (IF walked' = <<>> THEN obj' ELSE Attr[obj'][Names'[Len(walked')]])
              = Attr[obj'][Names'[Len(walked')]]
        BY <4>2
      <4>6. QED BY <4>1, <4>4, <4>5 DEF RealmNearest
    <3>3. QED BY <1>5, <2>2, <2>7, <3>2
  <2>8. QED BY <2>2, <2>6, <2>7
<1>8. QED BY <1>6, <1>7 DEF Resolve, Finish, n, name

LEMMA StepInv == PublisherAssumption /\ IInv /\ [Next]_vars => IInv'
<1> SUFFICES ASSUME PublisherAssumption, IInv, [Next]_vars PROVE IInv'
  OBVIOUS
<1>1. CASE UNCHANGED vars
  <2>1. Names' = Names
    BY <1>1 DEF vars, Names
  <2>2. TypeOK' /\ UserNamed' /\ WalkedRight' /\ Before' /\ AtLoad' /\ AtResolve' /\ Complete'
    BY <1>1, <2>1 DEF vars, IInv, TypeOK, UserNamed, WalkedRight, Before, AtLoad, AtResolve,
                      Complete, Accepts
  <2>3. RealmSoFar' /\ RealmNearest'
    BY <1>1, <2>1 DEF vars, IInv, RealmSoFar, RealmNearest
  <2>4. QED BY <2>2, <2>3 DEF IInv
<1>2. CASE Start \/ Locate \/ Resolved \/ Call \/ Write
  BY <1>2, PlainStep
<1>3. CASE Load \/ Resolve
  BY <1>3, LoadStep, ResolveStep
<1>4. QED BY <1>1, <1>2, <1>3 DEF Next

-----------------------------------------------------------------------------
(***************************************************************************)
(* The theorems: for any site, guards and requests that                    *)
(* PublisherAssumption admits.                                             *)
(***************************************************************************)
THEOREM InvariantHolds == PublisherAssumption => (Spec => []IInv)
<1> SUFFICES ASSUME PublisherAssumption PROVE Spec => []IInv
  OBVIOUS
<1>1. Init => IInv
  BY InitInv
<1>2. IInv /\ [Next]_vars => IInv'
  BY StepInv
<1>3. QED BY <1>1, <1>2, PTL DEF Spec

\* What is called or written is at the end of the whole path, every object on the way
\* let the user of the request in, and none of the names is hidden.
THEOREM Allowed == PublisherAssumption => (Spec => []PublishedIsAllowed)
<1> SUFFICES ASSUME PublisherAssumption PROVE Spec => []PublishedIsAllowed
  OBVIOUS
<1>1. IInv => PublishedIsAllowed
  <2> SUFFICES ASSUME IInv, called # <<>> \/ written # <<>>
               PROVE  /\ Len(walked) = Len(Names) + 1
                      /\ Range(Names) \intersect (Hidden \union {Empty}) = {}
                      /\ \A i \in DOMAIN Names : walked[i + 1] = Attr[walked[i]][Names[i]]
                      /\ \A i \in DOMAIN walked : Accepts(walked[i], req.credentials)
                      /\ \A i \in 2..(Len(walked) - 1) : Kind[walked[i]] = "instance"
                      /\ Kind[Last(walked)] \notin {"module", "class", "builtin"}
    BY DEF PublishedIsAllowed
  <2> USE DEF IInv
  <2>1. Len(walked) = Len(Names) + 1 /\ Publishable(walked[Len(walked)])
    BY DEF Complete
  <2>2. /\ DOMAIN Names = 1..Len(Names) /\ Len(Names) \in Nat /\ DOMAIN walked = 1..Len(walked)
    BY NamesFacts, LenProperties DEF TypeOK
  <2>3. \A i \in 1..Len(Names) : /\ Names[i] \notin Hidden \cup {Empty}
                                 /\ walked[i + 1] = Attr[walked[i]][Names[i]]
    BY <2>1, <2>2 DEF WalkedRight
  <2>4. Range(Names) \intersect (Hidden \union {Empty}) = {}
    BY <2>2, <2>3 DEF Range
  <2>5. Kind[Last(walked)] \notin {"module", "class", "builtin"}
    BY <2>1 DEF Publishable, Last
  <2>6. QED BY <2>1, <2>2, <2>3, <2>4, <2>5 DEF WalkedRight
<1>2. QED BY <1>1, InvariantHolds, PTL

\* The challenge of a refused request names the realm of the innermost object on its
\* path that has one, the refusing one included.
THEOREM Realm == PublisherAssumption => (Spec => []RealmNearest)
<1>1. IInv => RealmNearest
  BY DEF IInv
<1>2. QED BY <1>1, InvariantHolds, PTL

-----------------------------------------------------------------------------

(***************************************************************************)
(* Tables.  An index is what a scan of the array finds.                    *)
(***************************************************************************)
Entry == [key : TableKey, val : TableValue]
Indexed(t) == t.elts \in Seq(Entry) /\ t = T!Reindexed(t.elts)

\* The places of a name, and its values.
At(s, n) == Places(s, T!Named(n))
Folded(s, n) == T!ValuesOf(Keep(s, T!Named(n)))

LEMMA TableKeeps == /\ \A s, S : T!Keep(s, S) = Keep(s, S)
                    /\ \A n : T!UpTo(n) = UpTo(n)
                    /\ T!Entry = Entry
BY DEF T!Keep, Keep, T!UpTo, UpTo, T!Entry, Entry

LEMMA Extremes ==
  ASSUME NEW n \in Nat, NEW S \in SUBSET (1..n), S # {}
  PROVE  /\ T!Min(S) \in S /\ \A x \in S : T!Min(S) <= x
         /\ T!Max(S) \in S /\ \A x \in S : x <= T!Max(S)
<1> DEFINE R == OpToRel(<, Nat)
           D == {n - x : x \in S}
<1>1. IsWellFoundedOn(R, Nat) /\ S \subseteq Nat /\ D \subseteq Nat /\ D # {}
  <2>1. \A x \in S : x \in Nat /\ n - x \in Nat
    OBVIOUS
  <2> QED
    BY <2>1, NatLessThanWellFounded
<1>2. \A x, y \in Nat : <<y, x>> \in R <=> y < x
  BY DEF OpToRel
<1> HIDE DEF R
<1>3. PICK a \in S : \A y \in S : <<y, a>> \notin R
  BY <1>1, WFMin
<1>4. PICK d \in D : \A y \in D : <<y, d>> \notin R
  <2> HIDE DEF D
  <2> QED
    BY <1>1, WFMin
<1>5. ASSUME NEW x \in S PROVE a <= x
  <2>1. x \in Nat /\ a \in Nat /\ ~(x < a)
    BY <1>1, <1>2, <1>3
  <2> QED
    BY <2>1
<1>6. PICK b \in S : d = n - b
  OBVIOUS
<1>7. \A x \in S : x <= b
  <2>1. SUFFICES ASSUME NEW x \in S, ~(x <= b) PROVE FALSE
    OBVIOUS
  <2>2. n - x \in D /\ n - x \in Nat /\ d \in Nat /\ n - x < d
    BY <1>1, <1>6, <2>1
  <2> QED
    BY <1>2, <1>4, <2>2
<1>8. T!Min(S) \in S /\ \A x \in S : T!Min(S) <= x
  BY <1>5 DEF T!Min
<1>9. T!Max(S) \in S /\ \A x \in S : x <= T!Max(S)
  BY <1>7 DEF T!Max
<1> QED
  BY <1>8, <1>9

LEMMA ReindexedFacts ==
  ASSUME NEW s \in Seq(Entry)
  PROVE  /\ T!Reindexed(s).elts = s /\ T!Reindexed(s).n = Len(s) /\ Indexed(T!Reindexed(s))
         /\ DOMAIN T!Reindexed(s).ix = T!Letters
         /\ \A l \in T!Letters : T!Reindexed(s).ix[l] =
                LET at == {i \in 1..Len(s) : Letter[s[i].key] = l}
                IN  IF at = {} THEN <<>> ELSE <<T!Min(at), T!Max(at)>>
<1>1. DOMAIN s = 1..Len(s)
  OBVIOUS
<1> QED
  BY <1>1 DEF Indexed, T!Reindexed

(* A search by the index hits the places of the name.                      *)
LEMMA HitsAre ==
  ASSUME T!TableAssumption, NEW t, Indexed(t), NEW k \in TableKey
  PROVE  /\ T!Hits(t, k) = At(t.elts, CaseFold[k])
         /\ T!Hits(t, k) = {i \in 1..Len(t.elts) : CaseFold[t.elts[i].key] = CaseFold[k]}
         /\ Len(t.elts) \in Nat
<1> DEFINE s == t.elts
           l == Letter[k]
           at == {i \in 1..Len(s) : Letter[s[i].key] = l}
           H == {i \in 1..Len(s) : CaseFold[s[i].key] = CaseFold[k]}
<1>1. s \in Seq(Entry) /\ Len(s) \in Nat
  BY DEF Indexed
<1>2. ASSUME NEW i \in 1..Len(s) PROVE s[i] \in Entry /\ s[i].key \in TableKey
  <2>1. s[i] \in Entry
    BY <1>1, ElementOfSeq
  <2> QED
    BY <2>1 DEF Entry
<1>3. At(s, CaseFold[k]) = H
  BY <1>2, TableKeeps DEF At, Places, T!Named
<1>4. H \subseteq at
  BY <1>2 DEF T!TableAssumption
<1>5. l \in T!Letters
  BY DEF T!Letters, T!Range, T!TableAssumption
<1>6. t.ix[l] = IF at = {} THEN <<>> ELSE <<T!Min(at), T!Max(at)>>
  <2>1. t = T!Reindexed(s)
    BY DEF Indexed
  <2> HIDE DEF s
  <2> QED
    BY <1>1, <1>5, <2>1, ReindexedFacts
<1>7. T!Hits(t, k) = H
  <2>1. CASE at = {}
    BY <1>4, <1>6, <2>1 DEF T!Hits
  <2>2. CASE at # {}
    <3> DEFINE a == T!Min(at)
               b == T!Max(at)
    <3>1. a \in 1..Len(s) /\ b \in 1..Len(s) /\ \A i \in at : a <= i /\ i <= b
      <4>1. at \in SUBSET (1..Len(s))
        OBVIOUS
      <4> HIDE DEF at
      <4> QED
        BY <1>1, <2>2, <4>1, Extremes
    <3>2. t.ix[l] = <<a, b>> /\ <<a, b>> # <<>> /\ <<a, b>>[1] = a /\ <<a, b>>[2] = b
      BY <1>6, <2>2
    <3>3. T!Hits(t, k) = {i \in a..b : CaseFold[s[i].key] = CaseFold[k]}
      <4> HIDE DEF a, b
      <4> QED
        BY <3>2 DEF T!Hits
    <3>4. {i \in a..b : CaseFold[s[i].key] = CaseFold[k]} = H
      <4>1. \A i \in H : i \in at
        BY <1>4
      <4> HIDE DEF at, a, b
      <4>2. \A i \in H : i \in a..b
        BY <1>1, <3>1, <4>1
      <4> QED
        BY <1>1, <3>1, <4>2
    <3> QED
      BY <3>3, <3>4
  <2> QED
    BY <2>1, <2>2
<1> QED
  BY <1>1, <1>3, <1>7

(* The index of a scan depends on the keys alone.                          *)
LEMMA SameKeys ==
  ASSUME NEW s \in Seq(Entry), NEW u \in Seq(Entry), Len(s) = Len(u),
         \A i \in 1..Len(s) : s[i].key = u[i].key
  PROVE  T!Reindexed(u) = [elts |-> u, n |-> Len(s), ix |-> T!Reindexed(s).ix]
<1>1. DOMAIN s = 1..Len(s) /\ DOMAIN u = 1..Len(s)
  OBVIOUS
<1>2. \A l \in T!Letters : {i \in DOMAIN s : Letter[s[i].key] = l} = {i \in DOMAIN u : Letter[u[i].key] = l}
  BY <1>1
<1> QED
  BY <1>2 DEF T!Reindexed

LEMMA Fields ==
  ASSUME NEW t, Indexed(t)
  PROVE  /\ t.elts \in Seq(Entry) /\ t.n = Len(t.elts) /\ t.n \in Nat /\ T!Live(t) = t.elts
         /\ t = [elts |-> t.elts, n |-> t.n, ix |-> t.ix] /\ t = T!Reindexed(t.elts)
         /\ DOMAIN t.ix = T!Letters
<1> DEFINE s == t.elts
<1>1. s \in Seq(Entry) /\ t = T!Reindexed(s)
  BY DEF Indexed
<1>2. t.n = Len(s) /\ DOMAIN t.ix = T!Letters
  <2> HIDE DEF s
  <2> QED
    BY <1>1, ReindexedFacts
<1>3. T!Live(t) = s
  <2>1. SubSeq(s, 1, Len(s)) = s
    <3> HIDE DEF s
    <3> QED
      BY <1>1
  <2> QED
    BY <1>2, <2>1 DEF T!Live
<1>4. t = [elts |-> s, n |-> t.n, ix |-> t.ix]
  BY <1>1 DEF T!Reindexed
<1> QED
  BY <1>1, <1>2, <1>3, <1>4

LEMMA AddIs ==
  ASSUME T!TableAssumption, NEW t, Indexed(t), NEW k \in TableKey, NEW v \in TableValue
  PROVE  LET e == [key |-> k, val |-> v]
         IN  /\ T!AprAdd(t, k, v) = T!Reindexed(Append(t.elts, e))
             /\ Append(t.elts, e) \in Seq(Entry) /\ e \in Entry
<1> DEFINE s == t.elts
           e == [key |-> k, val |-> v]
           u == Append(s, e)
           m == Len(s) + 1
           l == Letter[k]
           at(x) == {i \in 1..Len(s) : Letter[s[i].key] = x}
           to(x) == {i \in 1..m : Letter[u[i].key] = x}
<1>1. s \in Seq(Entry) /\ t.n = Len(s) /\ Len(s) \in Nat /\ T!Live(t) = s /\ e \in Entry
  BY Fields DEF Entry
<1>2. /\ u \in Seq(Entry) /\ Len(u) = m /\ u[m] = e /\ DOMAIN u = 1..m
      /\ \A i \in 1..Len(s) : u[i] = s[i]
  <2> HIDE DEF s, e
  <2> QED
    BY <1>1, AppendProperties
<1>3. T!AprAdd(t, k, v).elts = u
  <2>1. SubSeq(s, t.n + 2, Len(s)) = <<>>
    <3> HIDE DEF s
    <3> QED
      BY <1>1
  <2>2. u \o <<>> = u
    <3> HIDE DEF u
    <3> QED
      BY <1>2
  <2> QED
    BY <1>1, <2>1, <2>2 DEF T!AprAdd
<1>4. /\ DOMAIN T!Reindexed(u).ix = T!Letters /\ T!Reindexed(u).elts = u /\ T!Reindexed(u).n = m
      /\ \A x \in T!Letters : T!Reindexed(u).ix[x] =
             IF to(x) = {} THEN <<>> ELSE <<T!Min(to(x)), T!Max(to(x))>>
  <2>1. \A x : to(x) = {i \in 1..Len(u) : Letter[u[i].key] = x}
    BY <1>2
  <2> HIDE DEF u, to, m
  <2> QED
    BY <1>2, <2>1, ReindexedFacts
<1>5. /\ DOMAIN t.ix = T!Letters
      /\ \A x \in T!Letters : t.ix[x] = IF at(x) = {} THEN <<>> ELSE <<T!Min(at(x)), T!Max(at(x))>>
  <2>1. t = T!Reindexed(s)
    BY Fields
  <2> HIDE DEF s
  <2> QED
    BY <1>1, <2>1, ReindexedFacts
<1>6. ASSUME NEW x \in T!Letters
      PROVE  T!Reindexed(u).ix[x] = IF x = l THEN <<IF t.ix[x] = <<>> THEN m ELSE t.ix[x][1], m>> ELSE t.ix[x]
  <2>1. m \in Nat /\ 1..Len(s) \subseteq 1..m /\ m \in 1..m /\ m \notin 1..Len(s)
    BY <1>1
  <2>2. CASE x # l
    <3>1. to(x) = at(x)
      BY <1>1, <1>2, <2>1, <2>2
    <3> HIDE DEF to, at, u
    <3> QED
      BY <1>4, <1>5, <2>2, <3>1
  <2>3. CASE x = l
    <3>1. to(x) = at(x) \cup {m}
      BY <1>1, <1>2, <2>1, <2>3
    <3>2. T!Max(to(x)) = m
      <4>1. to(x) \in SUBSET (1..m) /\ m \in to(x)
        BY <2>1, <3>1
      <4> HIDE DEF to, m
      <4>2. T!Max(to(x)) \in to(x) /\ m <= T!Max(to(x))
        BY <2>1, <4>1, Extremes
      <4> QED
        BY <2>1, <4>1, <4>2
    <3>3. ASSUME at(x) = {} PROVE T!Min(to(x)) = m
      <4>1. to(x) = {m} /\ to(x) \in SUBSET (1..m)
        BY <2>1, <3>1, <3>3
      <4> HIDE DEF to, m
      <4>2. T!Min(to(x)) \in to(x)
        BY <2>1, <4>1, Extremes
      <4> QED
        BY <4>1, <4>2
    <3>4. ASSUME at(x) # {} PROVE T!Min(to(x)) = T!Min(at(x))
      <4>1. to(x) \in SUBSET (1..m) /\ at(x) \in SUBSET (1..Len(s)) /\ at(x) \subseteq to(x)
        BY <2>1, <3>1
      <4> DEFINE a == T!Min(at(x))
                 b == T!Min(to(x))
      <4>2. a \in at(x) /\ a \in 1..Len(s) /\ \A y \in at(x) : a <= y
        <5> HIDE DEF to, m, at, s
        <5> QED
          BY <1>1, <3>4, <4>1, Extremes
      <4>3. b \in to(x) /\ b \in 1..m /\ \A y \in to(x) : b <= y
        <5> HIDE DEF to, m, at, s
        <5> QED
          BY <2>1, <3>4, <4>1, Extremes
      <4> HIDE DEF a, b, to, at
      <4>4. b <= a
        BY <4>1, <4>2, <4>3
      <4>5. b # m
        BY <1>1, <4>2, <4>4
      <4>6. b \in at(x)
        BY <3>1, <4>3, <4>5
      <4>7. a <= b /\ a \in Nat /\ b \in Nat
        BY <1>1, <4>2, <4>3, <4>6
      <4> QED
        BY <4>4, <4>7 DEF a, b
    <3>5. to(x) # {} /\ t.ix[x] = IF at(x) = {} THEN <<>> ELSE <<T!Min(at(x)), T!Max(at(x))>>
      <4> HIDE DEF to, at
      <4> QED
        BY <1>5, <3>1
    <3>6. T!Reindexed(u).ix[x] = <<T!Min(to(x)), m>>
      <4> HIDE DEF to, u
      <4> QED
        BY <1>4, <3>2, <3>5
    <3> HIDE DEF to, at, u, m
    <3> QED
      BY <2>3, <3>3, <3>4, <3>5, <3>6
  <2> QED
    BY <2>2, <2>3
<1>7. T!AprAdd(t, k, v).ix = T!Reindexed(u).ix
  <2> DEFINE ix == T!Reindexed(u).ix
  <2>1. ix = [x \in T!Letters |-> ix[x]]
    BY DEF T!Reindexed
  <2>2. T!AprAdd(t, k, v).ix = [t.ix EXCEPT ![l] = <<IF t.ix[l] = <<>> THEN m ELSE t.ix[l][1], m>>]
    BY <1>1 DEF T!AprAdd
  <2> DEFINE f == t.ix
             g == T!AprAdd(t, k, v).ix
  <2>3. g = [f EXCEPT ![l] = <<IF f[l] = <<>> THEN m ELSE f[l][1], m>>] /\ DOMAIN f = T!Letters
    BY <1>5, <2>2
  <2>4. \A x \in T!Letters : ix[x] = IF x = l THEN <<IF f[x] = <<>> THEN m ELSE f[x][1], m>> ELSE f[x]
    BY <1>6
  <2>5. ix = g
    <3> HIDE DEF ix, m, l, f, g
    <3> QED
      BY <2>1, <2>3, <2>4
  <2> QED
    BY <2>5
<1>8. T!AprAdd(t, k, v) = [elts |-> u, n |-> m, ix |-> T!AprAdd(t, k, v).ix]
  <2> HIDE DEF u
  <2> QED
    BY <1>1, <1>3 DEF T!AprAdd
<1>9. T!Reindexed(u) = [elts |-> u, n |-> m, ix |-> T!Reindexed(u).ix]
  <2> HIDE DEF u
  <2> QED
    BY <1>2 DEF T!Reindexed
<1> QED
  BY <1>1, <1>2, <1>7, <1>8, <1>9

LEMMA Interval == ASSUME NEW n \in Nat PROVE IsFiniteSet(1..n) /\ Cardinality(1..n) = n
<1>1. 1 \in Int /\ n \in Int /\ (IF 1 > n THEN 0 ELSE n - 1 + 1) = n
  OBVIOUS
<1>2. IsFiniteSet(1..n) /\ Cardinality(1..n) = IF 1 > n THEN 0 ELSE n - 1 + 1
  BY <1>1, FS_Interval
<1> QED
  BY <1>1, <1>2

LEMMA Cards == \A S : T!Cardinality(S) = Cardinality(S)
BY DEF T!Cardinality, Cardinality

LEMMA DroppedIs ==
  ASSUME T!TableAssumption, NEW t, Indexed(t), NEW slots \in SUBSET (1..Len(t.elts))
  PROVE  LET left == Picked(t.elts, 1..Len(t.elts) \ slots)
         IN  T!Dropped(t, slots) = T!Reindexed(left) /\ left \in Seq(Entry)
<1> DEFINE s == t.elts
           D == 1..Len(s)
           left == Picked(s, D \ slots)
<1>1. s \in Seq(Entry) /\ t.n = Len(s) /\ Len(s) \in Nat /\ t = T!Reindexed(s) /\ DOMAIN s = D
  <2>1. s \in Seq(Entry) /\ t.n = Len(s) /\ t = T!Reindexed(s)
    BY Fields
  <2> HIDE DEF s
  <2> QED
    BY <2>1
<1>2. left \in Seq(Entry) /\ Len(left) = Cardinality(D \ slots)
  <2>1. D \cap (D \ slots) = D \ slots
    OBVIOUS
  <2> HIDE DEF s
  <2>2. left \in Seq(Entry) /\ Len(left) = Cardinality(D \cap (D \ slots))
    BY <1>1, PickedType
  <2> QED
    BY <2>1, <2>2
<1>3. CASE slots = {}
  <2>1. D \ slots = D
    BY <1>3
  <2>2. left = s
    <3> HIDE DEF s
    <3> QED
      BY <1>1, <2>1, PickedAll
  <2>3. T!Dropped(t, slots) = t
    BY <1>3 DEF T!Dropped
  <2> QED
    BY <1>1, <1>2, <2>2, <2>3
<1>4. CASE slots # {}
  <2>1. Len(left) = t.n - Cardinality(slots)
    <3>1. IsFiniteSet(D) /\ Cardinality(D) = Len(s)
      <4> HIDE DEF s
      <4> QED
        BY <1>1, Interval
    <3>2. IsFiniteSet(slots) /\ D \cap slots = slots
      <4>1. slots \subseteq D
        OBVIOUS
      <4> HIDE DEF D
      <4> QED
        BY <3>1, <4>1, FS_Subset
    <3>3. Cardinality(D \ slots) = Cardinality(D) - Cardinality(D \cap slots)
      <4> HIDE DEF D
      <4> QED
        BY <3>1, <3>2, FS_Difference
    <3> QED
      BY <1>1, <1>2, <3>1, <3>2, <3>3
  <2>2. SubSeq(left, 1, t.n - Cardinality(slots)) = left
    <3> HIDE DEF left
    <3>1. SubSeq(left, 1, Len(left)) = left
      BY <1>2
    <3> QED
      BY <2>1, <3>1
  <2>3. left = [i \in DOMAIN Keep(UpTo(Len(s)), DOMAIN s \ slots) |-> s[Keep(UpTo(Len(s)), DOMAIN s \ slots)[i]]]
    BY <1>1 DEF Picked, Image
  <2> HIDE DEF left
  <2>4. T!Dropped(t, slots) = T!Reindexed(SubSeq(left, 1, t.n - Cardinality(slots)))
    BY <1>1, <1>4, <2>3, TableKeeps, Cards DEF T!Dropped
  <2> QED
    BY <1>2, <2>2, <2>4 DEF left
<1> QED
  BY <1>3, <1>4

LEMMA NamedAt ==
  ASSUME NEW s \in Seq(Entry), NEW n
  PROVE  /\ At(s, n) = {i \in 1..Len(s) : CaseFold[s[i].key] = n}
         /\ Keep(s, T!Named(n)) = Picked(s, At(s, n))
         /\ Keep(s, T!Named(n)) \in Seq(Entry)
<1>1. \A i \in 1..Len(s) : s[i] \in Entry
  BY ElementOfSeq
<1>2. At(s, n) = {i \in 1..Len(s) : CaseFold[s[i].key] = n}
  BY <1>1, TableKeeps DEF At, Places, T!Named
<1> QED
  BY <1>2, KeepPicked, KeepType DEF At

LEMMA ValuesFacts ==
  ASSUME NEW s \in Seq(Entry)
  PROVE  /\ T!ValuesOf(s) \in Seq(TableValue) /\ Len(T!ValuesOf(s)) = Len(s)
         /\ T!ValuesOf(<<>>) = <<>>
         /\ \A e \in Entry : /\ T!ValuesOf(<<e>>) = <<e.val>>
                             /\ T!ValuesOf(Append(s, e)) = Append(T!ValuesOf(s), e.val)
<1> DEFINE Of(u) == [i \in DOMAIN u |-> u[i].val]
<1>1. ASSUME NEW u \in Seq(Entry)
      PROVE  Of(u) \in Seq(TableValue) /\ Len(Of(u)) = Len(u) /\ DOMAIN Of(u) = 1..Len(u)
  <2>1. Len(u) \in Nat /\ DOMAIN u = 1..Len(u)
    OBVIOUS
  <2>2. ASSUME NEW i \in 1..Len(u) PROVE u[i].val \in TableValue
    <3>1. u[i] \in Entry
      BY ElementOfSeq
    <3> QED
      BY <3>1 DEF Entry
  <2>3. Of(u) = [i \in 1..Len(u) |-> u[i].val]
    BY <2>1
  <2> QED
    BY <2>1, <2>2, <2>3, IsASeq
<1>2. Of(<<>>) = <<>>
  OBVIOUS
<1>3. ASSUME NEW e \in Entry PROVE Of(<<e>>) = <<e.val>>
  OBVIOUS
<1>4. ASSUME NEW e \in Entry PROVE Of(Append(s, e)) = Append(Of(s), e.val)
  <2> DEFINE a == Append(s, e)
             b == Append(Of(s), e.val)
  <2>1. a \in Seq(Entry) /\ Len(a) = Len(s) + 1 /\ a[Len(s) + 1] = e /\ \A i \in 1..Len(s) : a[i] = s[i]
    BY AppendProperties
  <2>2. e.val \in TableValue /\ Of(s) \in Seq(TableValue) /\ Len(Of(s)) = Len(s) /\ Len(s) \in Nat
    <3>1. e.val \in TableValue /\ Len(s) \in Nat
      BY DEF Entry
    <3> HIDE DEF Of
    <3> QED
      BY <1>1, <3>1
  <2>3. /\ b \in Seq(TableValue) /\ Len(b) = Len(s) + 1 /\ b[Len(s) + 1] = e.val
        /\ \A i \in 1..Len(s) : b[i] = Of(s)[i]
    <3> HIDE DEF Of
    <3> QED
      BY <2>2, AppendProperties
  <2>4. Of(a) \in Seq(TableValue) /\ Len(Of(a)) = Len(s) + 1
    <3> HIDE DEF Of, a
    <3> QED
      BY <1>1, <2>1
  <2>5. \A i \in 1..Len(s) + 1 : Of(a)[i] = a[i].val
    <3>1. DOMAIN a = 1..Len(s) + 1
      BY <2>1
    <3> HIDE DEF a
    <3> QED
      BY <3>1
  <2>6. \A i \in 1..Len(s) : Of(s)[i] = s[i].val
    OBVIOUS
  <2> HIDE DEF Of, a, b
  <2>7. \A i \in 1..Len(s) + 1 : Of(a)[i] = b[i]
    BY <2>1, <2>2, <2>3, <2>5, <2>6
  <2>8. Of(a) = b
    BY <2>3, <2>4, <2>7, SeqEqual
  <2> QED
    BY <2>8 DEF a, b
<1>5. \A u : T!ValuesOf(u) = Of(u)
  BY DEF T!ValuesOf
<1> HIDE DEF Of
<1> QED
  BY <1>1, <1>2, <1>3, <1>4, <1>5

LEMMA FoldedFacts ==
  ASSUME NEW s \in Seq(Entry), NEW n
  PROVE  /\ Folded(s, n) \in Seq(TableValue)
         /\ Len(Folded(s, n)) = Len(Keep(s, T!Named(n)))
         /\ Len(Folded(s, n)) = Cardinality(At(s, n))
         /\ At(s, n) = {} <=> Folded(s, n) = <<>>
<1> DEFINE k == Keep(s, T!Named(n))
           a == At(s, n)
<1>1. k \in Seq(Entry) /\ k = Picked(s, a)
  BY NamedAt
<1>2. a \subseteq 1..Len(s) /\ Len(s) \in Nat
  BY NamedAt
<1>3. 1..Len(s) \cap a = a
  BY <1>2
<1>4. IsFiniteSet(a) /\ Len(k) = Cardinality(a)
  <2> HIDE DEF k, a
  <2>1. Len(Picked(s, a)) = Cardinality(1..Len(s) \cap a)
    BY PickedType
  <2>2. IsFiniteSet(1..Len(s))
    BY <1>2, Interval
  <2> QED
    BY <1>1, <1>2, <1>3, <2>1, <2>2, FS_Subset
<1>5. Folded(s, n) = T!ValuesOf(k)
  BY DEF Folded
<1> HIDE DEF k, a
<1>6. Folded(s, n) \in Seq(TableValue) /\ Len(Folded(s, n)) = Len(k)
  BY <1>1, <1>5, ValuesFacts
<1>7. a = {} <=> Cardinality(a) = 0
  BY <1>4, FS_EmptySet
<1>8. Folded(s, n) = <<>> <=> Len(Folded(s, n)) = 0
  BY <1>6, EmptySeq
<1> QED
  BY <1>4, <1>6, <1>7, <1>8 DEF k, a

(* What adding to the array does to the values of a name.                  *)
LEMMA AddFolds ==
  ASSUME T!TableAssumption, NEW t, Indexed(t), NEW k \in TableKey, NEW v \in TableValue
  PROVE  LET u == T!AprAdd(t, k, v)
         IN  /\ Indexed(u) /\ u.elts = Append(t.elts, [key |-> k, val |-> v])
             /\ \A n : Folded(u.elts, n) = IF n = CaseFold[k] THEN Append(Folded(t.elts, n), v)
                                          ELSE Folded(t.elts, n)
<1> DEFINE s == t.elts
           e == [key |-> k, val |-> v]
           u == Append(s, e)
<1>1. T!AprAdd(t, k, v) = T!Reindexed(u) /\ u \in Seq(Entry) /\ e \in Entry /\ s \in Seq(Entry)
  BY AddIs, Fields
<1>2. T!Reindexed(u).elts = u /\ Indexed(T!Reindexed(u))
  <2> HIDE DEF u
  <2> QED
    BY <1>1, ReindexedFacts
<1>3. ASSUME NEW n PROVE Folded(u, n) = IF n = CaseFold[k] THEN Append(Folded(s, n), v) ELSE Folded(s, n)
  <2>1. e \in T!Named(n) <=> n = CaseFold[k]
    BY <1>1, TableKeeps DEF T!Named
  <2>2. e.val = v
    OBVIOUS
  <2> HIDE DEF s, e
  <2>3. Keep(u, T!Named(n)) = IF e \in T!Named(n) THEN Append(Keep(s, T!Named(n)), e) ELSE Keep(s, T!Named(n))
    BY <1>1, KeepAppend
  <2>4. Keep(s, T!Named(n)) \in Seq(Entry)
    BY <1>1, KeepType
  <2> DEFINE r == Keep(s, T!Named(n))
  <2> HIDE DEF r
  <2>5. T!ValuesOf(Append(r, e)) = Append(T!ValuesOf(r), e.val)
    BY <1>1, <2>4, ValuesFacts DEF r
  <2> QED
    BY <2>1, <2>2, <2>3, <2>5 DEF Folded, r
<1> QED
  BY <1>1, <1>2, <1>3

\* The keys of one array come first in another.
Extends(s, u) == Len(s) <= Len(u) /\ \A i \in 1..Len(s) : u[i].key = s[i].key

(* What assigning does to the values of a name.                            *)
LEMMA SetFolds ==
  ASSUME T!TableAssumption, NEW t, Indexed(t), NEW k \in TableKey, NEW v \in TableValue
  PROVE  LET u == T!AprSet(t, k, v)
         IN  /\ Indexed(u)
             /\ \A n : Folded(u.elts, n) = IF n = CaseFold[k] THEN <<v>> ELSE Folded(t.elts, n)
             /\ Cardinality(T!Hits(t, k)) < 2 => Extends(t.elts, u.elts)
<1> DEFINE s == t.elts
           D == 1..Len(s)
           f == CaseFold[k]
           hits == T!Hits(t, k)
           m == T!Min(hits)
           s2 == [s EXCEPT ![m].val = v]
           t2 == [t EXCEPT !.elts[m].val = v]
           left == Picked(s2, D \ (hits \ {m}))
           u == T!AprSet(t, k, v)
<1>1. s \in Seq(Entry) /\ t.n = Len(s) /\ Len(s) \in Nat /\ t = T!Reindexed(s) /\ hits = At(s, f)
  BY Fields, HitsAre
<1>2. hits = {i \in D : CaseFold[s[i].key] = f}
  BY HitsAre
<1>3. CASE hits = {}
  <2>1. u = T!AprAdd(t, k, v)
    BY <1>3 DEF T!AprSet
  <2>2. Folded(s, f) = <<>>
    <3> HIDE DEF s, f, hits
    <3> QED
      BY <1>1, <1>3, FoldedFacts
  <2>3. Append(<<>>, v) = <<v>>
    OBVIOUS
  <2>4. /\ Indexed(T!AprAdd(t, k, v))
        /\ \A n : Folded(T!AprAdd(t, k, v).elts, n) = IF n = CaseFold[k] THEN Append(Folded(t.elts, n), v)
                                                   ELSE Folded(t.elts, n)
    BY AddFolds
  <2>5. Indexed(u) /\ \A n : Folded(u.elts, n) = IF n = f THEN <<v>> ELSE Folded(s, n)
    <3>1. \A n : Folded(u.elts, n) = IF n = f THEN Append(Folded(s, n), v) ELSE Folded(s, n)
      BY <2>1, <2>4
    <3>2. Indexed(u)
      BY <2>1, <2>4
    <3> HIDE DEF u, f, s
    <3> QED
      BY <2>2, <2>3, <3>1, <3>2
  <2>6. Extends(s, u.elts)
    <3> DEFINE e == [key |-> k, val |-> v]
    <3>1. u.elts = Append(s, e) /\ e \in Entry
      BY <2>1, AddFolds DEF Entry
    <3> HIDE DEF s, e, u
    <3> QED
      BY <1>1, <3>1 DEF Extends
  <2> QED
    BY <2>5, <2>6
<1>4. CASE hits # {}
  <2>1. m \in hits /\ m \in D
    <3>1. hits \in SUBSET (1..Len(s))
      BY <1>2
    <3> HIDE DEF hits, s
    <3> QED
      BY <1>1, <1>4, <3>1, Extremes
  <2>2. /\ s2 \in Seq(Entry) /\ Len(s2) = Len(s) /\ s2[m].val = v
        /\ \A i \in D : s2[i].key = s[i].key /\ (i # m => s2[i] = s[i])
    <3>1. \A i \in D : s[i] \in Entry /\ DOMAIN s = D
      BY <1>1, ElementOfSeq
    <3> HIDE DEF m, hits, D
    <3>2. \A i \in D : s2[i] = IF i = m THEN [s[i] EXCEPT !.val = v] ELSE s[i]
      BY <3>1
    <3>3. \A i \in D : s2[i] \in Entry /\ s2[i].key = s[i].key
      BY <3>1, <3>2 DEF Entry
    <3>4. s2[m].val = v
      BY <2>1, <3>1, <3>2 DEF Entry
    <3>5. s2 \in [D -> Entry]
      BY <2>1, <3>1, <3>3
    <3>6. s2 \in Seq(Entry) /\ Len(s2) = Len(s)
      <4>1. s2 \in [1..Len(s) -> Entry]
        BY <3>5 DEF D
      <4> HIDE DEF s2, s
      <4> QED
        BY <1>1, <4>1
    <3> HIDE DEF s2
    <3> QED
      BY <3>2, <3>3, <3>4, <3>6
  <2>3. t2 = T!Reindexed(s2) /\ t2.elts = s2 /\ Indexed(t2)
    <3>1. t = [elts |-> s, n |-> t.n, ix |-> t.ix] /\ t.ix = T!Reindexed(s).ix
      BY <1>1, Fields
    <3>2. t2 = [elts |-> s2, n |-> t.n, ix |-> t.ix]
      BY <3>1
    <3>3. T!Reindexed(s2) = [elts |-> s2, n |-> Len(s), ix |-> T!Reindexed(s).ix]
      <4> HIDE DEF s2, s
      <4> QED
        BY <1>1, <2>2, SameKeys
    <3>4. t2 = T!Reindexed(s2)
      <4> HIDE DEF s2, t2
      <4> QED
        BY <1>1, <3>1, <3>2, <3>3
    <3>5. T!Reindexed(s2).elts = s2 /\ Indexed(T!Reindexed(s2))
      <4> HIDE DEF s2
      <4> QED
        BY <2>2, ReindexedFacts
    <3> HIDE DEF t2, s2
    <3> QED
      BY <3>4, <3>5
  <2>4. u = T!Reindexed(left) /\ left \in Seq(Entry)
    <3>1. u = T!Dropped(t2, hits \ {m})
      BY <1>4 DEF T!AprSet
    <3>2. hits \ {m} \in SUBSET (1..Len(t2.elts)) /\ 1..Len(t2.elts) = D
      <4> HIDE DEF t2, s2
      <4> QED
        BY <1>2, <2>2, <2>3
    <3> HIDE DEF t2, s2, u
    <3>3. /\ T!Dropped(t2, hits \ {m}) = T!Reindexed(Picked(t2.elts, 1..Len(t2.elts) \ (hits \ {m})))
          /\ Picked(t2.elts, 1..Len(t2.elts) \ (hits \ {m})) \in Seq(Entry)
      <4> DEFINE slots == hits \ {m}
      <4>1. slots \in SUBSET (1..Len(t2.elts))
        BY <3>2
      <4> HIDE DEF slots
      <4>2. T!Dropped(t2, slots) = T!Reindexed(Picked(t2.elts, 1..Len(t2.elts) \ slots))
            /\ Picked(t2.elts, 1..Len(t2.elts) \ slots) \in Seq(Entry)
        BY <2>3, <4>1, DroppedIs
      <4> QED
        BY <4>2 DEF slots
    <3> QED
      BY <2>3, <3>1, <3>2, <3>3
  <2>5. u.elts = left /\ Indexed(u)
    <3> HIDE DEF left, u
    <3> QED
      BY <2>4, ReindexedFacts
  <2>6. ASSUME NEW n PROVE Keep(left, T!Named(n)) = Picked(s2, (D \ (hits \ {m})) \cap At(s, n))
    <3>1. At(s2, n) = At(s, n)
      <4> HIDE DEF s2, s
      <4>1. At(s2, n) = {i \in 1..Len(s2) : CaseFold[s2[i].key] = n}
        BY <2>2, NamedAt
      <4>2. At(s, n) = {i \in 1..Len(s) : CaseFold[s[i].key] = n}
        BY <1>1, NamedAt
      <4> QED
        BY <2>2, <4>1, <4>2
    <3>2. At(s2, n) = Places(s2, T!Named(n))
      BY DEF At
    <3> DEFINE A == D \ (hits \ {m})
    <3> HIDE DEF s2, A
    <3>3. Keep(Picked(s2, A), T!Named(n)) = Picked(s2, A \cap Places(s2, T!Named(n)))
      BY <2>2, PickedKept
    <3> QED
      BY <3>1, <3>2, <3>3 DEF A
  <2>7. Folded(left, f) = <<v>>
    <3>1. (D \ (hits \ {m})) \cap At(s, f) = {m}
      <4> HIDE DEF D, hits, m, s, f
      <4> QED
        BY <1>1, <1>2, <2>1
    <3>2. Picked(s2, {m}) = <<s2[m]>>
      <4>1. m \in 1..Len(s2)
        <5> HIDE DEF m, s2
        <5> QED
          BY <2>1, <2>2
      <4> HIDE DEF m, s2
      <4> QED
        BY <2>2, <4>1, PickedOne
    <3>3. Keep(left, T!Named(f)) = <<s2[m]>>
      <4> HIDE DEF left, m, hits, s2, s, D, f
      <4> QED
        BY <2>6, <3>1, <3>2
    <3> HIDE DEF left, m, s2, f
    <3> QED
      BY <2>2, <3>3 DEF Folded, T!ValuesOf
  <2>8. ASSUME NEW n, n # f PROVE Folded(left, n) = Folded(s, n)
    <3> DEFINE A == (D \ (hits \ {m})) \cap At(s, n)
    <3>1. At(s, n) = {i \in D : CaseFold[s[i].key] = n}
      <4> HIDE DEF s
      <4> QED
        BY <1>1, NamedAt
    <3>2. A = At(s, n) /\ m \notin A
      <4> HIDE DEF D, m, s, f
      <4> QED
        BY <1>2, <2>1, <2>8, <3>1
    <3>3. Picked(s2, A) = Picked(s, A)
      <4>1. \A i \in 1..Len(s2) \cap A : s2[i] = s[i]
        <5> HIDE DEF A, m, s2
        <5> QED
          BY <2>2, <3>2
      <4> HIDE DEF A, s2, s
      <4> QED
        BY <1>1, <2>2, <4>1, PickedSame
    <3>4. Keep(s, T!Named(n)) = Picked(s, At(s, n))
      <4> HIDE DEF s
      <4> QED
        BY <1>1, NamedAt
    <3>5. Keep(left, T!Named(n)) = Picked(s2, A)
      BY <2>6
    <3> HIDE DEF A, s2, left, s
    <3> QED
      BY <3>2, <3>3, <3>4, <3>5 DEF Folded
  <2>9. ASSUME Cardinality(hits) < 2 PROVE Extends(s, u.elts)
    <3>1. hits = {m}
      <4>1. IsFiniteSet(hits) /\ Cardinality(hits) \in Nat
        <5>1. IsFiniteSet(D) /\ hits \subseteq D
          <6>1. hits \subseteq D
            BY <1>2
          <6> HIDE DEF s, hits
          <6> QED
            BY <1>1, <6>1, Interval
        <5> HIDE DEF hits, D
        <5> QED
          BY <5>1, FS_Subset, FS_CardinalityType
      <4> HIDE DEF hits, m
      <4>2. Cardinality(hits) = 1
        BY <1>4, <2>9, <4>1, FS_EmptySet
      <4>3. \E x : hits = {x}
        BY <4>1, <4>2, FS_Singleton
      <4> QED
        BY <2>1, <4>3
    <3>2. D \ (hits \ {m}) = 1..Len(s2)
      <4> HIDE DEF m, hits, s2
      <4> QED
        BY <2>2, <3>1
    <3>3. left = s2
      <4>1. Picked(s2, 1..Len(s2)) = s2
        <5> HIDE DEF s2
        <5> QED
          BY <2>2, PickedAll
      <4> QED
        BY <3>2, <4>1
    <3> HIDE DEF left, u, s2, m, s
    <3> QED
      BY <1>1, <2>2, <2>5, <3>3 DEF Extends
  <2> HIDE DEF left, u, f
  <2>10. \A n : Folded(u.elts, n) = IF n = f THEN <<v>> ELSE Folded(s, n)
    BY <2>5, <2>7, <2>8
  <2> HIDE DEF s, hits
  <2> QED
    BY <2>5, <2>9, <2>10 DEF u, f, s, hits
<1> QED
  BY <1>3, <1>4

LEMMA UnsetFolds ==
  ASSUME T!TableAssumption, NEW t, Indexed(t), NEW k \in TableKey
  PROVE  LET u == T!AprUnset(t, k)
         IN  /\ Indexed(u)
             /\ \A n : Folded(u.elts, n) = IF n = CaseFold[k] THEN <<>> ELSE Folded(t.elts, n)
<1> DEFINE s == t.elts
           D == 1..Len(s)
           f == CaseFold[k]
           hits == T!Hits(t, k)
           left == Picked(s, D \ hits)
           u == T!AprUnset(t, k)
<1>1. s \in Seq(Entry) /\ Len(s) \in Nat /\ hits = At(s, f) /\ hits = {i \in D : CaseFold[s[i].key] = f}
  BY Fields, HitsAre
<1>2. u = T!Reindexed(left) /\ left \in Seq(Entry)
  <2>1. hits \in SUBSET (1..Len(t.elts))
    BY <1>1
  <2> HIDE DEF hits
  <2> QED
    BY <2>1, DroppedIs DEF T!AprUnset, hits
<1>3. u.elts = left /\ Indexed(u)
  <2> HIDE DEF left, u
  <2> QED
    BY <1>2, ReindexedFacts
<1>4. ASSUME NEW n PROVE Keep(left, T!Named(n)) = Picked(s, (D \ hits) \cap At(s, n))
  <2> DEFINE A == D \ hits
  <2> HIDE DEF s, A
  <2>1. Keep(Picked(s, A), T!Named(n)) = Picked(s, A \cap Places(s, T!Named(n)))
    BY <1>1, PickedKept
  <2> QED
    BY <2>1 DEF A, At
<1>5. Folded(left, f) = <<>>
  <2>1. (D \ hits) \cap At(s, f) = {}
    BY <1>1
  <2>2. Picked(s, {}) = <<>>
    <3> HIDE DEF s
    <3> QED
      BY <1>1, PickedNone
  <2>3. Keep(left, T!Named(f)) = <<>>
    <3> HIDE DEF left, hits, s, D, f
    <3> QED
      BY <1>4, <2>1, <2>2
  <2> HIDE DEF left, f
  <2> QED
    BY <2>3 DEF Folded, T!ValuesOf
<1>6. ASSUME NEW n, n # f PROVE Folded(left, n) = Folded(s, n)
  <2>1. At(s, n) = {i \in D : CaseFold[s[i].key] = n} /\ Keep(s, T!Named(n)) = Picked(s, At(s, n))
    <3> HIDE DEF s
    <3> QED
      BY <1>1, NamedAt
  <2>2. (D \ hits) \cap At(s, n) = At(s, n)
    <3> HIDE DEF D, s, f
    <3> QED
      BY <1>1, <1>6, <2>1
  <2> HIDE DEF left, s, D, hits
  <2> QED
    BY <1>4, <2>1, <2>2 DEF Folded
<1> HIDE DEF left, u, f
<1> QED
  BY <1>3, <1>5, <1>6 DEF u, f

-----------------------------------------------------------------------------
(* One pair after the other.                                               *)

Tables == {t \in [elts : Seq(Entry), n : Nat, ix : [T!Letters -> Seq(Nat)]] : Indexed(t)}
SetsBy(f, t, pairs) ==
  /\ f[0] = t
  /\ \A i \in 0..Len(pairs) - 1 : f[i + 1] = T!AprSet(f[i], pairs[i + 1][1], pairs[i + 1][2])
  /\ \A i \in 0..Len(pairs) : Indexed(f[i])

LEMMA IndexedTable == ASSUME NEW t PROVE t \in Tables <=> Indexed(t)
<1>1. SUFFICES ASSUME Indexed(t) PROVE t \in [elts : Seq(Entry), n : Nat, ix : [T!Letters -> Seq(Nat)]]
  BY DEF Tables
<1> DEFINE s == t.elts
           at(l) == {i \in 1..Len(s) : Letter[s[i].key] = l}
<1>2. /\ s \in Seq(Entry) /\ t.n \in Nat /\ t = [elts |-> s, n |-> t.n, ix |-> t.ix]
      /\ t = T!Reindexed(s) /\ Len(s) \in Nat /\ DOMAIN t.ix = T!Letters
  <2>1. /\ s \in Seq(Entry) /\ t.n \in Nat /\ t = [elts |-> s, n |-> t.n, ix |-> t.ix]
        /\ t = T!Reindexed(s) /\ t.n = Len(s) /\ DOMAIN t.ix = T!Letters
    BY <1>1, Fields
  <2> HIDE DEF s
  <2> QED
    BY <2>1
<1>3. ASSUME NEW l \in T!Letters PROVE t.ix[l] \in Seq(Nat)
  <2>1. t.ix[l] = IF at(l) = {} THEN <<>> ELSE <<T!Min(at(l)), T!Max(at(l))>>
    <3> HIDE DEF s
    <3> QED
      BY <1>2, ReindexedFacts
  <2>2. CASE at(l) = {}
    BY <2>1, <2>2
  <2>3. CASE at(l) # {}
    <3>1. at(l) \in SUBSET (1..Len(s))
      OBVIOUS
    <3>2. T!Min(at(l)) \in 1..Len(s) /\ T!Max(at(l)) \in 1..Len(s)
      <4> HIDE DEF at, s
      <4> QED
        BY <1>2, <2>3, <3>1, Extremes
    <3> HIDE DEF at
    <3> QED
      BY <2>1, <2>3, <3>2
  <2> QED
    BY <2>2, <2>3
<1>4. t.ix = [l \in T!Letters |-> t.ix[l]]
  BY <1>2 DEF T!Reindexed
<1>5. t.ix \in [T!Letters -> Seq(Nat)]
  <2> DEFINE x == t.ix
  <2> HIDE DEF x
  <2> QED
    BY <1>3, <1>4 DEF x
<1> HIDE DEF s
<1> QED
  BY <1>2, <1>5

LEMMA SetAllIs ==
  ASSUME T!TableAssumption, NEW t, Indexed(t), NEW pairs \in Seq(TableKey \X TableValue)
  PROVE  \E f : SetsBy(f, t, pairs) /\ T!SetAll(t, pairs) = f[Len(pairs)]
<1> DEFINE D == Tables
           N == Len(pairs)
           Step(n, d) == T!AprSet(d, pairs[n + 1][1], pairs[n + 1][2])
           G == [n \in 0..N - 1 |-> [d \in D |-> Step(n, d)]]
           Rec(f, n) == IF n = 0 THEN t ELSE T!AprSet(f[n - 1], pairs[n][1], pairs[n][2])
           Is(f) == f = [n \in 0..N |-> Rec(f, n)]
<1>1. t \in D /\ N \in Nat
  BY IndexedTable
<1>2. G \in [0..N - 1 -> [D -> D]]
  <2>1. ASSUME NEW n \in 0..N - 1, NEW d \in D PROVE Step(n, d) \in D
    <3> DEFINE k == pairs[n + 1][1]
               v == pairs[n + 1][2]
    <3>1. k \in TableKey /\ v \in TableValue
      <4>1. pairs[n + 1] \in TableKey \X TableValue
        OBVIOUS
      <4> QED
        BY <4>1
    <3>2. Indexed(d)
      BY IndexedTable
    <3>3. Indexed(T!AprSet(d, k, v))
      <4> HIDE DEF k, v
      <4> QED
        BY <3>1, <3>2, SetFolds
    <3> HIDE DEF D
    <3> QED
      BY <3>3, IndexedTable DEF D
  <2> HIDE DEF Step, D
  <2> QED
    BY <2>1
<1>3. PICK g \in [0..N -> D] : Computes(g, N, t, G)
  <2> HIDE DEF G, D, N
  <2> QED
    BY <1>1, <1>2, Recursion
<1>4. g[0] = t /\ \A n \in 0..N - 1 : g[n + 1] = Step(n, g[n])
  <2>1. ASSUME NEW n \in 0..N - 1 PROVE G[n][g[n]] = Step(n, g[n])
    <3>1. n \in 0..N
      BY <1>1
    <3>2. g[n] \in D
      BY <3>1
    <3> HIDE DEF Step, D
    <3> QED
      BY <3>2
  <2>2. g[0] = t /\ \A n \in 0..N - 1 : g[n + 1] = G[n][g[n]]
    <3> HIDE DEF G
    <3> QED
      BY <1>3 DEF Computes
  <2> HIDE DEF G, Step
  <2> QED
    BY <2>1, <2>2
<1>5. Is(g)
  <2>1. ASSUME NEW n \in 0..N PROVE g[n] = Rec(g, n)
    <3>1. CASE n = 0
      BY <1>4, <3>1
    <3>2. CASE n # 0
      <4> DEFINE k == n - 1
      <4>1. k \in 0..N - 1 /\ k + 1 = n
        BY <1>1, <3>2
      <4> HIDE DEF k
      <4>2. g[k + 1] = Step(k, g[k])
        BY <1>4, <4>1
      <4>3. k = n - 1
        BY DEF k
      <4> QED
        BY <3>2, <4>1, <4>2, <4>3
    <3> QED
      BY <3>1, <3>2
  <2>2. g = [n \in 0..N |-> g[n]]
    OBVIOUS
  <2> HIDE DEF Rec
  <2> QED
    BY <2>1, <2>2
<1> DEFINE f == CHOOSE c : Is(c)
<1>6. Is(f) /\ T!SetAll(t, pairs) = f[N]
  <2>1. Is(f)
    <3> HIDE DEF Is
    <3> QED
      BY <1>5
  <2>2. T!SetAll(t, pairs) = f[N]
    BY DEF T!SetAll
  <2> QED
    BY <2>1, <2>2
<1> HIDE DEF f
<1>7. ASSUME NEW n \in 0..N PROVE f[n] = Rec(f, n)
  BY <1>6
<1>8. f[0] = t /\ \A n \in 0..N - 1 : f[n + 1] = Step(n, f[n])
  <2>1. f[0] = Rec(f, 0)
    BY <1>1, <1>7
  <2>2. ASSUME NEW n \in 0..N - 1 PROVE f[n + 1] = Step(n, f[n])
    <3>1. n + 1 \in 0..N /\ n + 1 # 0 /\ (n + 1) - 1 = n
      BY <1>1
    <3>2. f[n + 1] = Rec(f, n + 1)
      BY <1>7, <3>1
    <3> QED
      BY <3>1, <3>2
  <2> QED
    BY <2>1, <2>2
<1>9. ASSUME NEW n \in 0..N PROVE f[n] = g[n]
  <2> DEFINE T0 == {i \in 0..N : f[i] = g[i]}
  <2>1. 0 \in T0
    BY <1>1, <1>4, <1>8
  <2>2. ASSUME NEW i \in 0..N - 1, i \in T0 PROVE i + 1 \in T0
    <3>1. i + 1 \in 0..N /\ f[i] = g[i]
      BY <1>1, <2>2
    <3> HIDE DEF Step
    <3> QED
      BY <1>4, <1>8, <3>1
  <2>3. n \in T0
    <3> HIDE DEF T0, N
    <3> QED
      BY <1>1, <2>1, <2>2, InductionUpTo
  <2> QED
    BY <2>3
<1>10. \A n \in 0..N : Indexed(f[n])
  <2>1. \A n \in 0..N : f[n] \in D
    <3> HIDE DEF D
    <3> QED
      BY <1>9
  <2> QED
    BY <2>1, IndexedTable
<1> HIDE DEF N
<1>11. SetsBy(f, t, pairs)
  BY <1>8, <1>10 DEF SetsBy, N
<1> QED
  BY <1>6, <1>11 DEF N

(* What assigning pairs does to the values of a name, and to the keys.     *)
LEMMA SetAllFolds ==
  ASSUME T!TableAssumption, NEW t, Indexed(t), NEW pairs \in Seq(TableKey \X TableValue)
  PROVE  LET u == T!SetAll(t, pairs)
         IN  /\ Indexed(u)
             /\ \A n : \/ Folded(u.elts, n) = Folded(t.elts, n)
                     \/ \E v \in TableValue : Folded(u.elts, n) = <<v>>
             /\ \/ Extends(t.elts, u.elts)
                \/ \E k \in TableKey : /\ Len(Folded(t.elts, CaseFold[k])) > 1
                                       /\ Len(Folded(u.elts, CaseFold[k])) = 1
<1> DEFINE s == t.elts
           N == Len(pairs)
           Follows(u) == /\ \A n : \/ Folded(u, n) = Folded(s, n)
                                  \/ \E v \in TableValue : Folded(u, n) = <<v>>
                         /\ \/ Extends(s, u)
                            \/ \E k \in TableKey : /\ Len(Folded(s, CaseFold[k])) > 1
                                                   /\ Len(Folded(u, CaseFold[k])) = 1
<1>1. PICK f : SetsBy(f, t, pairs) /\ T!SetAll(t, pairs) = f[Len(pairs)]
  BY SetAllIs
<1> DEFINE T0 == {i \in 0..N : Follows(f[i].elts)}
<1>2. N \in Nat /\ s \in Seq(Entry) /\ Len(s) \in Nat
  BY Fields
<1>3. 0 \in T0
  <2>1. f[0] = t
    BY <1>1 DEF SetsBy
  <2>2. Extends(s, s)
    BY <1>2 DEF Extends
  <2> QED
    BY <1>2, <2>1, <2>2
<1>4. ASSUME NEW i \in 0..N - 1, i \in T0 PROVE i + 1 \in T0
  <2> DEFINE d == f[i]
             u == f[i + 1]
             k == pairs[i + 1][1]
             v == pairs[i + 1][2]
  <2>1. u = T!AprSet(d, k, v) /\ Indexed(d) /\ Follows(d.elts) /\ i + 1 \in 0..N
    <3>1. i \in 0..N /\ i + 1 \in 0..N
      BY <1>2
    <3>2. Follows(d.elts)
      <4> HIDE DEF Follows, s
      <4> QED
        BY <1>4
    <3> HIDE DEF Follows
    <3> QED
      BY <1>1, <3>1, <3>2 DEF SetsBy
  <2>2. k \in TableKey /\ v \in TableValue
    <3>1. pairs[i + 1] \in TableKey \X TableValue
      OBVIOUS
    <3> QED
      BY <3>1
  <2> DEFINE c == CaseFold[k]
  <2> HIDE DEF d, u, k, v, s
  <2>3. /\ Indexed(u)
        /\ \A n : Folded(u.elts, n) = IF n = CaseFold[k] THEN <<v>> ELSE Folded(d.elts, n)
        /\ Cardinality(T!Hits(d, k)) < 2 => Extends(d.elts, u.elts)
    <3> DEFINE x == T!AprSet(d, k, v)
    <3>1. /\ Indexed(x)
          /\ \A n : Folded(x.elts, n) = IF n = CaseFold[k] THEN <<v>> ELSE Folded(d.elts, n)
          /\ Cardinality(T!Hits(d, k)) < 2 => Extends(d.elts, x.elts)
      BY <2>1, <2>2, SetFolds
    <3>2. u = x
      BY <2>1
    <3> HIDE DEF x
    <3> QED
      BY <3>1, <3>2
  <2>4. Cardinality(T!Hits(d, k)) = Len(Folded(d.elts, c)) /\ Len(Folded(d.elts, c)) \in Nat
    <3>1. T!Hits(d, k) = At(d.elts, c)
      BY <2>1, <2>2, HitsAre
    <3>2. d.elts \in Seq(Entry)
      BY <2>1, Fields
    <3> DEFINE e == d.elts
    <3> HIDE DEF e, c
    <3>3. Len(Folded(e, c)) = Cardinality(At(e, c)) /\ Folded(e, c) \in Seq(TableValue)
      BY <3>2, FoldedFacts DEF e
    <3>4. Len(Folded(e, c)) \in Nat
      BY <3>3
    <3> QED
      BY <3>1, <3>3, <3>4 DEF e
  <2>5. \A n : Folded(u.elts, n) = Folded(s, n) \/ \E w \in TableValue : Folded(u.elts, n) = <<w>>
    BY <2>1, <2>2, <2>3
  <2>6. Len(Folded(u.elts, c)) = 1
    BY <2>3
  <2>7. \/ Extends(s, u.elts)
        \/ \E l \in TableKey : Len(Folded(s, CaseFold[l])) > 1 /\ Len(Folded(u.elts, CaseFold[l])) = 1
    <3>1. CASE \E l \in TableKey : Len(Folded(s, CaseFold[l])) > 1 /\ Len(Folded(d.elts, CaseFold[l])) = 1
      <4>1. PICK l \in TableKey : Len(Folded(s, CaseFold[l])) > 1 /\ Len(Folded(d.elts, CaseFold[l])) = 1
        BY <3>1
      <4>2. Len(Folded(u.elts, CaseFold[l])) = 1
        BY <2>3, <2>6, <4>1
      <4> QED
        BY <4>1, <4>2
    <3>2. CASE Extends(s, d.elts) /\ Len(Folded(d.elts, c)) > 1
      <4>1. ASSUME NEW w \in TableValue, Folded(d.elts, c) = <<w>> PROVE FALSE
        <5>1. Len(<<w>>) = 1
          OBVIOUS
        <5> QED
          BY <3>2, <4>1, <5>1
      <4>2. Folded(d.elts, c) = Folded(s, c)
        BY <2>1, <4>1
      <4> QED
        BY <2>2, <2>6, <3>2, <4>2
    <3>3. CASE Extends(s, d.elts) /\ ~(Len(Folded(d.elts, c)) > 1)
      <4>1. Extends(d.elts, u.elts)
        BY <2>3, <2>4, <3>3
      <4>2. d.elts \in Seq(Entry) /\ u.elts \in Seq(Entry)
        BY <2>1, <2>3, Fields
      <4>3. Len(d.elts) \in Nat /\ Len(u.elts) \in Nat
        BY <4>2
      <4>4. Extends(s, u.elts)
        BY <1>2, <3>3, <4>1, <4>3 DEF Extends
      <4> QED
        BY <4>4
    <3> QED
      BY <2>1, <3>1, <3>2, <3>3
  <2> QED
    BY <2>1, <2>5, <2>7 DEF s, u
<1>5. N \in T0
  <2>1. N \in 0..N
    BY <1>2
  <2> HIDE DEF T0, N
  <2> QED
    BY <1>2, <1>3, <1>4, <2>1, InductionUpTo
<1>6. Follows(f[N].elts) /\ Indexed(f[N])
  <2>1. N \in 0..N
    BY <1>2
  <2>2. Indexed(f[N])
    BY <1>1, <2>1 DEF SetsBy
  <2> HIDE DEF Follows
  <2> QED
    BY <1>5, <2>2
<1> QED
  BY <1>1, <1>6

-----------------------------------------------------------------------------
(* What an array means.                                                    *)

NamesIn(s) == {CaseFold[s[i].key] : i \in 1..Len(s)}
Meaning(s) == [n \in NamesIn(s) |-> Folded(s, n)]

LEMMA MeaningFacts ==
  ASSUME NEW s \in Seq(Entry)
  PROVE  \A n : /\ n \in NamesIn(s) <=> Folded(s, n) # <<>>
                /\ n \in NamesIn(s) <=> At(s, n) # {}
<1>1. ASSUME NEW n PROVE n \in NamesIn(s) <=> At(s, n) # {}
  <2>1. At(s, n) = {i \in 1..Len(s) : CaseFold[s[i].key] = n}
    BY NamedAt
  <2>2. n \in NamesIn(s) <=> \E i \in 1..Len(s) : CaseFold[s[i].key] = n
    BY DEF NamesIn
  <2> QED
    BY <2>1, <2>2
<1>2. ASSUME NEW n PROVE At(s, n) = {} <=> Folded(s, n) = <<>>
  BY FoldedFacts
<1> QED
  BY <1>1, <1>2

LEMMA KeysFacts ==
  ASSUME NEW t, Indexed(t)
  PROVE  /\ T!Keys(t) \in Seq(TableKey) /\ Len(T!Keys(t)) = Len(t.elts)
         /\ \A i \in 1..Len(t.elts) : T!Keys(t)[i] = t.elts[i].key /\ t.elts[i].key \in TableKey
         /\ T!Range(T!Keys(t)) = {t.elts[i].key : i \in 1..Len(t.elts)}
<1> DEFINE s == t.elts
           K == T!Keys(t)
<1>1. s \in Seq(Entry) /\ t.n = Len(s) /\ Len(s) \in Nat
  BY Fields
<1>2. ASSUME NEW i \in 1..Len(s) PROVE s[i].key \in TableKey
  <2>1. s[i] \in Entry
    BY <1>1, ElementOfSeq
  <2> QED
    BY <2>1 DEF Entry
<1>3. K = [i \in 1..Len(s) |-> s[i].key]
  BY <1>1 DEF T!Keys
<1> HIDE DEF s, K
<1>4. K \in Seq(TableKey) /\ Len(K) = Len(s)
  BY <1>1, <1>2, <1>3, IsASeq
<1>5. \A i \in 1..Len(s) : K[i] = s[i].key
  BY <1>3
<1>6. T!Range(K) = {s[i].key : i \in 1..Len(s)}
  BY <1>3 DEF T!Range
<1> QED
  BY <1>2, <1>4, <1>5, <1>6 DEF s, K

LEMMA MeaningIs ==
  ASSUME NEW t, Indexed(t)
  PROVE  [n \in {CaseFold[k] : k \in T!Range(T!Keys(t))} |->
             T!ValuesOf(T!Keep(T!Live(t), T!Named(n)))] = Meaning(t.elts)
<1>1. T!Live(t) = t.elts
  BY Fields
<1>2. {CaseFold[k] : k \in T!Range(T!Keys(t))} = NamesIn(t.elts)
  BY KeysFacts DEF NamesIn
<1>3. \A n : T!ValuesOf(T!Keep(T!Live(t), T!Named(n))) = Folded(t.elts, n)
  BY <1>1, TableKeeps DEF Folded
<1> QED
  BY <1>2, <1>3 DEF Meaning

LEMMA ContentsAre ==
  /\ Indexed(tab) => T!Contents = Meaning(tab.elts)
  /\ Indexed(tab') => T!Contents' = Meaning(tab'.elts)
BY MeaningIs DEF T!Contents

(* A subscript compares names in another way; it finds the same where the  *)
(* two ways agree.                                                         *)

LEMMA SubscriptType ==
  ASSUME NEW t, Indexed(t), NEW k PROVE T!Subscript(t, k) \in Seq(TableValue)
<1> DEFINE S == {e \in Entry : NatFold[e.key] = NatFold[k]}
<1>1. t.elts \in Seq(Entry) /\ T!Live(t) = t.elts
  BY Fields
<1>2. Keep(t.elts, S) \in Seq(Entry)
  BY <1>1, KeepType
<1>3. T!ValuesOf(Keep(t.elts, S)) \in Seq(TableValue)
  BY <1>2, ValuesFacts
<1> QED
  BY <1>1, <1>3, TableKeeps DEF T!Subscript

LEMMA SubscriptIs ==
  ASSUME T!TableAssumption, T!FoldsAgree, NEW t, Indexed(t), NEW k \in TableKey
  PROVE  T!Subscript(t, k) = Folded(t.elts, CaseFold[k])
<1> DEFINE S == {e \in Entry : NatFold[e.key] = NatFold[k]}
<1>1. t.elts \in Seq(Entry) /\ T!Live(t) = t.elts
  BY Fields
<1>2. S = T!Named(CaseFold[k])
  BY TableKeeps DEF T!TableAssumption, T!FoldsAgree, T!Named, Entry
<1> QED
  BY <1>1, <1>2, TableKeeps DEF T!Subscript, Folded

(* What get() finds is the first value of the name.                        *)
LEMMA GetIs ==
  ASSUME T!TableAssumption, NEW t, Indexed(t), NEW k \in TableKey
  PROVE  LET n == CaseFold[k]
         IN  /\ T!HasKey(t, k) <=> n \in NamesIn(t.elts)
             /\ T!Get(t, k) = IF n \in NamesIn(t.elts) THEN <<Folded(t.elts, n)[1]>> ELSE <<>>
<1> DEFINE s == t.elts
           n == CaseFold[k]
           hits == T!Hits(t, k)
           m == T!Min(hits)
           a == Keep(UpTo(Len(s)), At(s, n))
<1>1. s \in Seq(Entry) /\ Len(s) \in Nat /\ hits = At(s, n) /\ hits \in SUBSET (1..Len(s))
  BY HitsAre, Fields
<1>2. n \in NamesIn(s) <=> hits # {}
  <2> HIDE DEF s, hits, n
  <2> QED
    BY <1>1, MeaningFacts
<1>3. CASE hits = {}
  BY <1>2, <1>3 DEF T!HasKey, T!Get, T!AprGet
<1>4. CASE hits # {}
  <2>1. m \in hits /\ m \in 1..Len(s) /\ \A i \in hits : m <= i
    <3> HIDE DEF s, hits
    <3> QED
      BY <1>1, <1>4, Extremes
  <2>2. a # <<>> /\ a[1] = m /\ a \in Seq(1..Len(s))
    <3>1. 1..Len(s) \cap At(s, n) = hits
      <4> HIDE DEF s, hits, n
      <4> QED
        BY <1>1
    <3> DEFINE A == At(s, n)
               N == Len(s)
    <3> HIDE DEF A, s
    <3>2. /\ a \in Seq(1..N \cap A) /\ a # <<>> /\ \A j \in 1..N \cap A : a[1] <= j
      BY <1>1, <1>4, <3>1, KeepUpTo DEF A
    <3> HIDE DEF a
    <3>3. a \in Seq(hits) /\ a # <<>> /\ \A j \in hits : a[1] <= j
      BY <3>1, <3>2 DEF A
    <3> HIDE DEF hits, m
    <3>4. a[1] \in hits
      BY <3>3
    <3>5. a[1] <= m /\ m <= a[1] /\ a[1] \in Nat /\ m \in Nat
      BY <1>1, <2>1, <3>3, <3>4
    <3>6. a[1] = m
      BY <3>5
    <3> QED
      BY <1>1, <3>3, <3>6, SeqMonotonic
  <2>3. Keep(s, T!Named(n)) = Image(s, a)
    <3> HIDE DEF s, n
    <3> QED
      BY <1>1, NamedAt DEF Picked
  <2>4. Folded(s, n)[1] = s[m].val
    <3> HIDE DEF a, s, m, n
    <3>1. 1 \in DOMAIN a
      BY <2>2
    <3> QED
      BY <2>2, <2>3, <3>1 DEF Folded, T!ValuesOf, Image
  <2>5. T!Get(t, k) = <<s[m].val>>
    BY <1>4 DEF T!Get, T!AprGet
  <2> HIDE DEF s, m, n
  <2> QED
    BY <1>2, <1>4, <2>4, <2>5 DEF T!HasKey, s, n
<1> QED
  BY <1>3, <1>4

(* Copied pair by pair, a table that repeats no name is the same table.    *)
LEMMA CopyIs ==
  ASSUME T!TableAssumption, NEW t, Indexed(t),
         \A n \in NamesIn(t.elts) : Len(Folded(t.elts, n)) = 1
  PROVE  T!AprOverlap(T!New, t) = t
<1> DEFINE s == t.elts
           N == Len(s)
           pairs == [i \in 1..t.n |-> <<s[i].key, s[i].val>>]
           Done(i) == T!Reindexed(SubSeq(s, 1, i))
<1>1. s \in Seq(Entry) /\ t.n = N /\ N \in Nat /\ t = T!Reindexed(s)
  BY Fields
<1>2. ASSUME NEW i \in 1..N PROVE s[i] \in Entry /\ s[i] = [key |-> s[i].key, val |-> s[i].val]
  <2>1. s[i] \in Entry
    BY <1>1, ElementOfSeq
  <2> QED
    BY <2>1 DEF Entry
<1>3. pairs \in Seq(TableKey \X TableValue) /\ Len(pairs) = N
  <2>1. \A i \in 1..N : <<s[i].key, s[i].val>> \in TableKey \X TableValue
    BY <1>2 DEF Entry
  <2>2. pairs = [i \in 1..N |-> <<s[i].key, s[i].val>>]
    BY <1>1
  <2> HIDE DEF s, pairs
  <2> QED
    BY <1>1, <2>1, <2>2, IsASeq
<1>4. T!New = T!Reindexed(<<>>) /\ Indexed(T!New)
  <2>1. T!Reindexed(<<>>) = [elts |-> <<>>, n |-> 0, ix |-> [l \in T!Letters |-> <<>>]]
    BY DEF T!Reindexed
  <2> QED
    BY <2>1 DEF T!New, T!NoIndex, Indexed
<1>5. PICK f : SetsBy(f, T!New, pairs) /\ T!SetAll(T!New, pairs) = f[N]
  <2> HIDE DEF pairs, N
  <2> QED
    BY <1>3, <1>4, SetAllIs
<1> DEFINE T0 == {i \in 0..N : f[i] = Done(i)}
<1>6. 0 \in T0
  <2>1. SubSeq(s, 1, 0) = <<>>
    <3> HIDE DEF s
    <3> QED
      BY <1>1
  <2>2. f[0] = T!New
    BY <1>5 DEF SetsBy
  <2>3. 0 \in 0..N
    BY <1>1
  <2>4. Done(0) = T!New
    BY <1>4, <2>1
  <2> HIDE DEF Done, N
  <2> QED
    BY <2>2, <2>3, <2>4
<1>7. ASSUME NEW i \in 0..N - 1, i \in T0 PROVE i + 1 \in T0
  <2> DEFINE j == i + 1
             d == f[i]
             k == s[j].key
             v == s[j].val
             r == SubSeq(s, 1, i)
             c == CaseFold[k]
  <2>1. j \in 1..N /\ j \in 0..N /\ i \in 0..N /\ i \in Nat /\ d = Done(i)
    BY <1>1, <1>7
  <2>2. f[j] = T!AprSet(d, k, v) /\ Indexed(d)
    <3>1. pairs[j] = <<s[j].key, s[j].val>>
      BY <1>1, <2>1
    <3> HIDE DEF pairs, s, N
    <3> QED
      BY <1>3, <1>5, <2>1, <3>1 DEF SetsBy
  <2>3. s[j] = [key |-> k, val |-> v] /\ k \in TableKey /\ v \in TableValue
    <3> HIDE DEF s, j
    <3> QED
      BY <1>2, <2>1 DEF Entry
  <2>4. r \in Seq(Entry) /\ Len(r) = i /\ \A x \in 1..i : r[x] = s[x]
    <3> HIDE DEF s
    <3> QED
      BY <1>1, <2>1
  <2>5. d.elts = r
    <3> HIDE DEF r
    <3> QED
      BY <2>1, <2>4, ReindexedFacts DEF r
  <2>6. T!Hits(d, k) = {}
    <3>1. T!Hits(d, k) = {x \in 1..Len(d.elts) : CaseFold[d.elts[x].key] = CaseFold[k]}
      <4> HIDE DEF d, k
      <4> QED
        BY <2>2, <2>3, HitsAre
    <3>2. SUFFICES ASSUME NEW x \in 1..i, CaseFold[s[x].key] = c PROVE FALSE
      BY <2>4, <2>5, <3>1
    <3>3. At(s, c) = {y \in 1..N : CaseFold[s[y].key] = c}
      <4> HIDE DEF s, c
      <4> QED
        BY <1>1, NamedAt DEF s
    <3>4. x \in At(s, c) /\ j \in At(s, c) /\ x # j
      BY <1>1, <2>1, <3>2, <3>3
    <3>5. Len(Folded(s, c)) = Cardinality(At(s, c))
      <4> HIDE DEF s, c
      <4> QED
        BY <1>1, FoldedFacts
    <3>6. c \in NamesIn(s)
      <4> HIDE DEF s, c
      <4> QED
        BY <1>1, <3>4, MeaningFacts
    <3>7. Cardinality(At(s, c)) = 1
      BY <3>5, <3>6
    <3>8. IsFiniteSet(At(s, c))
      <4>1. IsFiniteSet(1..N) /\ At(s, c) \in SUBSET (1..N)
        <5>1. IsFiniteSet(1..N)
          <6> HIDE DEF N
          <6> QED
            BY <1>1, Interval
        <5> QED
          BY <3>3, <5>1
      <4> HIDE DEF s, N, c
      <4> QED
        BY <4>1, FS_Subset
    <3>9. PICK y : At(s, c) = {y}
      <4> HIDE DEF s, c
      <4> QED
        BY <3>7, <3>8, FS_Singleton
    <3> HIDE DEF s, c, j
    <3> QED
      BY <3>4, <3>9
  <2>7. f[j] = T!Reindexed(Append(r, s[j]))
    <3>1. T!AprSet(d, k, v) = T!AprAdd(d, k, v)
      BY <2>6 DEF T!AprSet
    <3> HIDE DEF d, k, v
    <3>2. T!AprAdd(d, k, v) = T!Reindexed(Append(d.elts, [key |-> k, val |-> v]))
      BY <2>2, <2>3, AddIs
    <3> QED
      BY <2>2, <2>3, <2>5, <3>1, <3>2
  <2>8. Append(r, s[j]) = SubSeq(s, 1, j)
    <3> HIDE DEF s
    <3> QED
      BY <1>1, <2>1
  <2> QED
    BY <2>1, <2>7, <2>8
<1>8. f[N] = t
  <2>1. N \in 0..N
    BY <1>1
  <2>2. N \in T0
    <3> HIDE DEF T0, N
    <3> QED
      BY <1>1, <1>6, <1>7, <2>1, InductionUpTo
  <2>3. SubSeq(s, 1, N) = s
    <3> HIDE DEF s
    <3> QED
      BY <1>1
  <2> HIDE DEF s, N
  <2> QED
    BY <1>1, <2>2, <2>3
<1> QED
  BY <1>5, <1>8 DEF T!AprOverlap

-----------------------------------------------------------------------------
(* The inductive invariant.                                                *)

TableType ==
  /\ tableConf \in TableConfigs
  /\ Indexed(tab) /\ Indexed(other)
  /\ it \in [on : BOOLEAN, n : Nat, pos : Nat, keys : Seq(TableKey), cut : BOOLEAN]

\* While nothing was removed the table has at least the entries that it had.
Visiting == it.on /\ ~it.cut => /\ it.pos <= it.n /\ it.n <= tab.n
                               /\ it.keys = SubSeq(T!Keys(tab), 1, it.pos)

TableInv == TableType /\ Visiting

LEMMA CountIs ==
  ASSUME NEW t, Indexed(t), NEW k PROVE T!Count(t, k) = Len(Folded(t.elts, CaseFold[k]))
<1>1. t.elts \in Seq(Entry) /\ T!Live(t) = t.elts
  BY Fields
<1>2. Len(Folded(t.elts, CaseFold[k])) = Len(Keep(t.elts, T!Named(CaseFold[k])))
  BY <1>1, FoldedFacts
<1> QED
  BY <1>1, <1>2, TableKeeps DEF T!Count

LEMMA NewIndexed == Indexed(T!New) /\ T!New.elts = <<>>
<1>1. T!Reindexed(<<>>) = [elts |-> <<>>, n |-> 0, ix |-> [l \in T!Letters |-> <<>>]]
  BY DEF T!Reindexed
<1> QED
  BY <1>1 DEF T!New, T!NoIndex, Indexed

\* A table that a call may leave: it has all keys that were there, or fewer of one name.
May(t) == /\ Indexed(t)
          /\ \/ Extends(tab.elts, t.elts)
             \/ \E k \in TableKey : Len(Folded(t.elts, CaseFold[k])) < Len(Folded(tab.elts, CaseFold[k]))

LEMMA BecomeInv ==
  ASSUME TableInv, NEW t, May(t), T!Become(t)
  PROVE  TableInv' /\ tab' = t
<1>1. tab' = t /\ T!Moved(t) /\ tableConf' = tableConf /\ other' = other
  BY DEF T!Become
<1>2. Indexed(tab) /\ Indexed(t)
  BY DEF TableInv, TableType, May
<1>3. it' = [it EXCEPT !.cut = @ \/ (it.on /\ \E k \in TableKey : T!Count(t, k) < T!Count(tab, k))]
  BY <1>1 DEF T!Moved
<1>4. TableType'
  BY <1>1, <1>2, <1>3 DEF TableInv, TableType
<1>5. Visiting'
  <2>1. SUFFICES ASSUME it'.on, ~it'.cut
                 PROVE  it'.pos <= it'.n /\ it'.n <= tab'.n /\ it'.keys = SubSeq(T!Keys(tab)', 1, it'.pos)
    BY DEF Visiting
  <2>2. /\ it.on /\ ~it.cut /\ it'.n = it.n /\ it'.pos = it.pos /\ it'.keys = it.keys
        /\ it.n \in Nat /\ it.pos \in Nat
        /\ ~ \E k \in TableKey : T!Count(t, k) < T!Count(tab, k)
    BY <1>3, <2>1 DEF TableInv, TableType
  <2>3. it.pos <= it.n /\ it.n <= tab.n /\ it.keys = SubSeq(T!Keys(tab), 1, it.pos)
    BY <2>2 DEF TableInv, Visiting
  <2>4. Extends(tab.elts, t.elts)
    BY <1>2, <2>2, CountIs DEF May
  <2>5. tab.n = Len(tab.elts) /\ t.n = Len(t.elts) /\ tab.n \in Nat /\ t.n \in Nat
    BY <1>2, Fields
  <2> DEFINE a == T!Keys(tab)
             b == T!Keys(t)
  <2>6. /\ a \in Seq(TableKey) /\ Len(a) = tab.n /\ b \in Seq(TableKey) /\ Len(b) = t.n
        /\ \A i \in 1..tab.n : b[i] = a[i]
        /\ tab.n <= t.n
    <3>1. /\ a \in Seq(TableKey) /\ Len(a) = tab.n
          /\ \A i \in 1..tab.n : a[i] = tab.elts[i].key
      BY <1>2, <2>5, KeysFacts
    <3>2. /\ b \in Seq(TableKey) /\ Len(b) = t.n
          /\ \A i \in 1..t.n : b[i] = t.elts[i].key
      BY <1>2, <2>5, KeysFacts
    <3> HIDE DEF a, b
    <3>3. tab.n <= t.n /\ \A i \in 1..tab.n : t.elts[i].key = tab.elts[i].key
      BY <2>4, <2>5 DEF Extends
    <3>4. \A i \in 1..tab.n : i \in 1..t.n
      BY <2>5, <3>3
    <3> QED
      BY <3>1, <3>2, <3>3, <3>4
  <2>7. T!Keys(tab)' = b
    BY <1>1 DEF T!Keys
  <2>8. SubSeq(a, 1, it.pos) = SubSeq(b, 1, it.pos)
    <3> DEFINE p == it.pos
    <3>1. p \in Nat /\ p <= tab.n /\ p <= t.n
      BY <2>2, <2>3, <2>5, <2>6
    <3> HIDE DEF a, b, p
    <3>2. SubSeq(a, 1, p) = [i \in 1..p |-> a[i]] /\ SubSeq(b, 1, p) = [i \in 1..p |-> b[i]]
      BY <2>5, <2>6, <3>1
    <3>3. \A i \in 1..p : a[i] = b[i]
      BY <2>5, <2>6, <3>1
    <3> QED
      BY <3>2, <3>3 DEF p
  <2> HIDE DEF a, b
  <2>9. it'.n <= tab'.n
    BY <1>1, <2>2, <2>3, <2>5, <2>6
  <2> QED
    BY <2>2, <2>3, <2>7, <2>8, <2>9 DEF a
<1> QED
  BY <1>1, <1>4, <1>5 DEF TableInv

(* What each call does to the table.                                       *)

LEMMA ConfigFacts ==
  ASSUME T!TableAssumption, TableInv
  PROVE  /\ tableConf.keys \subseteq TableKey /\ tableConf.values \subseteq TableValue
         /\ tableConf.items \subseteq Seq((TableKey \X TableValue) \union {BadPair})
         /\ Indexed(tab) /\ Indexed(other)
BY DEF T!TableAssumption, TableInv, TableType

LEMMA AddMay ==
  ASSUME T!TableAssumption, TableInv, NEW k \in TableKey, NEW v \in TableValue
  PROVE  May(T!AprAdd(tab, k, v))
<1>1. Indexed(tab) /\ tab.elts \in Seq(Entry)
  BY ConfigFacts, Fields
<1> DEFINE s == tab.elts
           e == [key |-> k, val |-> v]
           u == T!AprAdd(tab, k, v)
<1>2. Indexed(u) /\ u.elts = Append(s, e) /\ e \in Entry
  BY <1>1, AddFolds DEF Entry
<1>3. Extends(s, u.elts)
  <2> HIDE DEF s, e, u
  <2> QED
    BY <1>1, <1>2 DEF Extends, s
<1> QED
  BY <1>2, <1>3 DEF May

LEMMA SetAllMay ==
  ASSUME T!TableAssumption, TableInv, NEW pairs \in Seq(TableKey \X TableValue)
  PROVE  May(T!SetAll(tab, pairs))
<1> DEFINE u == T!SetAll(tab, pairs)
<1>1. Indexed(tab)
  BY ConfigFacts
<1>2. /\ Indexed(u)
      /\ \/ Extends(tab.elts, u.elts)
         \/ \E k \in TableKey : /\ Len(Folded(tab.elts, CaseFold[k])) > 1
                                /\ Len(Folded(u.elts, CaseFold[k])) = 1
  BY <1>1, SetAllFolds
<1> HIDE DEF u
<1>3. ASSUME NEW k \in TableKey, Len(Folded(tab.elts, CaseFold[k])) > 1,
             Len(Folded(u.elts, CaseFold[k])) = 1
      PROVE  Len(Folded(u.elts, CaseFold[k])) < Len(Folded(tab.elts, CaseFold[k]))
  BY <1>3
<1>4. May(u)
  BY <1>2, <1>3 DEF May
<1> QED
  BY <1>4 DEF u

LEMMA SetMay ==
  ASSUME T!TableAssumption, TableInv, NEW k \in TableKey, NEW v \in TableValue
  PROVE  May(T!AprSet(tab, k, v))
<1> DEFINE u == T!AprSet(tab, k, v)
           n == CaseFold[k]
           s == tab.elts
<1>1. Indexed(tab) /\ s \in Seq(Entry) /\ T!Hits(tab, k) = At(s, n)
  BY ConfigFacts, Fields, HitsAre
<1>2. /\ Indexed(u) /\ Folded(u.elts, n) = <<v>>
      /\ Cardinality(T!Hits(tab, k)) < 2 => Extends(s, u.elts)
  BY <1>1, SetFolds
<1>3. Len(Folded(s, n)) = Cardinality(At(s, n)) /\ Len(Folded(s, n)) \in Nat
  <2> HIDE DEF s, n
  <2>1. Len(Folded(s, n)) = Cardinality(At(s, n)) /\ Folded(s, n) \in Seq(TableValue)
    BY <1>1, FoldedFacts
  <2> QED
    BY <2>1
<1>4. Len(Folded(u.elts, n)) = 1
  BY <1>2
<1> HIDE DEF u, s
<1>5. CASE Cardinality(At(s, n)) < 2
  BY <1>1, <1>2, <1>5 DEF May, s, u
<1>6. CASE ~(Cardinality(At(s, n)) < 2)
  <2>1. Len(Folded(u.elts, n)) < Len(Folded(s, n))
    BY <1>3, <1>4, <1>6
  <2> QED
    BY <1>2, <2>1 DEF May, s, u
<1> QED
  BY <1>5, <1>6

LEMMA UnsetMay ==
  ASSUME T!TableAssumption, TableInv, NEW k \in TableKey
  PROVE  May(T!AprUnset(tab, k))
<1> DEFINE u == T!AprUnset(tab, k)
           n == CaseFold[k]
           s == tab.elts
<1>1. Indexed(tab) /\ s \in Seq(Entry) /\ Len(s) \in Nat /\ T!Hits(tab, k) = At(s, n)
  BY ConfigFacts, Fields, HitsAre
<1>2. Indexed(u) /\ Folded(u.elts, n) = <<>>
  BY <1>1, UnsetFolds
<1>3. CASE At(s, n) = {}
  <2>1. u = tab
    BY <1>1, <1>3 DEF T!AprUnset, T!Dropped
  <2>2. Extends(s, s)
    BY <1>1 DEF Extends
  <2> HIDE DEF u
  <2> QED
    BY <1>2, <2>1, <2>2 DEF May, u
<1>4. CASE At(s, n) # {}
  <2>1. Folded(s, n) \in Seq(TableValue) /\ Folded(s, n) # <<>>
    <3> HIDE DEF s, n
    <3> QED
      BY <1>1, <1>4, FoldedFacts
  <2>2. 0 < Len(Folded(s, n)) /\ Len(Folded(u.elts, n)) = 0
    <3> HIDE DEF s, n, u
    <3> QED
      BY <1>2, <2>1
  <2> HIDE DEF u, s
  <2> QED
    BY <1>2, <2>2 DEF May, s, u
<1> QED
  BY <1>3, <1>4

LEMMA ClearMay ==
  ASSUME T!TableAssumption, TableInv PROVE May(T!New)
<1> DEFINE s == tab.elts
<1>1. s \in Seq(Entry) /\ Len(s) \in Nat
  BY ConfigFacts, Fields
<1>2. Indexed(T!New) /\ T!New.elts = <<>>
  BY NewIndexed
<1>3. CASE Len(s) = 0
  BY <1>2, <1>3 DEF May, Extends
<1>4. CASE Len(s) # 0
  <2> DEFINE k == s[1].key
             n == CaseFold[k]
  <2>1. k \in TableKey
    <3>1. s[1] \in Entry
      BY <1>1, <1>4, ElementOfSeq
    <3> QED
      BY <3>1 DEF Entry
  <2>2. n \in NamesIn(s)
    BY <1>1, <1>4 DEF NamesIn
  <2>3. Folded(s, n) # <<>> /\ Folded(s, n) \in Seq(TableValue)
    <3> HIDE DEF s, n
    <3> QED
      BY <1>1, <2>2, MeaningFacts, FoldedFacts
  <2>4. Folded(<<>>, n) = <<>>
    BY KeepEmpty DEF Folded, T!ValuesOf
  <2>5. 0 < Len(Folded(s, n)) /\ Len(Folded(<<>>, n)) = 0
    <3> HIDE DEF s, n
    <3> QED
      BY <2>3, <2>4
  <2> HIDE DEF s
  <2> QED
    BY <1>2, <2>1, <2>5 DEF May, s
<1> QED
  BY <1>3, <1>4

LEMMA SameMay == ASSUME T!TableAssumption, TableInv PROVE May(tab)
<1>1. Indexed(tab) /\ Len(tab.elts) \in Nat
  BY ConfigFacts, Fields
<1> QED
  BY <1>1 DEF May, Extends

(* The pairs that are assigned are good ones.                              *)
LEMMA GoodPairs ==
  ASSUME NEW items \in Seq((TableKey \X TableValue) \union {BadPair}), NEW t
  PROVE  \E pairs \in Seq(TableKey \X TableValue) : T!Merged(t, items) = T!SetAll(t, pairs)
<1> DEFINE bad == {i \in DOMAIN items : items[i] = BadPair}
           W == (TableKey \X TableValue) \union {BadPair}
<1>1. items \in Seq(W) /\ DOMAIN items = 1..Len(items) /\ Len(items) \in Nat
  OBVIOUS
<1>2. ASSUME NEW n \in 0..Len(items), \A i \in 1..n : items[i] # BadPair
      PROVE  SubSeq(items, 1, n) \in Seq(TableKey \X TableValue)
  <2>1. \A i \in 1..n : items[i] \in TableKey \X TableValue
    <3>1. \A i \in 1..Len(items) : items[i] \in W
      <4> HIDE DEF W
      <4> QED
        BY <1>1, ElementOfSeq
    <3> QED
      BY <1>1, <1>2, <3>1
  <2>2. SubSeq(items, 1, n) = [i \in 1..n |-> items[i]]
    <3> HIDE DEF W
    <3> QED
      BY <1>1
  <2>3. n \in Nat
    BY <1>1
  <2> QED
    BY <2>1, <2>2, <2>3, IsASeq
<1>3. CASE bad = {}
  <2>1. T!Merged(t, items) = T!SetAll(t, items)
    BY <1>3 DEF T!Merged
  <2>2. SubSeq(items, 1, Len(items)) = items
    <3> HIDE DEF W
    <3> QED
      BY <1>1
  <2>3. Len(items) \in 0..Len(items) /\ \A i \in 1..Len(items) : items[i] # BadPair
    BY <1>1, <1>3
  <2> QED
    BY <1>2, <2>1, <2>2, <2>3
<1>4. CASE bad # {}
  <2> DEFINE m == T!Min(bad)
  <2>1. T!Merged(t, items) = T!SetAll(t, SubSeq(items, 1, m - 1))
    BY <1>4 DEF T!Merged
  <2>2. m \in bad /\ \A i \in bad : m <= i
    <3>1. bad \in SUBSET (1..Len(items))
      BY <1>1
    <3> HIDE DEF bad
    <3> QED
      BY <1>1, <1>4, <3>1, Extremes
  <2> HIDE DEF m
  <2>3. m - 1 \in 0..Len(items) /\ \A i \in 1..m - 1 : items[i] # BadPair
    BY <1>1, <2>2
  <2> QED
    BY <1>2, <2>1, <2>3
<1> QED
  BY <1>3, <1>4

LEMMA TextPairs ==
  ASSUME T!TableAssumption, NEW t, Indexed(t)
  PROVE  \E pairs \in Seq(TableKey \X TableValue) : T!Merged(tab, T!TextItems(t)) = T!SetAll(tab, pairs)
<1> DEFINE items == T!TextItems(t)
           Of(i) == T!Subscript(t, t.elts[i].key)
           N == Len(t.elts)
<1>1. t.n = N /\ N \in Nat
  BY Fields
<1>2. ASSUME NEW i \in 1..N PROVE t.elts[i].key \in TableKey
  BY KeysFacts
<1>3. ASSUME NEW i \in 1..N PROVE (IF Len(Of(i)) = 1 THEN Of(i)[1] ELSE Joined) \in TableValue
  <2>1. Of(i) \in Seq(TableValue)
    BY SubscriptType
  <2> HIDE DEF Of
  <2>2. Len(Of(i)) = 1 => Of(i)[1] \in TableValue
    <3> DEFINE o == Of(i)
    <3> HIDE DEF o
    <3>1. ASSUME Len(o) = 1 PROVE o[1] \in TableValue
      <4>1. o \in Seq(TableValue) /\ 1 \in 1..Len(o)
        BY <2>1, <3>1 DEF o
      <4> QED
        BY <4>1, ElementOfSeq
    <3> QED
      BY <3>1 DEF o
  <2> QED
    BY <2>2 DEF T!TableAssumption
<1>4. items = [i \in 1..N |-> <<t.elts[i].key, IF Len(Of(i)) = 1 THEN Of(i)[1] ELSE Joined>>]
  BY <1>1 DEF T!TextItems
<1>5. items \in Seq(TableKey \X TableValue)
  <2> HIDE DEF items, N, Of
  <2>1. \A i \in 1..N : <<t.elts[i].key, IF Len(Of(i)) = 1 THEN Of(i)[1] ELSE Joined>> \in TableKey \X TableValue
    BY <1>2, <1>3
  <2> QED
    BY <1>1, <1>4, <2>1, IsASeq
<1> HIDE DEF items
<1>6. items \in Seq((TableKey \X TableValue) \union {BadPair})
  BY <1>5, SeqMonotonic
<1> QED
  BY <1>6, GoodPairs DEF items

-----------------------------------------------------------------------------
(* What each call does to the meaning of the table.                        *)

LEMMA SetMeaning ==
  ASSUME NEW s \in Seq(Entry), NEW u \in Seq(Entry), NEW f, NEW v,
         \A n : Folded(u, n) = IF n = f THEN <<v>> ELSE Folded(s, n)
  PROVE  Meaning(u) = T!Promise!Over(Meaning(s), T!Promise!Only(f, <<v>>))
<1>1. NamesIn(u) = NamesIn(s) \union {f}
  <2>1. \A n : n \in NamesIn(u) <=> Folded(u, n) # <<>>
    BY MeaningFacts
  <2>2. \A n : n \in NamesIn(s) <=> Folded(s, n) # <<>>
    BY MeaningFacts
  <2>3. <<v>> # <<>>
    OBVIOUS
  <2> QED
    BY <2>1, <2>2, <2>3
<1> QED
  BY <1>1 DEF Meaning, T!Promise!Over, T!Promise!Only

\* The values of a name to which one is added, and what an update may do.
Added(m, f, v) == IF f \in DOMAIN m THEN Append(m[f], v) ELSE <<v>>
Updated(m, u) == /\ DOMAIN m \subseteq DOMAIN u
                 /\ \A n \in DOMAIN u : \/ n \in DOMAIN m /\ u[n] = m[n]
                                       \/ \E v \in TableValue : u[n] = <<v>>

LEMMA AddMeaning ==
  ASSUME NEW s \in Seq(Entry), NEW u \in Seq(Entry), NEW f, NEW v \in TableValue,
         \A n : Folded(u, n) = IF n = f THEN Append(Folded(s, n), v) ELSE Folded(s, n)
  PROVE  Meaning(u) = T!Promise!Over(Meaning(s), T!Promise!Only(f, Added(Meaning(s), f, v)))
<1> DEFINE w == Added(Meaning(s), f, v)
<1>1. \A n : n \in NamesIn(u) <=> Folded(u, n) # <<>>
  BY MeaningFacts
<1>2. \A n : n \in NamesIn(s) <=> Folded(s, n) # <<>>
  BY MeaningFacts
<1>3. Folded(u, f) = w
  <2>1. CASE f \in NamesIn(s)
    BY <2>1 DEF Meaning, Added
  <2>2. CASE f \notin NamesIn(s)
    <3>1. Folded(s, f) = <<>> /\ Append(<<>>, v) = <<v>>
      BY <1>2, <2>2
    <3> QED
      BY <2>2, <3>1 DEF Meaning, Added
  <2> QED
    BY <2>1, <2>2
<1>4. Folded(u, f) # <<>>
  <2> DEFINE o == Folded(s, f)
  <2>1. o \in Seq(TableValue)
    BY FoldedFacts
  <2>2. Folded(u, f) = Append(o, v)
    OBVIOUS
  <2> HIDE DEF o
  <2>3. Append(o, v) # <<>>
    BY <2>1
  <2> QED
    BY <2>2, <2>3
<1>5. NamesIn(u) = NamesIn(s) \union {f}
  BY <1>1, <1>2, <1>4
<1> HIDE DEF w
<1>6. Meaning(u) = T!Promise!Over(Meaning(s), T!Promise!Only(f, w))
  BY <1>3, <1>5 DEF Meaning, T!Promise!Over, T!Promise!Only
<1> QED
  BY <1>6 DEF w

LEMMA DelMeaning ==
  ASSUME NEW s \in Seq(Entry), NEW u \in Seq(Entry), NEW f,
         \A n : Folded(u, n) = IF n = f THEN <<>> ELSE Folded(s, n)
  PROVE  Meaning(u) = T!Promise!Without(Meaning(s), {f})
<1>1. NamesIn(u) = NamesIn(s) \ {f}
  <2>1. \A n : n \in NamesIn(u) <=> Folded(u, n) # <<>>
    BY MeaningFacts
  <2>2. \A n : n \in NamesIn(s) <=> Folded(s, n) # <<>>
    BY MeaningFacts
  <2> QED
    BY <2>1, <2>2
<1> QED
  BY <1>1 DEF Meaning, T!Promise!Without

LEMMA EmptyMeaning == Meaning(<<>>) = [n \in {} |-> <<>>]
<1>1. NamesIn(<<>>) = {}
  BY DEF NamesIn
<1> QED
  BY <1>1 DEF Meaning

LEMMA UpdateMeaning ==
  ASSUME T!TableAssumption, NEW t, Indexed(t), NEW pairs \in Seq(TableKey \X TableValue)
  PROVE  Updated(Meaning(t.elts), Meaning(T!SetAll(t, pairs).elts))
<1> DEFINE x == T!SetAll(t, pairs)
           s == t.elts
           e == x.elts
<1>1. /\ Indexed(x)
      /\ \A n : Folded(e, n) = Folded(s, n) \/ \E v \in TableValue : Folded(e, n) = <<v>>
  BY SetAllFolds
<1> HIDE DEF x
<1>2. s \in Seq(Entry) /\ e \in Seq(Entry)
  BY <1>1, Fields
<1> HIDE DEF s, e
<1>3. \A n : (n \in NamesIn(s) <=> Folded(s, n) # <<>>) /\ (n \in NamesIn(e) <=> Folded(e, n) # <<>>)
  BY <1>2, MeaningFacts
<1>4. \A v \in TableValue : <<v>> # <<>>
  OBVIOUS
<1>5. NamesIn(s) \subseteq NamesIn(e)
  BY <1>1, <1>3, <1>4
<1>6. Updated(Meaning(s), Meaning(e))
  BY <1>1, <1>3, <1>5 DEF Meaning, Updated
<1> QED
  BY <1>6 DEF s, e, x

LEMMA Replies ==
  /\ \A w \in {"set", "del", "add", "clear", "update"} : T!ByName(<<w>>) = <<w>>
  /\ \A w \in {"read", "StopIteration", "RuntimeError"} : T!ByName(<<w>>) = <<>>
  /\ T!ByName(<<>>) = <<>>
  /\ \A k, v : T!ByName(<<k, v>>) = <<CaseFold[k], v>>
<1>1. \A w : Len(<<w>>) = 1 /\ <<w>>[1] = w
  OBVIOUS
<1>2. Len(<<>>) = 0
  OBVIOUS
<1>3. \A k, v : Len(<<k, v>>) = 2 /\ <<k, v>>[1] = k /\ <<k, v>>[2] = v
  OBVIOUS
<1> QED
  BY <1>1, <1>2, <1>3 DEF T!ByName

-----------------------------------------------------------------------------
(* One lemma per call: the invariant stays, and the promise allows it.     *)

LEMMA NamesAre ==
  ASSUME T!TableAssumption, NEW k \in TableKey PROVE CaseFold[k] \in T!Name
BY DEF T!TableAssumption, T!Name, T!Range

LEMMA AssStep ==
  ASSUME T!TableAssumption, TableInv, NEW k \in tableConf.keys, NEW v \in tableConf.values,
         T!AssSubscript(k, v)
  PROVE  TableInv' /\ T!Promise!Next
<1> DEFINE t == T!AprSet(tab, k, v)
           f == CaseFold[k]
<1>1. k \in TableKey /\ v \in TableValue /\ Indexed(tab) /\ f \in T!Name
  BY ConfigFacts, NamesAre
<1>2. TableInv' /\ tab' = t
  BY <1>1, SetMay, BecomeInv DEF T!AssSubscript
<1>3. Indexed(t) /\ \A n : Folded(t.elts, n) = IF n = f THEN <<v>> ELSE Folded(tab.elts, n)
  BY <1>1, SetFolds
<1> HIDE DEF t
<1>4. T!Contents = Meaning(tab.elts) /\ T!Contents' = Meaning(t.elts)
  BY <1>1, <1>2, <1>3, ContentsAre
<1>5. Meaning(t.elts) = T!Promise!Over(Meaning(tab.elts), T!Promise!Only(f, <<v>>))
  <2> DEFINE s == tab.elts
             u == t.elts
  <2>1. s \in Seq(Entry) /\ u \in Seq(Entry)
    BY <1>1, <1>3, Fields
  <2>2. \A n : Folded(u, n) = IF n = f THEN <<v>> ELSE Folded(s, n)
    BY <1>3
  <2> HIDE DEF s, u, f
  <2> QED
    BY <2>1, <2>2, SetMeaning DEF s, u
<1>6. T!ByName(reply)' = <<"set">>
  BY Replies DEF T!AssSubscript, T!Says
<1>7. T!Promise!SetItem(f, v)
  BY <1>4, <1>5, <1>6 DEF T!Promise!SetItem, T!Promise!Says
<1> QED
  BY <1>1, <1>2, <1>7 DEF T!Promise!Next

LEMMA AddStep ==
  ASSUME T!TableAssumption, TableInv, NEW k \in tableConf.keys, NEW v \in tableConf.values, T!Add(k, v)
  PROVE  TableInv' /\ T!Promise!Next
<1> DEFINE t == T!AprAdd(tab, k, v)
           f == CaseFold[k]
<1>1. k \in TableKey /\ v \in TableValue /\ Indexed(tab) /\ f \in T!Name
  BY ConfigFacts, NamesAre
<1>2. TableInv' /\ tab' = t
  BY <1>1, AddMay, BecomeInv DEF T!Add
<1>3. Indexed(t) /\ \A n : Folded(t.elts, n) = IF n = f THEN Append(Folded(tab.elts, n), v) ELSE Folded(tab.elts, n)
  BY <1>1, AddFolds
<1> HIDE DEF t
<1>4. T!Contents = Meaning(tab.elts) /\ T!Contents' = Meaning(t.elts)
  BY <1>1, <1>2, <1>3, ContentsAre
<1>5. Meaning(t.elts) = T!Promise!Over(Meaning(tab.elts), T!Promise!Only(f, Added(Meaning(tab.elts), f, v)))
  <2> DEFINE s == tab.elts
             u == t.elts
  <2>1. s \in Seq(Entry) /\ u \in Seq(Entry)
    BY <1>1, <1>3, Fields
  <2>2. \A n : Folded(u, n) = IF n = f THEN Append(Folded(s, n), v) ELSE Folded(s, n)
    BY <1>3
  <2> HIDE DEF s, u, f
  <2>3. Meaning(u) = T!Promise!Over(Meaning(s), T!Promise!Only(f, Added(Meaning(s), f, v)))
    BY <1>1, <2>1, <2>2, AddMeaning
  <2> QED
    BY <2>3 DEF s, u
<1>6. T!ByName(reply)' = <<"add">>
  BY Replies DEF T!Add, T!Says
<1>7. T!Promise!Add(f, v)
  BY <1>4, <1>5, <1>6 DEF T!Promise!Add, T!Promise!Says, Added
<1> QED
  BY <1>1, <1>2, <1>7 DEF T!Promise!Next

LEMMA DelStep ==
  ASSUME T!TableAssumption, TableInv, NEW k \in tableConf.keys, T!DelSubscript(k)
  PROVE  TableInv' /\ T!Promise!Next
<1> DEFINE t == T!AprUnset(tab, k)
           f == CaseFold[k]
<1>1. k \in TableKey /\ Indexed(tab) /\ f \in T!Name
  BY ConfigFacts, NamesAre
<1>2. TableInv' /\ tab' = t
  BY <1>1, UnsetMay, BecomeInv DEF T!DelSubscript
<1>3. Indexed(t) /\ \A n : Folded(t.elts, n) = IF n = f THEN <<>> ELSE Folded(tab.elts, n)
  BY <1>1, UnsetFolds
<1> HIDE DEF t
<1>4. T!Contents = Meaning(tab.elts) /\ T!Contents' = Meaning(t.elts)
  BY <1>1, <1>2, <1>3, ContentsAre
<1>5. Meaning(t.elts) = T!Promise!Without(Meaning(tab.elts), {f})
  <2> DEFINE s == tab.elts
             u == t.elts
  <2>1. s \in Seq(Entry) /\ u \in Seq(Entry)
    BY <1>1, <1>3, Fields
  <2>2. \A n : Folded(u, n) = IF n = f THEN <<>> ELSE Folded(s, n)
    BY <1>3
  <2> HIDE DEF s, u, f
  <2> QED
    BY <2>1, <2>2, DelMeaning DEF s, u
<1>6. T!ByName(reply)' = <<"del">>
  BY Replies DEF T!DelSubscript, T!Says
<1>7. T!Promise!DelItem(f)
  BY <1>4, <1>5, <1>6 DEF T!Promise!DelItem, T!Promise!Says
<1> QED
  BY <1>1, <1>2, <1>7 DEF T!Promise!Next

LEMMA ClearStep ==
  ASSUME T!TableAssumption, TableInv, T!Clear
  PROVE  TableInv' /\ T!Promise!Next
<1>1. TableInv' /\ tab' = T!New
  BY ClearMay, BecomeInv DEF T!Clear
<1>2. Indexed(T!New) /\ T!New.elts = <<>>
  BY NewIndexed
<1>3. T!Contents' = [n \in {} |-> <<>>]
  BY <1>1, <1>2, ContentsAre, EmptyMeaning
<1>4. T!ByName(reply)' = <<"clear">>
  BY Replies DEF T!Clear, T!Says
<1>5. T!Promise!Clear
  BY <1>3, <1>4 DEF T!Promise!Clear, T!Promise!Says
<1> QED
  BY <1>1, <1>5 DEF T!Promise!Next

LEMMA MergeStep ==
  ASSUME T!TableAssumption, TableInv, NEW pairs \in Seq(TableKey \X TableValue),
         T!Become(T!SetAll(tab, pairs)), T!Says("update")
  PROVE  TableInv' /\ T!Promise!Next
<1> DEFINE t == T!SetAll(tab, pairs)
<1>1. Indexed(tab)
  BY ConfigFacts
<1>2. TableInv' /\ tab' = t /\ Indexed(t)
  BY SetAllMay, BecomeInv DEF May
<1>3. T!Contents = Meaning(tab.elts) /\ T!Contents' = Meaning(t.elts)
  BY <1>1, <1>2, ContentsAre
<1> DEFINE m == Meaning(tab.elts)
           u == Meaning(t.elts)
<1>4. Updated(m, u)
  BY <1>1, UpdateMeaning
<1>5. T!ByName(reply)' = <<"update">>
  BY Replies DEF T!Says
<1> HIDE DEF t, m, u
<1>6. T!Contents = m /\ T!Contents' = u
  BY <1>3 DEF m, u
<1>7. T!Promise!Update
  BY <1>4, <1>5, <1>6 DEF T!Promise!Update, T!Promise!Says, Updated
<1> QED
  BY <1>2, <1>7 DEF T!Promise!Next

LEMMA UpdateStep ==
  ASSUME T!TableAssumption, TableInv, NEW items \in tableConf.items, T!Update(items)
  PROVE  TableInv' /\ T!Promise!Next
<1>1. items \in Seq((TableKey \X TableValue) \union {BadPair})
  BY ConfigFacts
<1>2. PICK pairs \in Seq(TableKey \X TableValue) : T!Merged(tab, items) = T!SetAll(tab, pairs)
  BY <1>1, GoodPairs
<1> QED
  BY <1>2, MergeStep DEF T!Update

LEMMA UpdateFromStep ==
  ASSUME T!TableAssumption, TableInv, T!UpdateFromTable
  PROVE  TableInv' /\ T!Promise!Next
<1>1. PICK pairs \in Seq(TableKey \X TableValue) :
          T!Merged(tab, T!TextItems(other)) = T!SetAll(tab, pairs)
  BY ConfigFacts, TextPairs
<1> QED
  BY <1>1, MergeStep DEF T!UpdateFromTable

LEMMA SetDefaultStep ==
  ASSUME T!TableAssumption, TableInv, NEW k \in tableConf.keys,
         T!SetDefault(k) \/ \E v \in tableConf.values : T!SetDefaultTo(k, v)
  PROVE  TableInv' /\ T!Promise!Next
<1> DEFINE f == CaseFold[k]
           m == Meaning(tab.elts)
<1>1. k \in TableKey /\ Indexed(tab) /\ f \in T!Name /\ Blank \in TableValue
  BY ConfigFacts, NamesAre DEF T!TableAssumption
<1>2. T!HasKey(tab, k) <=> f \in DOMAIN m
  BY <1>1, GetIs DEF Meaning
<1>3. CASE T!HasKey(tab, k)
  <2>1. T!Become(tab) /\ reply' = <<k, T!AprGet(tab, k)[1]>>
    <3>1. CASE T!SetDefault(k)
      <4>1. T!Become(tab)
        BY <1>3, <3>1 DEF T!SetDefault
      <4>2. tab' = tab
        BY <4>1 DEF T!Become
      <4> QED
        BY <3>1, <4>1, <4>2 DEF T!SetDefault
    <3>2. CASE \E v \in tableConf.values : T!SetDefaultTo(k, v)
      BY <3>2 DEF T!SetDefaultTo
    <3> QED
      BY <3>1, <3>2
  <2>2. TableInv' /\ tab' = tab
    BY <2>1, SameMay, BecomeInv
  <2>3. T!Contents = m /\ T!Contents' = m
    BY <1>1, <2>2, ContentsAre
  <2>4. T!AprGet(tab, k) = <<m[f][1]>>
    BY <1>1, <1>2, <1>3, GetIs DEF T!Get, Meaning
  <2>5. T!ByName(reply)' = <<f, m[f][1]>>
    <3>1. reply' = <<k, m[f][1]>>
      BY <2>1, <2>4
    <3> HIDE DEF m, f
    <3> QED
      BY <3>1, Replies DEF f
  <2> HIDE DEF m, f
  <2>6. T!Promise!SetDefault(f, Blank)
    BY <1>2, <1>3, <2>3, <2>5 DEF T!Promise!SetDefault
  <2> QED
    BY <1>1, <2>2, <2>6 DEF T!Promise!Next
<1>4. CASE ~T!HasKey(tab, k)
  <2> DEFINE t == T!AprSet(tab, k, Blank)
  <2>1. T!Become(t) /\ reply' = <<k, T!AprGet(tab', k)[1]>>
    BY <1>4 DEF T!SetDefault, T!SetDefaultTo
  <2>2. TableInv' /\ tab' = t
    BY <1>1, <2>1, SetMay, BecomeInv
  <2>3. Indexed(t) /\ \A n : Folded(t.elts, n) = IF n = f THEN <<Blank>> ELSE Folded(tab.elts, n)
    BY <1>1, SetFolds
  <2> HIDE DEF t
  <2>4. T!Contents = m /\ T!Contents' = Meaning(t.elts)
    BY <1>1, <2>2, <2>3, ContentsAre
  <2>5. Meaning(t.elts) = T!Promise!Over(m, T!Promise!Only(f, <<Blank>>))
    <3> DEFINE s == tab.elts
               u == t.elts
    <3>1. s \in Seq(Entry) /\ u \in Seq(Entry)
      BY <1>1, <2>3, Fields
    <3>2. \A n : Folded(u, n) = IF n = f THEN <<Blank>> ELSE Folded(s, n)
      BY <2>3
    <3> HIDE DEF s, u, f
    <3> QED
      BY <3>1, <3>2, SetMeaning DEF s, u
  <2>6. f \in NamesIn(t.elts) /\ Folded(t.elts, f)[1] = Blank
    <3>1. Folded(t.elts, f) = <<Blank>> /\ <<Blank>> # <<>> /\ t.elts \in Seq(Entry)
      BY <2>3, Fields
    <3> HIDE DEF f
    <3> QED
      BY <3>1, MeaningFacts
  <2>7. T!AprGet(t, k) = <<Blank>>
    BY <1>1, <2>3, <2>6, GetIs DEF T!Get
  <2>8. T!ByName(reply)' = <<f, Blank>>
    <3>1. reply' = <<k, Blank>>
      BY <2>1, <2>2, <2>7
    <3> HIDE DEF f
    <3> QED
      BY <3>1, Replies DEF f
  <2>9. T!Contents'[f][1] = Blank
    BY <2>4, <2>6 DEF Meaning
  <2> HIDE DEF m, f
  <2>10. T!Promise!SetDefault(f, Blank)
    BY <1>2, <1>4, <2>4, <2>5, <2>8, <2>9 DEF T!Promise!SetDefault
  <2> QED
    BY <1>1, <2>2, <2>10 DEF T!Promise!Next
<1> QED
  BY <1>3, <1>4

LEMMA OverlapIndexed ==
  ASSUME T!TableAssumption, NEW t, Indexed(t) PROVE Indexed(T!AprOverlap(T!New, t))
<1> DEFINE N == Len(t.elts)
           pairs == [i \in 1..t.n |-> <<t.elts[i].key, t.elts[i].val>>]
<1>1. t.elts \in Seq(Entry) /\ t.n = N /\ N \in Nat
  BY Fields
<1>2. \A i \in 1..N : <<t.elts[i].key, t.elts[i].val>> \in TableKey \X TableValue
  <2> TAKE i \in 1..N
  <2>1. t.elts[i] \in Entry
    BY <1>1, ElementOfSeq
  <2> QED
    BY <2>1 DEF Entry
<1>3. pairs = [i \in 1..N |-> <<t.elts[i].key, t.elts[i].val>>]
  BY <1>1
<1> HIDE DEF N, pairs
<1>4. pairs \in Seq(TableKey \X TableValue)
  BY <1>1, <1>2, <1>3, IsASeq
<1>5. Indexed(T!SetAll(T!New, pairs))
  BY <1>4, NewIndexed, SetAllFolds
<1> QED
  BY <1>5 DEF T!AprOverlap, pairs

(* What only reads the table, or makes another.                            *)
LEMMA ReadStep ==
  ASSUME T!TableAssumption, TableInv,
         T!Copy \/ (\E items \in tableConf.items : T!Make(items)) \/ T!Iterate
  PROVE  TableInv' /\ T!Promise!Next
<1>1. TableType /\ Visiting /\ Indexed(tab) /\ Indexed(other)
  BY DEF TableInv, TableType
<1>2. tab' = tab /\ tableConf' = tableConf /\ T!ByName(reply)' = <<>>
  <2>1. tab' = tab /\ tableConf' = tableConf
    BY DEF T!Copy, T!Make, T!Iterate, T!IterNew, T!IterRaises, T!IterNext, T!IterStops
  <2>2. \E w \in {"read", "StopIteration", "RuntimeError"} : reply' = <<w>>
    BY DEF T!Copy, T!Make, T!Iterate, T!IterNew, T!IterRaises, T!IterNext, T!IterStops, T!Says
  <2> QED
    BY <2>1, <2>2, Replies
<1>3. T!Contents' = T!Contents
  BY <1>1, <1>2, ContentsAre
<1>4. T!Promise!Read
  BY <1>2, <1>3 DEF T!Promise!Read
<1>5. Indexed(other')
  <2>1. CASE T!Copy
    BY <1>1, <2>1, OverlapIndexed DEF T!Copy
  <2>2. CASE \E items \in tableConf.items : T!Make(items)
    <3>1. PICK items \in tableConf.items : T!Make(items)
      BY <2>2
    <3>2. items \in Seq((TableKey \X TableValue) \union {BadPair})
      BY ConfigFacts
    <3>3. PICK pairs \in Seq(TableKey \X TableValue) : T!Merged(T!New, items) = T!SetAll(T!New, pairs)
      BY <3>2, GoodPairs
    <3>4. Indexed(T!SetAll(T!New, pairs))
      BY NewIndexed, SetAllFolds
    <3> QED
      BY <3>1, <3>3, <3>4 DEF T!Make
  <2>3. CASE T!Iterate
    BY <1>1, <2>3 DEF T!Iterate, T!IterNew, T!IterRaises, T!IterNext, T!IterStops
  <2> QED
    BY <2>1, <2>2, <2>3
<1>6. tab.n \in Nat /\ T!Keys(tab) \in Seq(TableKey) /\ Len(T!Keys(tab)) = tab.n
      /\ \A i \in 1..tab.n : T!Keys(tab)[i] = tab.elts[i].key /\ tab.elts[i].key \in TableKey
  BY <1>1, Fields, KeysFacts
<1>7. T!Keys(tab)' = T!Keys(tab)
  BY <1>2 DEF T!Keys
<1> DEFINE IterOK(i) == /\ i \in [on : BOOLEAN, n : Nat, pos : Nat, keys : Seq(TableKey), cut : BOOLEAN]
                        /\ i.on /\ ~i.cut => /\ i.pos <= i.n /\ i.n <= tab.n
                                             /\ i.keys = SubSeq(T!Keys(tab), 1, i.pos)
<1>8. IterOK(it)
  BY <1>1 DEF TableType, Visiting
<1>9. IterOK(it')
  <2>1. CASE it' = it
    BY <1>8, <2>1
  <2>2. CASE T!IterNew
    <3>1. it' = [on |-> TRUE, n |-> tab.n, pos |-> 0, keys |-> <<>>, cut |-> FALSE]
      BY <2>2 DEF T!IterNew
    <3>2. SubSeq(T!Keys(tab), 1, 0) = <<>>
      <4> DEFINE a == T!Keys(tab)
      <4> HIDE DEF a
      <4>1. a \in Seq(TableKey)
        BY <1>6 DEF a
      <4> QED
        BY <4>1 DEF a
    <3>3. <<>> \in Seq(TableKey)
      OBVIOUS
    <3> QED
      BY <1>6, <3>1, <3>2, <3>3
  <2>3. CASE T!IterRaises \/ T!IterStops
    <3>1. it' = [on |-> FALSE, n |-> 0, pos |-> 0, keys |-> <<>>, cut |-> FALSE]
      BY <2>3 DEF T!IterRaises, T!IterStops, T!NoIter
    <3>2. <<>> \in Seq(TableKey)
      OBVIOUS
    <3> QED
      BY <3>1, <3>2
  <2>4. CASE T!IterNext
    <3> DEFINE p == it.pos
               a == T!Keys(tab)
               x == tab.elts[p + 1].key
    <3>1. /\ p < tab.n /\ it.n = tab.n /\ it.on
          /\ it' = [it EXCEPT !.pos = p + 1, !.keys = Append(it.keys, x)]
      BY <2>4 DEF T!IterNext, T!ChangedSize
    <3>2. /\ p \in Nat /\ it.keys \in Seq(TableKey)
          /\ it \in [on : BOOLEAN, n : Nat, pos : Nat, keys : Seq(TableKey), cut : BOOLEAN]
      BY <1>8
    <3>3. x \in TableKey /\ x = a[p + 1]
      <4>1. p + 1 \in 1..tab.n
        BY <1>6, <3>1, <3>2
      <4> QED
        BY <1>6, <4>1
    <3>4. Append(it.keys, x) \in Seq(TableKey)
      <4> HIDE DEF x
      <4> QED
        BY <3>2, <3>3
    <3>5. a \in Seq(TableKey) /\ Len(a) = tab.n
      BY <1>6
    <3> HIDE DEF a, x, p
    <3>6. Append(SubSeq(a, 1, p), a[p + 1]) = SubSeq(a, 1, p + 1)
      BY <1>6, <3>1, <3>2, <3>5
    <3>7. ~it.cut => it.keys = SubSeq(a, 1, p)
      BY <1>8, <3>1 DEF a, p
    <3>8. /\ it'.on = it.on /\ it'.n = it.n /\ it'.cut = it.cut /\ it'.pos = p + 1
          /\ it'.keys = Append(it.keys, x)
          /\ it' \in [on : BOOLEAN, n : Nat, pos : Nat, keys : Seq(TableKey), cut : BOOLEAN]
      <4> DEFINE kk == Append(it.keys, x)
                 q == p + 1
      <4>1. /\ it' = [it EXCEPT !.pos = q, !.keys = kk]
            /\ kk \in Seq(TableKey) /\ q \in Nat
        BY <3>1, <3>2, <3>4
      <4>2. DOMAIN it = {"on", "n", "pos", "keys", "cut"}
        BY <3>2
      <4> HIDE DEF kk, q
      <4>3. /\ it'.on = it.on /\ it'.n = it.n /\ it'.cut = it.cut /\ it'.pos = q /\ it'.keys = kk
        BY <4>1, <4>2
      <4>4. it' = [on |-> it.on, n |-> it.n, pos |-> q, keys |-> kk, cut |-> it.cut]
        BY <4>1, <3>2
      <4>5. it' \in [on : BOOLEAN, n : Nat, pos : Nat, keys : Seq(TableKey), cut : BOOLEAN]
        BY <4>1, <4>4, <3>2
      <4> QED
        BY <4>3, <4>5 DEF kk, q
    <3>9. ~it.cut => it'.keys = SubSeq(a, 1, it'.pos)
      BY <3>3, <3>6, <3>7, <3>8
    <3>10. it'.pos <= it'.n /\ it'.n <= tab.n
      BY <1>6, <3>1, <3>2, <3>8
    <3> QED
      BY <3>8, <3>9, <3>10 DEF a
  <2> QED
    BY <2>1, <2>2, <2>3, <2>4 DEF T!Copy, T!Make, T!Iterate
<1>10. TableInv'
  <2>1. TableType'
    BY <1>1, <1>2, <1>5, <1>9 DEF TableType
  <2>2. Visiting'
    BY <1>2, <1>7, <1>9 DEF Visiting
  <2> QED
    BY <2>1, <2>2 DEF TableInv
<1> QED
  BY <1>4, <1>10 DEF T!Promise!Next

LEMMA TableStep ==
  ASSUME T!TableAssumption, TableInv, [T!Next]_(T!vars)
  PROVE  TableInv' /\ [T!Promise!Next]_(T!Promise!vars)
<1>1. CASE UNCHANGED T!vars
  <2>1. tableConf' = tableConf /\ tab' = tab /\ other' = other /\ it' = it /\ reply' = reply
    BY <1>1 DEF T!vars
  <2>2. TableInv'
    BY <2>1 DEF TableInv, TableType, Visiting, T!Keys
  <2>3. T!Contents' = T!Contents
    BY <2>1, ContentsAre DEF TableInv, TableType
  <2>4. T!ByName(reply)' = T!ByName(reply)
    BY <2>1
  <2> QED
    BY <2>2, <2>3, <2>4 DEF T!Promise!vars
<1>2. CASE T!Next
  <2>1. ASSUME NEW k \in tableConf.keys, NEW v \in tableConf.values,
               T!AssSubscript(k, v) \/ T!Add(k, v) \/ T!SetDefaultTo(k, v)
        PROVE  TableInv' /\ T!Promise!Next
    BY <2>1, AssStep, AddStep, SetDefaultStep
  <2>2. ASSUME NEW k \in tableConf.keys, T!DelSubscript(k) \/ T!SetDefault(k)
        PROVE  TableInv' /\ T!Promise!Next
    BY <2>2, DelStep, SetDefaultStep
  <2>3. ASSUME NEW items \in tableConf.items, T!Update(items)
        PROVE  TableInv' /\ T!Promise!Next
    BY <2>3, UpdateStep
  <2>4. ASSUME T!Clear \/ T!UpdateFromTable PROVE TableInv' /\ T!Promise!Next
    BY <2>4, ClearStep, UpdateFromStep
  <2>5. ASSUME T!Copy \/ (\E items \in tableConf.items : T!Make(items)) \/ T!Iterate
        PROVE  TableInv' /\ T!Promise!Next
    BY <2>5, ReadStep
  <2>6. TableInv' /\ T!Promise!Next
    BY <1>2, <2>1, <2>2, <2>3, <2>4, <2>5 DEF T!Next, T!Write
  <2> QED
    BY <2>6
<1> QED
  BY <1>1, <1>2

LEMMA TableInit ==
  ASSUME T!TableAssumption, T!Init PROVE TableInv /\ T!Promise!Init
<1>1. Indexed(tab) /\ Indexed(other) /\ tab.elts = <<>>
  BY NewIndexed DEF T!Init
<1>2. <<>> \in Seq(TableKey)
  OBVIOUS
<1>3. TableInv
  BY <1>1, <1>2 DEF TableInv, TableType, Visiting, T!Init, T!NoIter
<1>4. T!Contents = [n \in {} |-> <<>>]
  BY <1>1, ContentsAre, EmptyMeaning
<1>5. T!ByName(reply) = <<>>
  BY Replies DEF T!Init
<1> QED
  BY <1>3, <1>4, <1>5 DEF T!Promise!Init

(* The invariant holds.                                                    *)
THEOREM TableInvariantHolds == T!TableAssumption => (T!Spec => []TableInv)
<1> SUFFICES ASSUME T!TableAssumption PROVE T!Spec => []TableInv
  OBVIOUS
<1>1. T!Init => TableInv
  BY TableInit
<1>2. TableInv /\ [T!Next]_(T!vars) => TableInv'
  BY TableStep
<1> QED
  BY <1>1, <1>2, PTL DEF T!Spec

(* What its readers tell is what its entries mean.                         *)
LEMMA InvReaders == ASSUME T!TableAssumption, T!FoldsAgree, TableInv PROVE ReadersAgree
<1> DEFINE s == tab.elts
<1>1. /\ Indexed(tab) /\ s \in Seq(Entry) /\ tab.n = Len(s) /\ Len(s) \in Nat
      /\ T!Contents = [n \in NamesIn(s) |-> Folded(s, n)]
  BY ContentsAre, Fields DEF TableInv, TableType, Meaning
<1>2. \A n : n \in NamesIn(s) <=> Folded(s, n) # <<>>
  BY <1>1, MeaningFacts
<1>3. ASSUME NEW k \in TableKey
      PROVE  LET there == CaseFold[k] \in DOMAIN T!Contents
             IN  /\ T!HasKey(tab, k) = there
                 /\ T!Subscript(tab, k) = IF there THEN T!Contents[CaseFold[k]] ELSE <<>>
                 /\ T!Get(tab, k) = IF there THEN <<T!Contents[CaseFold[k]][1]>> ELSE <<>>
  <2> DEFINE n == CaseFold[k]
             f == Folded(s, n)
  <2>1. /\ T!HasKey(tab, k) <=> n \in NamesIn(s)
        /\ T!Get(tab, k) = IF n \in NamesIn(s) THEN <<f[1]>> ELSE <<>>
        /\ T!Subscript(tab, k) = f
    BY <1>1, GetIs, SubscriptIs
  <2>2. DOMAIN T!Contents = NamesIn(s) /\ (n \in NamesIn(s) => T!Contents[n] = f)
    BY <1>1
  <2>3. n \notin NamesIn(s) => f = <<>>
    BY <1>2
  <2>4. T!HasKey(tab, k) \in BOOLEAN
    BY DEF T!HasKey
  <2> HIDE DEF n, f, s
  <2> QED
    BY <2>1, <2>2, <2>3, <2>4 DEF n
<1>4. T!Length(tab) = Len(T!Keys(tab)) /\ Len(T!Values(tab)) = Len(T!Pairs(tab))
  <2>1. T!Length(tab) = Len(T!Keys(tab))
    BY <1>1, KeysFacts DEF T!Length
  <2>2. Len(T!Values(tab)) = tab.n /\ Len(T!Pairs(tab)) = tab.n
    BY <1>1 DEF T!Values, T!Pairs
  <2> QED
    BY <2>1, <2>2
<1>5. ASSUME NEW p \in T!Range(T!Pairs(tab)) PROVE p[2] \in T!Range(T!Contents[CaseFold[p[1]]])
  <2>1. PICK i \in 1..Len(s) : p = <<s[i].key, s[i].val>>
    BY <1>1 DEF T!Range, T!Pairs
  <2> DEFINE k == s[i].key
             v == s[i].val
             S == T!Named(CaseFold[k])
             kept == Keep(s, S)
  <2>2. s[i] \in Entry
    BY <1>1, ElementOfSeq
  <2>3. s[i] \in S /\ p[1] = k /\ p[2] = v /\ CaseFold[k] \in NamesIn(s)
    BY <2>1, <2>2, TableKeeps DEF T!Named, NamesIn
  <2>4. PICK j \in 1..Len(kept) : kept[j] = s[i]
    <3> HIDE DEF s, S
    <3> QED
      BY <1>1, <2>3, KeepsEach
  <2>5. kept \in Seq(Entry)
    BY <1>1, KeepType
  <2>6. Folded(s, CaseFold[k]) = [m \in DOMAIN kept |-> kept[m].val]
    BY TableKeeps DEF Folded, T!ValuesOf
  <2>7. T!Contents[CaseFold[k]] = Folded(s, CaseFold[k])
    BY <1>1, <2>3
  <2>8. v \in T!Range(Folded(s, CaseFold[k]))
    <3>1. j \in DOMAIN kept /\ kept[j].val = v
      BY <2>4, <2>5
    <3> HIDE DEF kept, v
    <3> QED
      BY <2>6, <3>1 DEF T!Range
  <2> QED
    BY <2>3, <2>7, <2>8
<1>6. (\A n \in DOMAIN T!Contents : Len(T!Contents[n]) = 1) => T!Equal(tab, T!AprOverlap(T!New, tab))
  <2>1. (\A n \in DOMAIN T!Contents : Len(T!Contents[n]) = 1) => \A n \in NamesIn(s) : Len(Folded(s, n)) = 1
    BY <1>1
  <2>2. (\A n \in NamesIn(s) : Len(Folded(s, n)) = 1) => T!AprOverlap(T!New, tab) = tab
    BY <1>1, CopyIs
  <2> QED
    BY <2>1, <2>2 DEF T!Equal
<1> QED
  BY <1>3, <1>4, <1>5, <1>6 DEF ReadersAgree, T!ReadersAgree

(* For any keys at all, if the two comparisons of keys never differ, all   *)
(* readers of a table tell of the same contents: those that search by the  *)
(* index, which tableobject.c keeps in its own copies of the apr_table     *)
(* functions, and those that scan the array.                               *)
THEOREM Readers == T!TableAssumption /\ T!FoldsAgree => (T!Spec => []ReadersAgree)
<1> SUFFICES ASSUME T!TableAssumption, T!FoldsAgree PROVE T!Spec => []ReadersAgree
  OBVIOUS
<1>1. TableInv => ReadersAgree
  BY InvReaders
<1> QED
  BY <1>1, TableInvariantHolds, PTL

(* An iterator goes over the keys that are there, whatever is assigned to, *)
(* as long as no entry goes away.                                          *)
THEOREM Iterators == T!TableAssumption => (T!Spec => []Visits)
<1> SUFFICES ASSUME T!TableAssumption PROVE T!Spec => []Visits
  OBVIOUS
<1>1. TableInv => Visits
  BY DEF TableInv, Visiting, Visits, T!Visits, T!ChangedSize
<1> QED
  BY <1>1, TableInvariantHolds, PTL

(* The array and its index implement a multimap: every call does to the    *)
(* contents, and replies about names, what the same call of a multimap     *)
(* does.                                                                   *)
THEOREM TableImplementsMultimap == T!TableAssumption => (T!Spec => ImplementsMultimap)
<1> SUFFICES ASSUME T!TableAssumption PROVE T!Spec => ImplementsMultimap
  OBVIOUS
<1>1. T!Init => T!Promise!Init
  BY TableInit
<1>2. TableInv /\ [T!Next]_(T!vars) => [T!Promise!Next]_(T!Promise!vars)
  BY TableStep
<1> QED
  BY <1>1, <1>2, TableInvariantHolds, PTL DEF T!Spec, ImplementsMultimap, T!ImplementsMultimap, T!Promise!Spec

-----------------------------------------------------------------------------
(***************************************************************************)
(* Configurations.  What the records are made of.                          *)
(***************************************************************************)
Secs    == DOMAIN Sections
Pair    == OptionKey \X OptionValue
FlagVal == {C!Unset, "named", "0", "1"}
Dirs    == {C!Unset} \union {Sections[i].dir : i \in Secs}
ListEntry == [handler : Handler, dir : Dirs, pattern : BOOLEAN, loc : BOOLEAN, silent : BOOLEAN]
Record  == [options : Seq(Pair), flags : [C!Flag -> FlagVal], hlists : [C!Slot -> Seq(ListEntry)],
            filters : [Handler -> Handler \union {C!Unset}], dir : Dirs, loc : BOOLEAN]

\* What the log has of a directive.
Told == ({"option"} \X OptionKey \X OptionValue)
        \union ({"flag"} \X C!Flag \X {"named", "0", "1"})
        \union ({"handler"} \X (SUBSET C!Slot) \X (Seq(Handler) \ {<<>>}))
        \union ({"filter"} \X Handler \X Handler)
        \union ({"conn", "import"} \X {""} \X Handler)

LEMMA ConfigKeeps == /\ \A s, S : C!Keep(s, S) = Keep(s, S)
                     /\ \A S : C!Max(S) = T!Max(S)
                     /\ \A s : C!Last(s) = s[Len(s)]
                     /\ \A s, i : C!RemoveAt(s, i) = SubSeq(s, 1, i - 1) \o SubSeq(s, i + 1, Len(s))
BY DEF C!Keep, Keep, C!Max, T!Max, C!Last, C!RemoveAt

LEMMA ToldFacts ==
    ASSUME NEW d \in Told
    PROVE  /\ d[1] = "option" => d[2] \in OptionKey /\ d[3] \in OptionValue
           /\ d[1] = "flag" => d[2] \in C!Flag /\ d[3] \in {"named", "0", "1"}
           /\ d[1] = "handler" => d[2] \in SUBSET C!Slot /\ d[3] \in Seq(Handler) /\ d[3] # <<>>
<1>1. CASE d \in {"option"} \X OptionKey \X OptionValue
  BY <1>1
<1>2. CASE d \in {"flag"} \X C!Flag \X {"named", "0", "1"}
  BY <1>2
<1>3. CASE d \in {"handler"} \X (SUBSET C!Slot) \X (Seq(Handler) \ {<<>>})
  BY <1>3
<1>4. CASE d \in {"filter"} \X Handler \X Handler
  BY <1>4
<1>5. CASE d \in {"conn", "import"} \X {""} \X Handler
  BY <1>5
<1> QED
  BY <1>1, <1>2, <1>3, <1>4, <1>5 DEF Told

LEMMA AssignType ==
    ASSUME NEW t \in Seq(Pair), NEW k \in OptionKey, NEW v \in OptionValue
    PROVE  /\ C!Assign(t, k, v) \in Seq(Pair)
           /\ \A o : o \in Range(C!Assign(t, k, v)) <=> o = <<k, v>> \/ (o \in Range(t) /\ o[1] # k)
<1>1. <<k, v>> \in Pair /\ <<k, v>>[1] = k
  BY DEF Pair
<1>2. CASE \E i \in DOMAIN t : t[i][1] = k
  <2> DEFINE u == [i \in DOMAIN t |-> IF t[i][1] = k THEN <<k, v>> ELSE t[i]]
  <2>1. C!Assign(t, k, v) = u
    BY <1>2 DEF C!Assign
  <2>2. u \in Seq(Pair) /\ DOMAIN u = DOMAIN t
    <3>1. Len(t) \in Nat /\ DOMAIN t = 1..Len(t)
      OBVIOUS
    <3>2. \A i \in DOMAIN t : t[i] \in Pair
      OBVIOUS
    <3>3. u \in [1..Len(t) -> Pair]
      BY <1>1, <3>1, <3>2
    <3> HIDE DEF u
    <3> QED
      BY <3>1, <3>3, SeqDef
  <2>3. PICK j \in DOMAIN t : t[j][1] = k
    BY <1>2
  <2> \A i \in DOMAIN t : u[i] = IF t[i][1] = k THEN <<k, v>> ELSE t[i]
    OBVIOUS
  <2> HIDE DEF u
  <2>4. ASSUME NEW o PROVE (\E i \in DOMAIN t : o = u[i]) <=> o = <<k, v>> \/ ((\E i \in DOMAIN t : o = t[i]) /\ o[1] # k)
    BY <1>1, <2>3
  <2> HIDE DEF u
  <2> QED
    BY <2>1, <2>2, <2>4 DEF Range
<1>3. CASE ~\E i \in DOMAIN t : t[i][1] = k
  <2>1. C!Assign(t, k, v) = Append(t, <<k, v>>)
    BY <1>3 DEF C!Assign
  <2> DEFINE o1 == <<k, v>>
  <2> HIDE DEF o1
  <2>2. o1 \in Pair
    BY <1>1 DEF o1
  <2>3. /\ Append(t, o1) \in Seq(Pair) /\ DOMAIN Append(t, o1) = 1..Len(t) + 1
        /\ \A i \in 1..Len(t) : Append(t, o1)[i] = t[i]
        /\ Append(t, o1)[Len(t) + 1] = o1 /\ Len(t) \in Nat /\ DOMAIN t = 1..Len(t)
    BY <2>2, AppendFacts
  <2>4. ASSUME NEW o PROVE (\E i \in 1..Len(t) + 1 : o = Append(t, o1)[i]) <=> o = o1 \/ \E i \in 1..Len(t) : o = t[i]
    <3>1. \A i \in 1..Len(t) + 1 : i \in 1..Len(t) \/ i = Len(t) + 1
      BY <2>3
    <3>2. \A i \in 1..Len(t) : i \in 1..Len(t) + 1
      BY <2>3
    <3>3. Len(t) + 1 \in 1..Len(t) + 1
      BY <2>3
    <3> HIDE <2>1
    <3> QED
      BY <2>3, <3>1, <3>2, <3>3
  <2>5. \A o : (\E i \in 1..Len(t) : o = t[i]) => o[1] # k
    BY <1>3, <2>3
  <2>6. \A o : o \in Range(Append(t, o1)) <=> o = o1 \/ (o \in Range(t) /\ o[1] # k)
    <3>1. \A o : o \in Range(Append(t, o1)) <=> \E i \in 1..Len(t) + 1 : o = Append(t, o1)[i]
      <4> DEFINE a == Append(t, o1)
      <4>1. DOMAIN a = 1..Len(t) + 1
        BY <2>3
      <4> HIDE DEF a
      <4>2. \A o : o \in Range(a) <=> \E i \in 1..Len(t) + 1 : o = a[i]
        BY <4>1 DEF Range
      <4> QED
        BY <4>2 DEF a
    <3>2. \A o : o \in Range(t) <=> \E i \in 1..Len(t) : o = t[i]
      BY <2>3 DEF Range
    <3> QED
      BY <2>4, <2>5, <3>1, <3>2
  <2> QED
    BY <2>1, <2>3, <2>6 DEF o1
<1> QED
  BY <1>2, <1>3

LEMMA RemoveFacts ==
    ASSUME NEW t \in Seq(Pair), NEW i \in 1..Len(t)
    PROVE  /\ C!RemoveAt(t, i) \in Seq(Pair)
           /\ \A o \in Range(C!RemoveAt(t, i)) : o \in Range(t)
           /\ \A o \in Range(t) : o = t[i] \/ o \in Range(C!RemoveAt(t, i))
<1> DEFINE a == SubSeq(t, 1, i - 1)
           b == SubSeq(t, i + 1, Len(t))
           n == Len(t)
<1>1. n \in Nat /\ i \in Nat /\ i >= 1 /\ i <= n /\ DOMAIN t = 1..n
  OBVIOUS
<1>2. a \in Seq(Pair) /\ Len(a) = i - 1 /\ \A j \in 1..i - 1 : a[j] = t[j]
  BY <1>1
<1>3. b \in Seq(Pair) /\ Len(b) = n - i /\ \A j \in 1..n - i : b[j] = t[i + j]
  <2>1. i + 1 \in Int /\ n \in Int /\ \A j \in i + 1..n : t[j] \in Pair
    BY <1>1
  <2>2. /\ b \in Seq(Pair) /\ Len(b) = IF i + 1 <= n THEN n - (i + 1) + 1 ELSE 0
        /\ \A j \in 1..n - (i + 1) + 1 : b[j] = t[i + 1 + j - 1]
    <3> HIDE DEF n
    <3>1. b = SubSeq(t, i + 1, n)
      BY DEF n
    <3> HIDE DEF b
    <3> QED
      BY <2>1, <3>1, SubSeqProperties
  <2>3. n - (i + 1) + 1 = n - i /\ (~(i + 1 <= n) => n - i = 0)
    <3> HIDE DEF n
    <3> QED
      BY <1>1
  <2>4. \A j \in 1..n - i : i + 1 + j - 1 = i + j
    BY <1>1
  <2> HIDE DEF a, b, n
  <2> QED
    BY <2>2, <2>3, <2>4
<1> HIDE DEF a, b, n
<1>4. /\ a \o b \in Seq(Pair) /\ Len(a \o b) = Len(a) + Len(b)
      /\ \A j \in 1..Len(a) : (a \o b)[j] = a[j]
      /\ \A j \in Len(a) + 1..Len(a) + Len(b) : (a \o b)[j] = b[j - Len(a)]
  <2> DEFINE c == a \o b
  <2>1. /\ c \in Seq(Pair) /\ Len(c) = Len(a) + Len(b)
        /\ \A j \in 1..Len(a) + Len(b) : c[j] = IF j <= Len(a) THEN a[j] ELSE b[j - Len(a)]
    BY <1>2, <1>3, ConcatProperties
  <2> HIDE DEF c
  <2>2. Len(a) \in Nat /\ Len(b) \in Nat
    BY <1>2, <1>3
  <2>3. \A j \in 1..Len(a) : j \in 1..Len(a) + Len(b) /\ j <= Len(a)
    BY <2>2
  <2>4. \A j \in Len(a) + 1..Len(a) + Len(b) : j \in 1..Len(a) + Len(b) /\ ~(j <= Len(a))
    BY <2>2
  <2>5. (\A j \in 1..Len(a) : c[j] = a[j]) /\ \A j \in Len(a) + 1..Len(a) + Len(b) : c[j] = b[j - Len(a)]
    BY <2>1, <2>3, <2>4
  <2> QED
    BY <2>1, <2>5 DEF c
<1> DEFINE c == a \o b
<1>5. C!RemoveAt(t, i) = c
  BY ConfigKeeps DEF a, b
<1>6. c \in Seq(Pair) /\ Len(c) = n - 1 /\ DOMAIN c = 1..n - 1
  BY <1>1, <1>2, <1>3, <1>4
<1>7. \A j \in 1..i - 1 : c[j] = t[j]
  BY <1>2, <1>4
<1>8. \A j \in i..n - 1 : c[j] = t[j + 1]
  <2> SUFFICES ASSUME NEW j \in i..n - 1 PROVE c[j] = t[j + 1]
    OBVIOUS
  <2>1. j \in Len(a) + 1..Len(a) + Len(b) /\ j - Len(a) = j - i + 1 /\ j - i + 1 \in 1..n - i /\ i + (j - i + 1) = j + 1
    BY <1>1, <1>2, <1>3
  <2> QED
    BY <1>3, <1>4, <2>1
<1> HIDE DEF c
<1>9. ASSUME NEW j \in 1..n - 1 PROVE c[j] \in Range(t)
  <2>1. j \in 1..i - 1 \/ j \in i..n - 1
    BY <1>1
  <2>2. j \in DOMAIN t /\ j + 1 \in DOMAIN t
    BY <1>1
  <2> QED
    BY <1>7, <1>8, <2>1, <2>2 DEF Range
<1>10. ASSUME NEW j \in 1..n, j # i PROVE t[j] \in Range(c)
  <2>1. CASE j < i
    <3>1. j \in 1..i - 1 /\ j \in 1..n - 1
      BY <1>1, <2>1
    <3> QED
      BY <1>6, <1>7, <3>1 DEF Range
  <2>2. CASE ~(j < i)
    <3>1. PICK k \in i..n - 1 : j = k + 1
      <4>1. j - 1 \in i..n - 1 /\ j = (j - 1) + 1
        BY <1>1, <1>10, <2>2
      <4> QED
        BY <4>1
    <3>2. k \in 1..n - 1
      BY <1>1
    <3> QED
      BY <1>6, <1>8, <3>1, <3>2 DEF Range
  <2> QED
    BY <2>1, <2>2
<1>11. \A o \in Range(c) : o \in Range(t)
  BY <1>6, <1>9 DEF Range
<1>12. \A o \in Range(t) : o = t[i] \/ o \in Range(c)
  BY <1>1, <1>10 DEF Range
<1> QED
  BY <1>5, <1>6, <1>11, <1>12

(* What the definitions by recursion compute, step by step.               *)
LEMMA NamedIs ==
    ASSUME NEW ds \in Seq({d \in Told : d[1] = "handler"})
    PROVE  \E f \in [0..Len(ds) -> Seq(Handler)] :
               /\ f[0] = <<>>
               /\ \A n \in 0..Len(ds) - 1 : f[n + 1] = f[n] \o ds[n + 1][3]
               /\ C!Named(ds) = f[Len(ds)]
<1> DEFINE N == Len(ds)
           D == Seq(Handler)
           e == <<>>
           Step(n, d) == d \o ds[n + 1][3]
           G == [n \in 0..N - 1 |-> [d \in D |-> Step(n, d)]]
           Rec(f, n) == IF n = 0 THEN <<>> ELSE f[n - 1] \o ds[n][3]
           Is(f) == f = [n \in 0..N |-> Rec(f, n)]
<1>1. e \in D /\ N \in Nat
  OBVIOUS
<1>2. ASSUME NEW n \in 0..N - 1, NEW d \in D PROVE Step(n, d) \in D
  <2>1. n + 1 \in 1..Len(ds) /\ ds[n + 1] \in {d1 \in Told : d1[1] = "handler"}
    BY <1>1
  <2>2. ds[n + 1][3] \in Seq(Handler)
    BY <2>1, ToldFacts
  <2> QED
    BY <2>2, ConcatProperties
<1>3. ASSUME NEW f, NEW n \in 0..N - 1 PROVE Rec(f, n + 1) = Step(n, f[n])
  <2>1. n + 1 # 0 /\ n + 1 - 1 = n
    BY <1>1
  <2>2. ASSUME NEW k, k # 0 PROVE Rec(f, k) = f[k - 1] \o ds[k][3]
    BY <2>2
  <2> DEFINE k == n + 1
  <2>3. k # 0 /\ k - 1 = n
    BY <2>1
  <2> HIDE DEF k
  <2>4. Rec(f, k) = f[k - 1] \o ds[k][3]
    BY <2>3
  <2> HIDE DEF Rec
  <2>5. f[k - 1] = f[n]
    BY <2>3
  <2>6. Rec(f, k) = f[n] \o ds[k][3]
    BY Zenon, <2>4, <2>5
  <2> QED
    BY Zenon, <2>6 DEF k
<1>4. ASSUME NEW f PROVE Rec(f, 0) = e
  OBVIOUS
<1>5. G \in [0..N - 1 -> [D -> D]]
  <2> HIDE DEF Step, D, N
  <2> QED
    BY <1>2
<1>6. PICK h \in [0..N -> D] : Computes(h, N, e, G)
  <2> HIDE DEF G, D, e, N
  <2> QED
    BY <1>1, <1>5, Recursion
<1>7. ASSUME NEW n \in 0..N - 1, NEW d \in D PROVE G[n][d] = Step(n, d)
  <2> HIDE DEF Step, D, N
  <2> QED
    OBVIOUS
<1>8. h[0] = e /\ \A n \in 0..N - 1 : h[n + 1] = Step(n, h[n])
  <2> HIDE DEF G, Step, D, e, N
  <2>1. h[0] = e /\ \A n \in 0..N - 1 : h[n + 1] = G[n][h[n]]
    BY <1>6 DEF Computes
  <2>2. \A n \in 0..N - 1 : n \in 0..N /\ h[n] \in D
    BY <1>1, <1>6
  <2> QED
    BY <1>7, <2>1, <2>2
<1>9. ASSUME NEW n \in 0..N, n # 0 PROVE n - 1 \in 0..N - 1 /\ n = (n - 1) + 1
  BY <1>1, <1>9
<1>10. Is(h)
  <2> HIDE DEF Rec, Step, e, N, D
  <2>1. ASSUME NEW n \in 0..N PROVE h[n] = Rec(h, n)
    <3>1. CASE n = 0
      BY <1>4, <1>8, <3>1
    <3>2. CASE n # 0
      <4>1. PICK k \in 0..N - 1 : n = k + 1
        BY <1>9, <3>2
      <4> QED
        BY <1>3, <1>8, <4>1
    <3> QED
      BY <3>1, <3>2
  <2>2. h = [n \in 0..N |-> h[n]]
    OBVIOUS
  <2> QED
    BY <2>1, <2>2
<1> DEFINE f == CHOOSE c : Is(c)
<1>11. Is(f)
  <2> HIDE DEF Is
  <2> QED
    BY <1>10
<1>12. C!Named(ds) = f[N]
  BY DEF C!Named
<1> HIDE DEF f
<1>13. ASSUME NEW n \in 0..N PROVE f[n] = Rec(f, n)
  <2> HIDE DEF Rec, N
  <2> QED
    BY <1>11
<1>14. f = [n \in 0..N |-> f[n]]
  <2> HIDE DEF Rec, N
  <2> QED
    BY <1>11
<1> HIDE DEF Rec, Is, Step, N, G, D, e
<1>15. f[0] = e /\ \A n \in 0..N - 1 : f[n + 1] = Step(n, f[n])
  <2>1. 0 \in 0..N /\ \A n \in 0..N - 1 : n + 1 \in 0..N
    BY <1>1
  <2> QED
    BY <1>3, <1>4, <1>13, <2>1
<1>16. ASSUME NEW n \in 0..N PROVE f[n] = h[n]
  <2> DEFINE U == {i \in 0..N : f[i] = h[i]}
  <2>1. 0 \in U
    BY <1>1, <1>8, <1>15
  <2>2. ASSUME NEW i \in 0..N - 1, i \in U PROVE i + 1 \in U
    <3>1. i + 1 \in 0..N /\ f[i] = h[i]
      BY <1>1, <2>2
    <3> QED
      BY <1>8, <1>15, <3>1
  <2>3. n \in U
    <3> HIDE DEF U
    <3> QED
      BY <1>1, <2>1, <2>2, InductionUpTo
  <2> QED
    BY <2>3
<1>17. f \in [0..N -> D]
  BY <1>14, <1>16
<1>18. \A n \in 0..N - 1 : f[n + 1] = f[n] \o ds[n + 1][3]
  BY <1>15 DEF Step
<1> QED
  BY <1>12, <1>15, <1>17, <1>18 DEF N, D, e

LEMMA AssignAllIs ==
    ASSUME NEW t \in Seq(Pair), NEW new \in Seq(Pair)
    PROVE  \E f \in [0..Len(new) -> Seq(Pair)] :
               /\ f[0] = t
               /\ \A n \in 0..Len(new) - 1 : f[n + 1] = C!Assign(f[n], new[n + 1][1], new[n + 1][2])
               /\ C!AssignAll(t, new) = f[Len(new)]
<1> DEFINE N == Len(new)
           D == Seq(Pair)
           e == t
           Step(n, d) == C!Assign(d, new[n + 1][1], new[n + 1][2])
           G == [n \in 0..N - 1 |-> [d \in D |-> Step(n, d)]]
           Rec(f, n) == IF n = 0 THEN t ELSE C!Assign(f[n - 1], new[n][1], new[n][2])
           Is(f) == f = [n \in 0..N |-> Rec(f, n)]
<1>1. e \in D /\ N \in Nat
  OBVIOUS
<1>2. ASSUME NEW n \in 0..N - 1, NEW d \in D PROVE Step(n, d) \in D
  <2>1. n + 1 \in 1..Len(new) /\ new[n + 1] \in Pair
    BY <1>1
  <2>2. new[n + 1][1] \in OptionKey /\ new[n + 1][2] \in OptionValue
    BY <2>1 DEF Pair
  <2> QED
    BY <2>2, AssignType
<1>3. ASSUME NEW f, NEW n \in 0..N - 1 PROVE Rec(f, n + 1) = Step(n, f[n])
  <2>1. n + 1 # 0 /\ n + 1 - 1 = n
    BY <1>1
  <2>2. ASSUME NEW k, k # 0 PROVE Rec(f, k) = C!Assign(f[k - 1], new[k][1], new[k][2])
    BY <2>2
  <2> QED
    BY <2>1, <2>2
<1>4. ASSUME NEW f PROVE Rec(f, 0) = e
  OBVIOUS
<1>5. G \in [0..N - 1 -> [D -> D]]
  <2> HIDE DEF Step, D, N
  <2> QED
    BY <1>2
<1>6. PICK h \in [0..N -> D] : Computes(h, N, e, G)
  <2> HIDE DEF G, D, e, N
  <2> QED
    BY <1>1, <1>5, Recursion
<1>7. ASSUME NEW n \in 0..N - 1, NEW d \in D PROVE G[n][d] = Step(n, d)
  <2> HIDE DEF Step, D, N
  <2> QED
    OBVIOUS
<1>8. h[0] = e /\ \A n \in 0..N - 1 : h[n + 1] = Step(n, h[n])
  <2> HIDE DEF G, Step, D, e, N
  <2>1. h[0] = e /\ \A n \in 0..N - 1 : h[n + 1] = G[n][h[n]]
    BY <1>6 DEF Computes
  <2>2. \A n \in 0..N - 1 : n \in 0..N /\ h[n] \in D
    BY <1>1, <1>6
  <2> QED
    BY <1>7, <2>1, <2>2
<1>9. ASSUME NEW n \in 0..N, n # 0 PROVE n - 1 \in 0..N - 1 /\ n = (n - 1) + 1
  BY <1>1, <1>9
<1>10. Is(h)
  <2> HIDE DEF Rec, Step, e, N, D
  <2>1. ASSUME NEW n \in 0..N PROVE h[n] = Rec(h, n)
    <3>1. CASE n = 0
      BY <1>4, <1>8, <3>1
    <3>2. CASE n # 0
      <4>1. PICK k \in 0..N - 1 : n = k + 1
        BY <1>9, <3>2
      <4> QED
        BY <1>3, <1>8, <4>1
    <3> QED
      BY <3>1, <3>2
  <2>2. h = [n \in 0..N |-> h[n]]
    OBVIOUS
  <2> QED
    BY <2>1, <2>2
<1> DEFINE f == CHOOSE c : Is(c)
<1>11. Is(f)
  <2> HIDE DEF Is
  <2> QED
    BY <1>10
<1>12. C!AssignAll(t, new) = f[N]
  BY DEF C!AssignAll
<1> HIDE DEF f
<1>13. ASSUME NEW n \in 0..N PROVE f[n] = Rec(f, n)
  <2> HIDE DEF Rec, N
  <2> QED
    BY <1>11
<1>14. f = [n \in 0..N |-> f[n]]
  <2> HIDE DEF Rec, N
  <2> QED
    BY <1>11
<1> HIDE DEF Rec, Is, Step, N, G, D, e
<1>15. f[0] = e /\ \A n \in 0..N - 1 : f[n + 1] = Step(n, f[n])
  <2>1. 0 \in 0..N /\ \A n \in 0..N - 1 : n + 1 \in 0..N
    BY <1>1
  <2> QED
    BY <1>3, <1>4, <1>13, <2>1
<1>16. ASSUME NEW n \in 0..N PROVE f[n] = h[n]
  <2> DEFINE U == {i \in 0..N : f[i] = h[i]}
  <2>1. 0 \in U
    BY <1>1, <1>8, <1>15
  <2>2. ASSUME NEW i \in 0..N - 1, i \in U PROVE i + 1 \in U
    <3>1. i + 1 \in 0..N /\ f[i] = h[i]
      BY <1>1, <2>2
    <3> QED
      BY <1>8, <1>15, <3>1
  <2>3. n \in U
    <3> HIDE DEF U
    <3> QED
      BY <1>1, <2>1, <2>2, InductionUpTo
  <2> QED
    BY <2>3
<1>17. f \in [0..N -> D]
  BY <1>14, <1>16
<1>18. \A n \in 0..N - 1 : f[n + 1] = C!Assign(f[n], new[n + 1][1], new[n + 1][2])
  BY <1>15 DEF Step
<1> QED
  BY <1>12, <1>15, <1>17, <1>18 DEF N, D, e

LEMMA UnsetIs ==
    ASSUME NEW t \in Seq(Pair)
    PROVE  \E f \in [0..Len(t) -> Seq(Pair)] :
               /\ f[0] = t
               /\ \A n \in 0..Len(t) - 1 : f[n + 1] = IF n + 1 <= Len(f[n]) /\ f[n][n + 1][2] = "" THEN C!RemoveAt(f[n], n + 1) ELSE f[n]
               /\ C!UnsetEmpty(t) = f[Len(t)]
<1> DEFINE N == Len(t)
           D == Seq(Pair)
           e == t
           Step(n, d) == IF n + 1 <= Len(d) /\ d[n + 1][2] = "" THEN C!RemoveAt(d, n + 1) ELSE d
           G == [n \in 0..N - 1 |-> [d \in D |-> Step(n, d)]]
           Rec(f, n) == IF n = 0 THEN t ELSE IF n <= Len(f[n - 1]) /\ f[n - 1][n][2] = "" THEN C!RemoveAt(f[n - 1], n) ELSE f[n - 1]
           Is(f) == f = [n \in 0..N |-> Rec(f, n)]
<1>1. e \in D /\ N \in Nat
  OBVIOUS
<1>2. ASSUME NEW n \in 0..N - 1, NEW d \in D PROVE Step(n, d) \in D
  <2>1. Len(d) \in Nat /\ (n + 1 <= Len(d) => n + 1 \in 1..Len(d))
    BY <1>1
  <2> QED
    BY <2>1, RemoveFacts
<1>3. ASSUME NEW f, NEW n \in 0..N - 1 PROVE Rec(f, n + 1) = Step(n, f[n])
  <2>1. n + 1 # 0 /\ n + 1 - 1 = n
    BY <1>1
  <2>2. ASSUME NEW k, k # 0 PROVE Rec(f, k) = IF k <= Len(f[k - 1]) /\ f[k - 1][k][2] = "" THEN C!RemoveAt(f[k - 1], k) ELSE f[k - 1]
    BY <2>2
  <2> QED
    BY <2>1, <2>2
<1>4. ASSUME NEW f PROVE Rec(f, 0) = e
  OBVIOUS
<1>5. G \in [0..N - 1 -> [D -> D]]
  <2> HIDE DEF Step, D, N
  <2> QED
    BY <1>2
<1>6. PICK h \in [0..N -> D] : Computes(h, N, e, G)
  <2> HIDE DEF G, D, e, N
  <2> QED
    BY <1>1, <1>5, Recursion
<1>7. ASSUME NEW n \in 0..N - 1, NEW d \in D PROVE G[n][d] = Step(n, d)
  <2> HIDE DEF Step, D, N
  <2> QED
    OBVIOUS
<1>8. h[0] = e /\ \A n \in 0..N - 1 : h[n + 1] = Step(n, h[n])
  <2> HIDE DEF G, Step, D, e, N
  <2>1. h[0] = e /\ \A n \in 0..N - 1 : h[n + 1] = G[n][h[n]]
    BY <1>6 DEF Computes
  <2>2. \A n \in 0..N - 1 : n \in 0..N /\ h[n] \in D
    BY <1>1, <1>6
  <2> QED
    BY <1>7, <2>1, <2>2
<1>9. ASSUME NEW n \in 0..N, n # 0 PROVE n - 1 \in 0..N - 1 /\ n = (n - 1) + 1
  BY <1>1, <1>9
<1>10. Is(h)
  <2> HIDE DEF Rec, Step, e, N, D
  <2>1. ASSUME NEW n \in 0..N PROVE h[n] = Rec(h, n)
    <3>1. CASE n = 0
      BY <1>4, <1>8, <3>1
    <3>2. CASE n # 0
      <4>1. PICK k \in 0..N - 1 : n = k + 1
        BY <1>9, <3>2
      <4> QED
        BY <1>3, <1>8, <4>1
    <3> QED
      BY <3>1, <3>2
  <2>2. h = [n \in 0..N |-> h[n]]
    OBVIOUS
  <2> QED
    BY <2>1, <2>2
<1> DEFINE f == CHOOSE c : Is(c)
<1>11. Is(f)
  <2> HIDE DEF Is
  <2> QED
    BY <1>10
<1>12. C!UnsetEmpty(t) = f[N]
  BY DEF C!UnsetEmpty
<1> HIDE DEF f
<1>13. ASSUME NEW n \in 0..N PROVE f[n] = Rec(f, n)
  <2> HIDE DEF Rec, N
  <2> QED
    BY <1>11
<1>14. f = [n \in 0..N |-> f[n]]
  <2> HIDE DEF Rec, N
  <2> QED
    BY <1>11
<1> HIDE DEF Rec, Is, Step, N, G, D, e
<1>15. f[0] = e /\ \A n \in 0..N - 1 : f[n + 1] = Step(n, f[n])
  <2>1. 0 \in 0..N /\ \A n \in 0..N - 1 : n + 1 \in 0..N
    BY <1>1
  <2> QED
    BY <1>3, <1>4, <1>13, <2>1
<1>16. ASSUME NEW n \in 0..N PROVE f[n] = h[n]
  <2> DEFINE U == {i \in 0..N : f[i] = h[i]}
  <2>1. 0 \in U
    BY <1>1, <1>8, <1>15
  <2>2. ASSUME NEW i \in 0..N - 1, i \in U PROVE i + 1 \in U
    <3>1. i + 1 \in 0..N /\ f[i] = h[i]
      BY <1>1, <2>2
    <3> QED
      BY <1>8, <1>15, <3>1
  <2>3. n \in U
    <3> HIDE DEF U
    <3> QED
      BY <1>1, <2>1, <2>2, InductionUpTo
  <2> QED
    BY <2>3
<1>17. f \in [0..N -> D]
  BY <1>14, <1>16
<1>18. \A n \in 0..N - 1 : f[n + 1] = IF n + 1 <= Len(f[n]) /\ f[n][n + 1][2] = "" THEN C!RemoveAt(f[n], n + 1) ELSE f[n]
  BY <1>15 DEF Step
<1> QED
  BY <1>12, <1>15, <1>17, <1>18 DEF N, D, e

LEMMA MergeType == ASSUME NEW c \in Record, NEW m \in Record PROVE C!Merge(c, m) \in Record
<1>1. C!Overlap(c.options, m.options) \in Seq(Pair)
  <2>1. c.options \in Seq(Pair) /\ m.options \in Seq(Pair)
    BY DEF Record
  <2>2. PICK f \in [0..Len(m.options) -> Seq(Pair)] : C!AssignAll(c.options, m.options) = f[Len(m.options)]
    BY <2>1, AssignAllIs
  <2>3. Len(m.options) \in 0..Len(m.options)
    BY <2>1
  <2> QED
    BY <2>2, <2>3 DEF C!Overlap
<1>2. C!Over(c.flags, m.flags, C!Unset) \in [C!Flag -> FlagVal]
  BY DEF C!Over, Record
<1>3. C!Over(c.hlists, m.hlists, <<>>) \in [C!Slot -> Seq(ListEntry)]
  BY DEF C!Over, Record
<1>4. C!Over(c.filters, m.filters, C!Unset) \in [Handler -> Handler \union {C!Unset}]
  BY DEF C!Over, Record
<1>5. (IF m.dir = C!Unset THEN c.dir ELSE m.dir) \in Dirs /\ (IF m.dir = C!Unset THEN c.loc ELSE m.loc) \in BOOLEAN
  BY DEF Record
<1> QED
  BY <1>1, <1>2, <1>3, <1>4, <1>5 DEF C!Merge, Record

(* What is merged, section after section, up to the record of a request.   *)
Chains(f, g, with) ==
    /\ f \in [0..Len(Sections) -> Record] /\ f[0] = local[g]
    /\ \A n \in 0..Len(Sections) - 1 :
           f[n + 1] = IF n + 1 \in with THEN C!Merge(f[n], local[Sections[n + 1].name]) ELSE f[n]
    /\ C!Merged(g, with) = f[Len(Sections)]

LEMMA MergedIs ==
    ASSUME NEW g \in C!Server, NEW with \in SUBSET Secs, Sections \in Seq([name : STRING, location : BOOLEAN, pattern : BOOLEAN, dir : STRING]),
           local \in [C!Scope -> Record]
    PROVE  \E f : Chains(f, g, with)
<1> DEFINE N == Len(Sections)
           D == Record
           e == local[g]
           Step(n, d) == IF n + 1 \in with THEN C!Merge(d, local[Sections[n + 1].name]) ELSE d
           G == [n \in 0..N - 1 |-> [d \in D |-> Step(n, d)]]
           Rec(f, n) == IF n = 0 THEN local[g] ELSE IF n \in with THEN C!Merge(f[n - 1], local[Sections[n].name]) ELSE f[n - 1]
           Is(f) == f = [n \in 0..N |-> Rec(f, n)]
<1>1. e \in D /\ N \in Nat
  BY DEF C!Scope
<1>2. ASSUME NEW n \in 0..N - 1, NEW d \in D PROVE Step(n, d) \in D
  <2>1. n + 1 \in with => Sections[n + 1].name \in C!Scope
    BY DEF Secs, C!Scope, C!Names, C!Range
  <2> QED
    BY <2>1, MergeType
<1>3. ASSUME NEW f, NEW n \in 0..N - 1 PROVE Rec(f, n + 1) = Step(n, f[n])
  <2>1. n + 1 # 0 /\ n + 1 - 1 = n
    BY <1>1
  <2>2. ASSUME NEW k, k # 0 PROVE Rec(f, k) = IF k \in with THEN C!Merge(f[k - 1], local[Sections[k].name]) ELSE f[k - 1]
    BY <2>2
  <2> QED
    BY <2>1, <2>2
<1>4. ASSUME NEW f PROVE Rec(f, 0) = e
  OBVIOUS
<1>5. G \in [0..N - 1 -> [D -> D]]
  <2> HIDE DEF Step, D, N
  <2> QED
    BY <1>2
<1>6. PICK h \in [0..N -> D] : Computes(h, N, e, G)
  <2> HIDE DEF G, D, e, N
  <2> QED
    BY <1>1, <1>5, Recursion
<1>7. ASSUME NEW n \in 0..N - 1, NEW d \in D PROVE G[n][d] = Step(n, d)
  <2> HIDE DEF Step, D, N
  <2> QED
    OBVIOUS
<1>8. h[0] = e /\ \A n \in 0..N - 1 : h[n + 1] = Step(n, h[n])
  <2> HIDE DEF G, Step, D, e, N
  <2>1. h[0] = e /\ \A n \in 0..N - 1 : h[n + 1] = G[n][h[n]]
    BY <1>6 DEF Computes
  <2>2. \A n \in 0..N - 1 : n \in 0..N /\ h[n] \in D
    BY <1>1, <1>6
  <2> QED
    BY <1>7, <2>1, <2>2
<1>9. ASSUME NEW n \in 0..N, n # 0 PROVE n - 1 \in 0..N - 1 /\ n = (n - 1) + 1
  BY <1>1, <1>9
<1>10. Is(h)
  <2> HIDE DEF Rec, Step, e, N, D
  <2>1. ASSUME NEW n \in 0..N PROVE h[n] = Rec(h, n)
    <3>1. CASE n = 0
      BY <1>4, <1>8, <3>1
    <3>2. CASE n # 0
      <4>1. PICK k \in 0..N - 1 : n = k + 1
        BY <1>9, <3>2
      <4> QED
        BY <1>3, <1>8, <4>1
    <3> QED
      BY <3>1, <3>2
  <2>2. h = [n \in 0..N |-> h[n]]
    OBVIOUS
  <2> QED
    BY <2>1, <2>2
<1> DEFINE f == CHOOSE c : Is(c)
<1>11. Is(f)
  <2> HIDE DEF Is
  <2> QED
    BY <1>10
<1>12. C!Merged(g, with) = f[N]
  BY DEF C!Merged
<1> HIDE DEF f
<1>13. ASSUME NEW n \in 0..N PROVE f[n] = Rec(f, n)
  <2> HIDE DEF Rec, N
  <2> QED
    BY <1>11
<1>14. f = [n \in 0..N |-> f[n]]
  <2> HIDE DEF Rec, N
  <2> QED
    BY <1>11
<1> HIDE DEF Rec, Is, Step, N, G, D, e
<1>15. f[0] = e /\ \A n \in 0..N - 1 : f[n + 1] = Step(n, f[n])
  <2>1. 0 \in 0..N /\ \A n \in 0..N - 1 : n + 1 \in 0..N
    BY <1>1
  <2> QED
    BY <1>3, <1>4, <1>13, <2>1
<1>16. ASSUME NEW n \in 0..N PROVE f[n] = h[n]
  <2> DEFINE U == {i \in 0..N : f[i] = h[i]}
  <2>1. 0 \in U
    BY <1>1, <1>8, <1>15
  <2>2. ASSUME NEW i \in 0..N - 1, i \in U PROVE i + 1 \in U
    <3>1. i + 1 \in 0..N /\ f[i] = h[i]
      BY <1>1, <2>2
    <3> QED
      BY <1>8, <1>15, <3>1
  <2>3. n \in U
    <3> HIDE DEF U
    <3> QED
      BY <1>1, <2>1, <2>2, InductionUpTo
  <2> QED
    BY <2>3
<1>17. f \in [0..N -> D]
  BY <1>14, <1>16
<1>18. \A n \in 0..N - 1 : f[n + 1] = IF n + 1 \in with THEN C!Merge(f[n], local[Sections[n + 1].name]) ELSE f[n]
  BY <1>15 DEF Step
<1>19. Chains(f, g, with)
  BY <1>12, <1>15, <1>17, <1>18 DEF N, D, e, Chains
<1> QED
  BY <1>19

(***************************************************************************)
(* The inductive invariant: what a record says, from the log of what was   *)
(* read, whether it is that of a scope or merged from those of several.    *)
(***************************************************************************)
ConfigType ==
    /\ configConf \in ConfigConfigs
    /\ stage \in {"reading", "serving"}
    /\ made \subseteq C!Names
    /\ local \in [C!Scope -> Record]
    /\ log \in [C!Scope -> Seq(Told)]
    /\ requests \in [Request -> [server : C!Server \union {C!Unset}, matched : SUBSET Secs,
                                 shared : BOOLEAN, own : Record, wrote : BOOLEAN]]

\* Only sections with a record have directives; requests come when all is read.
Begun ==
    /\ \A s \in C!Names : log[s] # <<>> => s \in made
    /\ \A r \in Request : C!On(r) => /\ stage = "serving"
                                     /\ requests[r].shared <=> C!With(requests[r].matched) = {}

Where(s) == C!DetermineContext(s)

\* What a scope has of directives, and what the innermost has.
FlagsOf(s)   == [f \in C!Flag |-> C!Read(s, C!Flags(f))]
ListsOf(s)   == [x \in C!Slot |-> C!Read(s, C!Handlers(x))]
OptionsOf(s) == [k \in OptionKey |-> C!Read(s, C!Options(k))]
FlagsIn(g, m)   == [f \in C!Flag |-> C!Innermost(g, m, C!Flags(f))]
ListsIn(g, m)   == [x \in C!Slot |-> C!Innermost(g, m, C!Handlers(x))]
OptionsIn(g, m) == [k \in OptionKey |-> C!Innermost(g, m, C!Options(k))]
ScopesIn(g, m)  == {"main", g} \union {Sections[i].name : i \in m}

FlagsSay(c, S) == \A f \in C!Flag : c.flags[f] = C!FlagIs(S[f])

\* A list has what the directives ds name, with the path of the scope s.
Listed(l, s, ds) ==
    /\ l = <<>> <=> ds = <<>>
    /\ Len(l) = Len(C!Named(ds))
    /\ \A i \in DOMAIN l : /\ l[i].handler = C!Named(ds)[i]
                           /\ l[i].dir = Where(s).dir /\ l[i].pattern = Where(s).pattern
                           /\ l[i].loc = Where(s).loc

ListsSay(c, S, W) ==
    \A x \in C!Slot : \E s \in W : /\ Listed(c.hlists[x], s, S[x])
                                   /\ \A d \in Range(S[x]) : d \in Range(log[s])

\* Whatever has a value is there; of a scope also what has none.
OptionsSay(c, S) ==
    /\ \A o \in Range(c.options) : o[2] = C!Option(S[o[1]])
    /\ \A k \in OptionKey : C!Option(S[k]) # "" => <<k, C!Option(S[k])>> \in Range(c.options)

OptionsHas(c, S) ==
    \A k \in OptionKey : S[k] # <<>> <=> \E o \in Range(c.options) : o[1] = k

HasHandler(s) == \E d \in Range(log[s]) : d[1] = "handler"

LocOf(s) == local[s].dir = Where(s).dir /\ (local[s].loc => Where(s).loc /\ HasHandler(s))

\* The record of a request is a location's, if at all, for its innermost section with a record.
LocSays(c, with) ==
    c.loc => /\ with # {}
             /\ Sections[C!Max(with)].location /\ c.dir = Sections[C!Max(with)].dir
             /\ HasHandler(Sections[C!Max(with)].name)

\* A record of one scope, and one that requests are served by.
Faithful(s) ==
    /\ FlagsSay(local[s], FlagsOf(s))
    /\ ListsSay(local[s], ListsOf(s), {s})
    /\ OptionsSay(local[s], OptionsOf(s)) /\ OptionsHas(local[s], OptionsOf(s))
    /\ LocOf(s)

Serves(c, g, m) ==
    /\ FlagsSay(c, FlagsIn(g, m))
    /\ ListsSay(c, ListsIn(g, m), ScopesIn(g, m))
    /\ LocSays(c, C!With(m))

Scopes ==
    /\ stage = "reading" => \A g \in C!Server : Faithful(g)
    /\ \A i \in Secs : Faithful(Sections[i].name)

Served ==
    stage = "serving" =>
        /\ \A g \in C!Server : Serves(local[g], g, {})
        /\ \A r \in Request : C!On(r) /\ ~requests[r].shared =>
                                  Serves(requests[r].own, requests[r].server, requests[r].matched)

\* Where requests leave the options of a server alone.
Optioned ==
    stage = "serving" /\ ~SharedWrites =>
        /\ \A g \in C!Server : OptionsSay(local[g], OptionsIn(g, {}))
        /\ \A r \in Request :
               C!On(r) /\ ~requests[r].shared /\ ~requests[r].wrote =>
                   OptionsSay(requests[r].own, OptionsIn(requests[r].server, requests[r].matched))

ConfigInv == ConfigType /\ Begun /\ Scopes /\ Served /\ Optioned

LEMMA SectionFacts ==
    ASSUME C!ConfigAssumption
    PROVE  /\ Len(Sections) \in Nat /\ Secs = 1..Len(Sections)
           /\ \A i \in Secs : /\ Sections[i].name \in C!Scope /\ Sections[i].name \notin C!Server
                              /\ Sections[i].dir \in Dirs /\ Sections[i].dir # C!Unset
                              /\ Sections[i].pattern \in BOOLEAN /\ Sections[i].location \in BOOLEAN
           /\ \A s : s \in C!Scope <=> s \in C!Server \/ \E i \in Secs : s = Sections[i].name
           /\ "main" \in C!Scope /\ "vhost" \in C!Scope /\ C!Server = {"main", "vhost"}
<1> DEFINE R == [name : STRING, location : BOOLEAN, pattern : BOOLEAN, dir : STRING]
<1>a. Sections \in Seq(R)
  BY DEF C!ConfigAssumption
<1> HIDE DEF R
<1>1. Len(Sections) \in Nat /\ Secs = 1..Len(Sections)
  BY <1>a DEF Secs
<1>2. \A i \in Secs : Sections[i] \in R
  BY <1>a DEF Secs
<1> USE DEF R
<1>3. \A i \in Secs : Sections[i].pattern \in BOOLEAN /\ Sections[i].location \in BOOLEAN
  BY <1>2
<1>4. \A i \in Secs : Sections[i].name \notin C!Server /\ Sections[i].dir \in Dirs /\ Sections[i].dir # C!Unset
  BY DEF C!ConfigAssumption, Secs, Dirs
<1>5. \A s : s \in C!Scope <=> s \in C!Server \/ \E i \in Secs : s = Sections[i].name
  <2>1. \A s : s \in C!Names <=> \E i \in Secs : s = Sections[i].name
    BY DEF C!Names, C!Range, Secs
  <2> QED
    BY <2>1 DEF C!Scope
<1>6. "main" \in C!Server /\ "vhost" \in C!Server /\ C!Server = {"main", "vhost"}
  BY DEF C!Server
<1> QED
  BY <1>1, <1>3, <1>4, <1>5, <1>6

LEMMA WhereFacts ==
    ASSUME C!ConfigAssumption
    PROVE  /\ \A g \in C!Server : Where(g).dir = C!Unset /\ Where(g).loc = FALSE /\ Where(g).pattern = FALSE
           /\ \A i \in Secs : /\ Where(Sections[i].name).dir = Sections[i].dir
                              /\ Where(Sections[i].name).loc = Sections[i].location
                              /\ Where(Sections[i].name).pattern = Sections[i].pattern
           /\ \A s \in C!Scope : Where(s).dir \in Dirs /\ Where(s).loc \in BOOLEAN /\ Where(s).pattern \in BOOLEAN
<1>1. ASSUME NEW g \in C!Server PROVE Where(g).dir = C!Unset /\ Where(g).loc = FALSE /\ Where(g).pattern = FALSE
  BY DEF Where, C!DetermineContext
<1>2. ASSUME NEW i \in Secs
      PROVE  /\ Where(Sections[i].name).dir = Sections[i].dir
             /\ Where(Sections[i].name).loc = Sections[i].location
             /\ Where(Sections[i].name).pattern = Sections[i].pattern
  <2> DEFINE S == C!Range(Sections)
             x == CHOOSE y \in S : y.name = Sections[i].name
  <2>1. Sections[i] \in S
    BY DEF C!Range, Secs
  <2>2. x \in S /\ x.name = Sections[i].name
    BY <2>1
  <2>3. PICK j \in Secs : x = Sections[j]
    BY <2>2 DEF C!Range, Secs
  <2>4. x = Sections[i]
    <3> HIDE DEF x, S
    <3> QED
      BY <2>2, <2>3 DEF C!ConfigAssumption, Secs
  <2>5. Where(Sections[i].name) = [dir |-> x.dir, pattern |-> x.pattern, loc |-> x.location]
    <3>1. Sections[i].name \notin C!Server
      BY SectionFacts
    <3> QED
      BY <3>1 DEF Where, C!DetermineContext
  <2> HIDE DEF x
  <2> QED
    BY <2>4, <2>5
<1>3. ASSUME NEW s \in C!Scope PROVE Where(s).dir \in Dirs /\ Where(s).loc \in BOOLEAN /\ Where(s).pattern \in BOOLEAN
  <2>1. CASE s \in C!Server
    BY <1>1, <2>1 DEF Dirs
  <2>2. CASE \E i \in Secs : s = Sections[i].name
    BY <1>2, <2>2, SectionFacts
  <2> QED
    BY <2>1, <2>2, SectionFacts
<1> QED
  BY <1>1, <1>2, <1>3

LEMMA MaxSection ==
    ASSUME C!ConfigAssumption, NEW S \in SUBSET Secs, S # {}
    PROVE  C!Max(S) \in S /\ \A x \in S : x <= C!Max(S)
<1>1. Len(Sections) \in Nat /\ S \in SUBSET (1..Len(Sections))
  BY SectionFacts
<1> QED
  BY <1>1, Extremes, ConfigKeeps

LEMMA MaxMore ==
    ASSUME C!ConfigAssumption, NEW n \in Secs, NEW S \in SUBSET (1..n - 1)
    PROVE  C!Max(S \union {n}) = n
<1>1. n \in Nat /\ S \union {n} \in SUBSET Secs /\ S \union {n} # {}
  <2>1. n \in Nat /\ n <= Len(Sections) /\ Len(Sections) \in Nat /\ Secs = 1..Len(Sections)
    BY SectionFacts
  <2>2. 1..n - 1 \subseteq Secs
    BY <2>1
  <2> QED
    BY <2>1, <2>2
<1>2. C!Max(S \union {n}) \in S \union {n} /\ n <= C!Max(S \union {n})
  BY <1>1, MaxSection
<1>3. \A x \in S : ~(n <= x)
  BY <1>1
<1> QED
  BY <1>2, <1>3

LEMMA InnerNone ==
    ASSUME NEW g, NEW D
    PROVE  C!Innermost(g, {}, D) = IF C!Read(g, D) # <<>> THEN C!Read(g, D) ELSE C!Read("main", D)
BY DEF C!Innermost

LEMMA InnerMore ==
    ASSUME C!ConfigAssumption, NEW g, NEW D, NEW n \in Secs, NEW m \in SUBSET (1..n - 1)
    PROVE  C!Innermost(g, m \union {n}, D)
               = IF C!Read(Sections[n].name, D) # <<>> THEN C!Read(Sections[n].name, D)
                 ELSE C!Innermost(g, m, D)
<1> DEFINE R(i) == C!Read(Sections[i].name, D)
           a == {i \in m \union {n} : R(i) # <<>>}
           b == {i \in m : R(i) # <<>>}
<1>1. /\ C!Innermost(g, m \union {n}, D)
             = IF a # {} THEN R(C!Max(a)) ELSE IF C!Read(g, D) # <<>> THEN C!Read(g, D) ELSE C!Read("main", D)
      /\ C!Innermost(g, m, D)
             = IF b # {} THEN R(C!Max(b)) ELSE IF C!Read(g, D) # <<>> THEN C!Read(g, D) ELSE C!Read("main", D)
  BY DEF C!Innermost
<1>2. CASE R(n) # <<>>
  <2>1. a = b \union {n} /\ b \in SUBSET (1..n - 1)
    BY <1>2
  <2>2. C!Max(a) = n
    <3> HIDE DEF a, b
    <3> QED
      BY <2>1, MaxMore
  <2> HIDE DEF a, b
  <2> QED
    BY <1>1, <1>2, <2>1, <2>2
<1>3. CASE R(n) = <<>>
  <2>1. a = b
    BY <1>3
  <2> HIDE DEF a, b
  <2> QED
    BY <1>1, <1>3, <2>1
<1> QED
  BY <1>2, <1>3

LEMMA ReadNothing == ASSUME NEW s, NEW D, log[s] = <<>> PROVE C!Read(s, D) = <<>>
BY KeepEmpty, ConfigKeeps DEF C!Read

LEMMA InnerWith ==
    ASSUME C!ConfigAssumption, Begun, NEW g, NEW D, NEW m \in SUBSET Secs
    PROVE  C!Innermost(g, m, D) = C!Innermost(g, C!With(m), D)
<1> DEFINE R(i) == C!Read(Sections[i].name, D)
<1>1. ASSUME NEW i \in Secs, R(i) # <<>> PROVE Sections[i].name \in made
  <2>1. Sections[i].name \in C!Names
    BY DEF C!Names, C!Range, Secs
  <2>2. log[Sections[i].name] # <<>>
    BY <1>1, ReadNothing
  <2> QED
    BY <2>1, <2>2 DEF Begun
<1>2. {i \in m : R(i) # <<>>} = {i \in C!With(m) : R(i) # <<>>}
  <2> HIDE DEF R
  <2> QED
    BY <1>1 DEF C!With
<1> QED
  BY <1>2 DEF C!Innermost

\* The scopes of a request and their directives.
LEMMA ReadType ==
    ASSUME ConfigType, NEW s \in C!Scope, NEW D
    PROVE  C!Read(s, D) \in Seq(Told \cap D)
<1>1. log[s] \in Seq(Told)
  BY DEF ConfigType
<1> QED
  BY <1>1, KeepMembers, ConfigKeeps DEF C!Read

LEMMA ReadFrom ==
    ASSUME ConfigType, NEW s \in C!Scope, NEW D, NEW d \in Range(C!Read(s, D))
    PROVE  d \in Range(log[s])
<1> DEFINE V == Range(log[s])
<1>1. log[s] \in Seq(V)
  <2>1. log[s] \in Seq(Told)
    BY DEF ConfigType
  <2> QED
    BY <2>1 DEF Range
<1>2. C!Read(s, D) \in Seq(V \cap D)
  <2> HIDE DEF V
  <2> QED
    BY <1>1, KeepMembers, ConfigKeeps DEF C!Read
<1>3. \A q \in Seq(V \cap D) : Range(q) \subseteq V
  <2> HIDE DEF V
  <2> QED
    BY DEF Range
<1> QED
  BY <1>2, <1>3

LEMMA InnerType ==
    ASSUME C!ConfigAssumption, ConfigType, NEW g \in C!Server, NEW m \in SUBSET Secs, NEW D
    PROVE  C!Innermost(g, m, D) \in Seq(Told \cap D)
<1> DEFINE a == {i \in m : C!Read(Sections[i].name, D) # <<>>}
<1>1. a # {} => C!Read(Sections[C!Max(a)].name, D) \in Seq(Told \cap D)
  <2> SUFFICES ASSUME a # {} PROVE C!Read(Sections[C!Max(a)].name, D) \in Seq(Told \cap D)
    OBVIOUS
  <2>1. C!Max(a) \in Secs
    <3>1. a \in SUBSET Secs
      OBVIOUS
    <3>2. C!Max(a) \in a
      <4> HIDE DEF a
      <4> QED
        BY <3>1, MaxSection
    <3> QED
      BY <3>1, <3>2
  <2> HIDE DEF a
  <2> QED
    BY <2>1, SectionFacts, ReadType
<1>2. C!Read(g, D) \in Seq(Told \cap D) /\ C!Read("main", D) \in Seq(Told \cap D)
  BY ReadType DEF C!Scope, C!Server
<1>3. C!Innermost(g, m, D) = IF a # {} THEN C!Read(Sections[C!Max(a)].name, D)
                             ELSE IF C!Read(g, D) # <<>> THEN C!Read(g, D) ELSE C!Read("main", D)
  BY DEF C!Innermost
<1> HIDE DEF a
<1> QED
  BY <1>1, <1>2, <1>3

-----------------------------------------------------------------------------
(* What handlers directives name, one directive after the other.           *)
HandlerTold == {d \in Told : d[1] = "handler"}

LEMMA NamedNone == C!Named(<<>>) = <<>>
<1> DEFINE e == <<>>
<1>1. e \in Seq(HandlerTold) /\ Len(e) = 0
  OBVIOUS
<1>2. PICK f \in [0..Len(e) -> Seq(Handler)] : f[0] = <<>> /\ C!Named(e) = f[Len(e)]
  <2> HIDE DEF e
  <2> QED
    BY <1>1, NamedIs DEF HandlerTold
<1> QED
  BY <1>1, <1>2

LEMMA NamedType == ASSUME NEW ds \in Seq(HandlerTold) PROVE C!Named(ds) \in Seq(Handler)
<1>1. PICK f \in [0..Len(ds) -> Seq(Handler)] : C!Named(ds) = f[Len(ds)]
  BY NamedIs DEF HandlerTold
<1> QED
  BY <1>1

LEMMA NamedMore ==
    ASSUME NEW ds \in Seq(HandlerTold), NEW d \in HandlerTold
    PROVE  C!Named(Append(ds, d)) = C!Named(ds) \o d[3]
<1> DEFINE t == Append(ds, d)
           N == Len(ds)
<1>1. /\ t \in Seq(HandlerTold) /\ Len(t) = N + 1 /\ N \in Nat
      /\ t[N + 1] = d /\ \A n \in 1..N : t[n] = ds[n]
  BY AppendFacts
<1> HIDE DEF t
<1>2. PICK f \in [0..N + 1 -> Seq(Handler)] :
          /\ f[0] = <<>> /\ \A n \in 0..N : f[n + 1] = f[n] \o t[n + 1][3]
          /\ C!Named(t) = f[N + 1]
  <2>1. PICK f \in [0..Len(t) -> Seq(Handler)] :
            /\ f[0] = <<>> /\ \A n \in 0..Len(t) - 1 : f[n + 1] = f[n] \o t[n + 1][3]
            /\ C!Named(t) = f[Len(t)]
    BY <1>1, NamedIs DEF HandlerTold
  <2>2. Len(t) - 1 = N /\ Len(t) = N + 1
    BY <1>1
  <2> QED
    BY Zenon, <2>1, <2>2
<1>3. PICK h \in [0..N -> Seq(Handler)] :
          /\ h[0] = <<>> /\ \A n \in 0..N - 1 : h[n + 1] = h[n] \o ds[n + 1][3]
          /\ C!Named(ds) = h[N]
  BY <1>1, NamedIs DEF HandlerTold
<1>4. f[N] = h[N]
  <2> DEFINE U == {n \in 0..N : f[n] = h[n]}
  <2>1. 0 \in U
    BY <1>1, <1>2, <1>3
  <2>2. ASSUME NEW n \in 0..N - 1, n \in U PROVE n + 1 \in U
    <3>1. n + 1 \in 0..N /\ n + 1 \in 1..N /\ n \in 0..N /\ f[n] = h[n]
      BY <1>1, <2>2
    <3>2. f[n + 1] = f[n] \o t[n + 1][3] /\ h[n + 1] = h[n] \o ds[n + 1][3] /\ t[n + 1] = ds[n + 1]
      BY Zenon, <1>1, <1>2, <1>3, <3>1
    <3>3. f[n + 1] = h[n + 1]
      BY Zenon, <3>1, <3>2
    <3> QED
      BY <3>1, <3>3
  <2>3. N \in U
    <3> HIDE DEF U, N
    <3>1. \A n \in 0..N : n \in U
      BY <1>1, <2>1, <2>2, InductionUpTo
    <3> QED
      BY <1>1, <3>1
  <2> QED
    BY <2>3
<1>5. N \in 0..N
  BY <1>1
<1>6. f[N + 1] = f[N] \o t[N + 1][3]
  BY Zenon, <1>2, <1>5
<1> QED
  BY Zenon, <1>1, <1>2, <1>3, <1>4, <1>6 DEF t

(* What assigning pairs to a table leaves in it.                           *)
LEMMA AssignAllLeaves ==
    ASSUME NEW t \in Seq(Pair), NEW new \in Seq(Pair), \A p, q \in Range(new) : p[1] = q[1] => p = q
    PROVE  \A o : o \in Range(C!AssignAll(t, new))
                      <=> \/ o \in Range(new)
                          \/ o \in Range(t) /\ \A p \in Range(new) : p[1] # o[1]
<1> DEFINE N == Len(new)
           Among(o, n) == \E j \in 1..n : o = new[j]
           Free(o, n) == \A j \in 1..n : new[j][1] # o[1]
<1>1. PICK f \in [0..N -> Seq(Pair)] :
          /\ f[0] = t
          /\ \A n \in 0..N - 1 : f[n + 1] = C!Assign(f[n], new[n + 1][1], new[n + 1][2])
          /\ C!AssignAll(t, new) = f[N]
  BY AssignAllIs
<1> DEFINE Good(n) == \A o : o \in Range(f[n]) <=> Among(o, n) \/ (o \in Range(t) /\ Free(o, n))
           U == {n \in 0..N : Good(n)}
<1>2. N \in Nat /\ DOMAIN new = 1..N
  OBVIOUS
<1>3. \A j \in 1..N : new[j] \in Pair /\ new[j] \in Range(new)
  BY <1>2 DEF Range
<1>4. \A p \in Pair : p = <<p[1], p[2]>> /\ p[1] \in OptionKey /\ p[2] \in OptionValue
  BY DEF Pair
<1> HIDE DEF N
<1>5. Good(0)
  BY <1>1
<1>6. ASSUME NEW n \in 0..N - 1, Good(n) PROVE Good(n + 1)
  <2> DEFINE p == new[n + 1]
  <2>1. n + 1 \in 1..N /\ n \in Nat /\ n \in 0..N
    BY <1>2
  <2>2. p \in Pair /\ p = <<p[1], p[2]>> /\ p[1] \in OptionKey /\ p[2] \in OptionValue
    BY <1>3, <1>4, <2>1
  <2>3. f[n] \in Seq(Pair)
    BY <1>1, <2>1
  <2>4. f[n + 1] = C!Assign(f[n], p[1], p[2])
    BY <1>1
  <2>5. \A o : o \in Range(f[n + 1]) <=> o = p \/ (o \in Range(f[n]) /\ o[1] # p[1])
    <3> DEFINE k == p[1]
               v == p[2]
               q == f[n]
    <3>1. p = <<k, v>> /\ k \in OptionKey /\ v \in OptionValue /\ q \in Seq(Pair)
      BY <2>2, <2>3
    <3>2. f[n + 1] = C!Assign(q, k, v)
      BY <2>4
    <3> HIDE DEF p, k, v, q
    <3>3. \A o : o \in Range(C!Assign(q, k, v)) <=> o = <<k, v>> \/ (o \in Range(q) /\ o[1] # k)
      BY <3>1, AssignType
    <3>4. \A o : o \in Range(f[n + 1]) <=> o = p \/ (o \in Range(q) /\ o[1] # k)
      BY <3>1, <3>2, <3>3
    <3> QED
      BY <3>4 DEF q, k
  <2>6. \A j : j \in 1..n + 1 <=> j \in 1..n \/ j = n + 1
    BY <2>1
  <2>7. \A j \in 1..n : j \in 1..N
    BY <1>2, <2>1
  <2>8. \A o : /\ Among(o, n + 1) <=> o = p \/ Among(o, n)
               /\ Free(o, n + 1) <=> p[1] # o[1] /\ Free(o, n)
    BY <2>6
  <2>9. \A o : Among(o, n) /\ o[1] = p[1] => o = p
    BY <1>3, <2>1, <2>7
  <2> HIDE DEF p, Among, Free
  <2> QED
    BY <1>6, <2>5, <2>8, <2>9
<1>7. Good(N)
  <2>1. 0 \in U
    BY <1>2, <1>5
  <2>2. ASSUME NEW n \in 0..N - 1, n \in U PROVE n + 1 \in U
    <3>1. Good(n) /\ n + 1 \in 0..N
      BY <1>2, <2>2
    <3>2. Good(n + 1)
      <4> HIDE DEF Good
      <4> QED
        BY <1>6, <3>1
    <3> HIDE DEF Good
    <3> QED
      BY <3>1, <3>2
  <2>3. N \in 0..N
    BY <1>2
  <2>4. N \in U
    <3> HIDE DEF U
    <3> QED
      BY <1>2, <2>1, <2>2, <2>3, InductionUpTo
  <2> HIDE DEF Good
  <2> QED
    BY <2>4
<1>8. \A o : (o \in Range(new) <=> Among(o, N)) /\ ((\A p \in Range(new) : p[1] # o[1]) <=> Free(o, N))
  BY <1>2 DEF Range
<1> HIDE DEF Among, Free
<1> QED
  BY <1>1, <1>7, <1>8

(* Taking out what is empty takes out nothing else.                        *)
LEMMA UnsetLeaves ==
    ASSUME NEW t \in Seq(Pair)
    PROVE  /\ C!UnsetEmpty(t) \in Seq(Pair)
           /\ \A o \in Range(C!UnsetEmpty(t)) : o \in Range(t)
           /\ \A o \in Range(t) : o[2] # "" => o \in Range(C!UnsetEmpty(t))
<1> DEFINE N == Len(t)
<1>1. PICK f \in [0..N -> Seq(Pair)] :
          /\ f[0] = t
          /\ \A n \in 0..N - 1 : f[n + 1] = IF n + 1 <= Len(f[n]) /\ f[n][n + 1][2] = ""
                                            THEN C!RemoveAt(f[n], n + 1) ELSE f[n]
          /\ C!UnsetEmpty(t) = f[N]
  BY UnsetIs
<1> DEFINE Good(n) == /\ \A o \in Range(f[n]) : o \in Range(t)
                      /\ \A o \in Range(t) : o[2] # "" => o \in Range(f[n])
           U == {n \in 0..N : Good(n)}
<1>2. N \in Nat
  OBVIOUS
<1> HIDE DEF N
<1>6. \A n \in 0..N : f[n] \in Seq(Pair)
  BY Zenon, <1>1
<1>7. f[0] = t
  BY Zenon, <1>1
<1>3. ASSUME NEW n \in 0..N - 1, Good(n) PROVE Good(n + 1)
  <2>1. f[n] \in Seq(Pair) /\ n + 1 \in Nat /\ n + 1 >= 1 /\ Len(f[n]) \in Nat
    <3>1. n \in 0..N /\ n + 1 \in Nat /\ n + 1 >= 1
      BY <1>2
    <3> QED
      BY <1>6, <3>1
  <2>2. CASE n + 1 <= Len(f[n]) /\ f[n][n + 1][2] = ""
    <3>a. n + 1 <= Len(f[n])
      BY <2>2
    <3>1. n + 1 \in 1..Len(f[n])
      BY <2>1, <3>a
    <3>2. f[n + 1] = C!RemoveAt(f[n], n + 1)
      BY <1>1, <2>2
    <3>3. /\ \A o \in Range(f[n + 1]) : o \in Range(f[n])
          /\ \A o \in Range(f[n]) : o = f[n][n + 1] \/ o \in Range(f[n + 1])
      BY <2>1, <3>1, <3>2, RemoveFacts
    <3> QED
      BY <1>3, <2>2, <3>3
  <2>3. CASE ~(n + 1 <= Len(f[n]) /\ f[n][n + 1][2] = "")
    <3>1. f[n + 1] = f[n]
      BY <1>1, <2>3
    <3> QED
      BY <1>3, <3>1
  <2> QED
    BY <2>2, <2>3
<1>4. Good(N)
  <2>a. Good(0)
    BY Zenon, <1>7
  <2> HIDE DEF Good
  <2>1. 0 \in U
    BY <1>2, <2>a
  <2>2. ASSUME NEW n \in 0..N - 1, n \in U PROVE n + 1 \in U
    <3>1. Good(n) /\ n + 1 \in 0..N
      BY <1>2, <2>2
    <3>2. Good(n + 1)
      BY <1>3, <3>1
    <3> QED
      BY <3>1, <3>2
  <2>3. N \in 0..N
    BY <1>2
  <2>4. N \in U
    <3> HIDE DEF U
    <3> QED
      BY <1>2, <2>1, <2>2, <2>3, InductionUpTo
  <2> QED
    BY <2>4
<1>5. f[N] \in Seq(Pair)
  BY <1>2, <1>6
<1> QED
  BY <1>1, <1>4, <1>5

-----------------------------------------------------------------------------
(* What a record says that is merged from two.                             *)
LEMMA MergeFlags ==
    ASSUME NEW c \in Record, NEW e \in Record, NEW S, NEW R,
           FlagsSay(c, S), FlagsSay(e, R),
           \A f \in C!Flag : R[f] \in Seq(Told \cap C!Flags(f))
    PROVE  FlagsSay(C!Merge(c, e), [f \in C!Flag |-> IF R[f] # <<>> THEN R[f] ELSE S[f]])
<1> SUFFICES ASSUME NEW f \in C!Flag
             PROVE  C!Merge(c, e).flags[f] = C!FlagIs(IF R[f] # <<>> THEN R[f] ELSE S[f])
  BY DEF FlagsSay
<1>1. C!Merge(c, e).flags[f] = IF e.flags[f] = C!Unset THEN c.flags[f] ELSE e.flags[f]
  BY DEF C!Merge, C!Over, Record
<1>2. R[f] # <<>> => C!FlagIs(R[f]) # C!Unset
  <2> SUFFICES ASSUME R[f] # <<>> PROVE C!FlagIs(R[f]) # C!Unset
    OBVIOUS
  <2> DEFINE q == R[f]
             V == Told \cap C!Flags(f)
  <2>1. q \in Seq(V) /\ q # <<>>
    OBVIOUS
  <2>2. q[Len(q)] \in V
    <3> HIDE DEF q, V
    <3> QED
      BY <2>1, EmptySeq
  <2>3. q[Len(q)][3] \in {"named", "0", "1"}
    BY <2>2 DEF C!Flags
  <2> QED
    BY <2>3, ConfigKeeps DEF C!FlagIs, C!Unset
<1>3. R[f] = <<>> => C!FlagIs(R[f]) = C!Unset
  BY DEF C!FlagIs
<1> QED
  BY <1>1, <1>2, <1>3 DEF FlagsSay

LEMMA MergeLists ==
    ASSUME NEW c \in Record, NEW e \in Record, NEW S, NEW R, NEW V, NEW W,
           ListsSay(c, S, V), ListsSay(e, R, W)
    PROVE  ListsSay(C!Merge(c, e), [x \in C!Slot |-> IF R[x] # <<>> THEN R[x] ELSE S[x]], V \union W)
<1> SUFFICES ASSUME NEW x \in C!Slot
             PROVE  \E s \in V \union W :
                        /\ Listed(C!Merge(c, e).hlists[x], s, IF R[x] # <<>> THEN R[x] ELSE S[x])
                        /\ \A d \in Range(IF R[x] # <<>> THEN R[x] ELSE S[x]) : d \in Range(log[s])
  BY DEF ListsSay
<1>1. C!Merge(c, e).hlists[x] = IF e.hlists[x] = <<>> THEN c.hlists[x] ELSE e.hlists[x]
  BY DEF C!Merge, C!Over, Record
<1>2. PICK s \in V : Listed(c.hlists[x], s, S[x]) /\ \A d \in Range(S[x]) : d \in Range(log[s])
  BY DEF ListsSay
<1>3. PICK w \in W : Listed(e.hlists[x], w, R[x]) /\ \A d \in Range(R[x]) : d \in Range(log[w])
  BY DEF ListsSay
<1>4. e.hlists[x] = <<>> <=> R[x] = <<>>
  BY <1>3 DEF Listed
<1> QED
  BY <1>1, <1>2, <1>3, <1>4

LEMMA MergeOptions ==
    ASSUME NEW c \in Record, NEW e \in Record, NEW S, NEW R,
           OptionsSay(c, S), OptionsSay(e, R), OptionsHas(e, R)
    PROVE  OptionsSay(C!Merge(c, e), [k \in OptionKey |-> IF R[k] # <<>> THEN R[k] ELSE S[k]])
<1> DEFINE Q == [k \in OptionKey |-> IF R[k] # <<>> THEN R[k] ELSE S[k]]
           t == c.options
           u == e.options
           z == C!Merge(c, e).options
<1>1. t \in Seq(Pair) /\ u \in Seq(Pair) /\ z = C!AssignAll(t, u)
  BY DEF C!Merge, C!Overlap, Record
<1>2. \A o \in Range(t) : o[2] = C!Option(S[o[1]])
  BY DEF OptionsSay
<1>3. \A o \in Range(u) : o[2] = C!Option(R[o[1]])
  BY DEF OptionsSay
<1>4. \A k \in OptionKey : C!Option(S[k]) # "" => <<k, C!Option(S[k])>> \in Range(t)
  BY DEF OptionsSay
<1>5. \A k \in OptionKey : C!Option(R[k]) # "" => <<k, C!Option(R[k])>> \in Range(u)
  BY DEF OptionsSay
<1>6. \A k \in OptionKey : R[k] # <<>> <=> \E o \in Range(u) : o[1] = k
  BY DEF OptionsHas
<1>7. \A o \in Pair : o = <<o[1], o[2]>> /\ o[1] \in OptionKey
  BY DEF Pair
<1>8. (\A o \in Range(t) : o \in Pair) /\ (\A o \in Range(u) : o \in Pair)
  <2> HIDE DEF t, u
  <2> QED
    BY <1>1 DEF Range
<1> HIDE DEF t, u, z
<1>9. \A p, q \in Range(u) : p[1] = q[1] => p = q
  BY <1>3, <1>7, <1>8
<1>10. \A o : o \in Range(z) <=> o \in Range(u) \/ (o \in Range(t) /\ \A p \in Range(u) : p[1] # o[1])
  BY <1>1, <1>9, AssignAllLeaves
<1>11. ASSUME NEW o \in Range(z) PROVE o[2] = C!Option(Q[o[1]])
  <2>1. CASE o \in Range(u)
    <3>1. o[1] \in OptionKey /\ R[o[1]] # <<>>
      BY <1>6, <1>7, <1>8, <2>1
    <3>2. Q[o[1]] = R[o[1]]
      BY <3>1
    <3> QED
      BY <1>3, <2>1, <3>2
  <2>2. CASE o \in Range(t) /\ \A p \in Range(u) : p[1] # o[1]
    <3>1. o[1] \in OptionKey /\ R[o[1]] = <<>>
      BY <1>6, <1>7, <1>8, <2>2
    <3>2. Q[o[1]] = S[o[1]]
      BY <3>1
    <3> QED
      BY <1>2, <2>2, <3>2
  <2> QED
    BY <1>10, <2>1, <2>2
<1>12. ASSUME NEW k \in OptionKey, C!Option(Q[k]) # "" PROVE <<k, C!Option(Q[k])>> \in Range(z)
  <2>1. CASE R[k] # <<>>
    <3>1. Q[k] = R[k]
      BY <2>1
    <3> QED
      BY <1>5, <1>10, <1>12, <3>1
  <2>2. CASE R[k] = <<>>
    <3>1. Q[k] = S[k]
      BY <2>2
    <3> DEFINE o == <<k, C!Option(S[k])>>
    <3>2. o \in Range(t) /\ o[1] = k
      BY <1>4, <1>12, <3>1
    <3>3. \A p \in Range(u) : p[1] # k
      BY <1>6, <2>2
    <3> HIDE DEF o
    <3>4. o \in Range(z)
      BY <1>10, <3>2, <3>3
    <3> QED
      BY <3>1, <3>4 DEF o
  <2> QED
    BY <2>1, <2>2
<1> HIDE DEF Q
<1> QED
  BY <1>11, <1>12 DEF OptionsSay, Q, z

-----------------------------------------------------------------------------
(* Reading directives.                                                     *)
LEMMA MemberFacts ==
    ASSUME NEW d \in Told
    PROVE  /\ \A f : d \in C!Flags(f) <=> d[1] = "flag" /\ d[2] = f
           /\ \A k : d \in C!Options(k) <=> d[1] = "option" /\ d[2] = k
           /\ \A x : d \in C!Handlers(x) <=> d[1] = "handler" /\ x \in d[2]
<1>1. CASE d \in {"option"} \X OptionKey \X OptionValue
  BY <1>1 DEF C!Flags, C!Options, C!Handlers
<1>2. CASE d \in {"flag"} \X C!Flag \X {"named", "0", "1"}
  BY <1>2 DEF C!Flags, C!Options, C!Handlers
<1>3. CASE d \in {"handler"} \X (SUBSET C!Slot) \X (Seq(Handler) \ {<<>>})
  BY <1>3 DEF C!Flags, C!Options, C!Handlers
<1>4. CASE d \in {"filter"} \X Handler \X Handler
  BY <1>4 DEF C!Flags, C!Options, C!Handlers
<1>5. CASE d \in {"conn", "import"} \X {""} \X Handler
  BY <1>5 DEF C!Flags, C!Options, C!Handlers
<1> QED
  BY <1>1, <1>2, <1>3, <1>4, <1>5 DEF Told

\* Entries e for the handlers hs of a directive in the scope s.
EntriesOf(e, s, hs) ==
    /\ e \in Seq(ListEntry) /\ Len(e) = Len(hs)
    /\ \A i \in 1..Len(e) : /\ e[i].handler = hs[i] /\ e[i].dir = Where(s).dir
                            /\ e[i].pattern = Where(s).pattern /\ e[i].loc = Where(s).loc

\* The record of the scope s becomes c by the directive d.
Changes(s, d, c) ==
    /\ \A f \in C!Flag : c.flags[f] = IF d[1] = "flag" /\ d[2] = f THEN d[3] ELSE local[s].flags[f]
    /\ \A x \in C!Slot : IF d[1] = "handler" /\ x \in d[2]
                         THEN \E e : c.hlists[x] = local[s].hlists[x] \o e /\ EntriesOf(e, s, d[3])
                         ELSE c.hlists[x] = local[s].hlists[x]
    /\ c.options = IF d[1] = "option" THEN C!Assign(local[s].options, d[2], d[3]) ELSE local[s].options
    /\ c.dir = local[s].dir
    /\ c.loc = IF d[1] = "handler" THEN Where(s).loc ELSE local[s].loc

Noted(s, d) ==
    /\ stage = "reading" /\ stage' = stage /\ configConf' = configConf /\ requests' = requests
    /\ made' = made \union ({s} \ C!Server)
    /\ log' = [log EXCEPT ![s] = Append(@, d)]

Reads(s, d, c) == Noted(s, d) /\ local' = [local EXCEPT ![s] = c] /\ Changes(s, d, c)

LEMMA ReadingIs ==
    ASSUME NEW s, NEW kind, NEW name, NEW value, C!Reading(s, kind, name, value)
    PROVE  Noted(s, <<kind, name, value>>)
BY DEF C!Reading, Noted

LEMMA SameRecord ==
    ASSUME ConfigType, NEW s \in C!Scope
    PROVE  local[s] \in Record /\ local = [local EXCEPT ![s] = local[s]]
BY DEF ConfigType

LEMMA RecordFields ==
    ASSUME NEW c \in Record
    PROVE  /\ c.options \in Seq(Pair) /\ c.flags \in [C!Flag -> FlagVal]
           /\ c.hlists \in [C!Slot -> Seq(ListEntry)]
           /\ c.filters \in [Handler -> Handler \union {C!Unset}]
           /\ c.dir \in Dirs /\ c.loc \in BOOLEAN
BY DEF Record

LEMMA OptionReads ==
    ASSUME ConfigType, NEW s \in C!Scope, NEW k \in OptionKey, NEW v \in OptionValue, C!PythonOption(s, k, v)
    PROVE  \E d \in Told, c \in Record : Reads(s, d, c)
<1> DEFINE d == <<"option", k, v>>
           o == C!Assign(local[s].options, k, v)
           c == [local[s] EXCEPT !.options = o]
<1>1. Noted(s, d)
  BY ReadingIs DEF C!PythonOption
<1>2. local[s] \in Record /\ o \in Seq(Pair)
  BY SameRecord, RecordFields, AssignType
<1>3. local' = [local EXCEPT ![s] = c]
  BY <1>2 DEF C!PythonOption, ConfigType
<1>4. d \in Told /\ d[1] = "option" /\ d[2] = k /\ d[3] = v
  BY DEF Told
<1>5. c \in Record /\ c.options = o /\ c.flags = local[s].flags /\ c.hlists = local[s].hlists
      /\ c.dir = local[s].dir /\ c.loc = local[s].loc
  <2> HIDE DEF o
  <2> QED
    BY <1>2 DEF Record
<1>6. Changes(s, d, c)
  <2>1. o = C!Assign(local[s].options, d[2], d[3])
    BY <1>4
  <2> HIDE DEF c, d, o
  <2> QED
    BY <1>4, <1>5, <2>1 DEF Changes
<1> HIDE DEF c, d
<1> QED
  BY <1>1, <1>3, <1>4, <1>5, <1>6 DEF Reads

LEMMA FlagReads ==
    ASSUME ConfigType, NEW s \in C!Scope, NEW f \in C!Flag, NEW v \in {"named", "0", "1"},
           C!PythonDirective(s, f, v)
    PROVE  \E d \in Told, c \in Record : Reads(s, d, c)
<1> DEFINE d == <<"flag", f, v>>
           o == [local[s].flags EXCEPT ![f] = v]
           c == [local[s] EXCEPT !.flags = o]
<1>1. Noted(s, d)
  BY ReadingIs DEF C!PythonDirective
<1>2. local[s] \in Record /\ o \in [C!Flag -> FlagVal]
  BY SameRecord, RecordFields DEF FlagVal
<1>3. local' = [local EXCEPT ![s] = c]
  BY <1>2 DEF C!PythonDirective, ConfigType
<1>4. d \in Told /\ d[1] = "flag" /\ d[2] = f /\ d[3] = v
  BY DEF Told
<1>5. c \in Record /\ c.flags = o /\ c.options = local[s].options /\ c.hlists = local[s].hlists
      /\ c.dir = local[s].dir /\ c.loc = local[s].loc
  <2> HIDE DEF o
  <2> QED
    BY <1>2 DEF Record
<1>6. Changes(s, d, c)
  <2>1. \A g \in C!Flag : o[g] = IF f = g THEN v ELSE local[s].flags[g]
    BY <1>2, RecordFields
  <2> HIDE DEF c, d, o
  <2> QED
    BY <1>4, <1>5, <2>1 DEF Changes
<1> HIDE DEF c, d
<1> QED
  BY <1>1, <1>3, <1>4, <1>5, <1>6 DEF Reads

LEMMA ListReads ==
    ASSUME C!ConfigAssumption, ConfigType, NEW s \in C!Scope, NEW slots \in SUBSET C!Slot,
           NEW hs \in Seq(Handler) \ {<<>>}, NEW silent \in BOOLEAN,
           C!Reading(s, "handler", slots, hs), C!HlAdd(s, slots, hs, silent)
    PROVE  \E d \in Told, c \in Record : Reads(s, d, c)
<1> DEFINE d == <<"handler", slots, hs>>
           e == [i \in DOMAIN hs |-> C!Entry(s, hs[i], silent)]
           old == local[s].hlists
           o == [x \in C!Slot |-> IF x \in slots THEN old[x] \o e ELSE old[x]]
           l == Where(s).loc
           c == [local[s] EXCEPT !.loc = l, !.hlists = o]
<1>1. Noted(s, d)
  BY ReadingIs
<1>2. local[s] \in Record /\ old \in [C!Slot -> Seq(ListEntry)] /\ l \in BOOLEAN
  BY SameRecord, RecordFields, WhereFacts
<1>3. EntriesOf(e, s, hs)
  <2>1. Len(hs) \in Nat /\ DOMAIN hs = 1..Len(hs)
    OBVIOUS
  <2>2. ASSUME NEW i \in 1..Len(hs)
        PROVE  /\ e[i] \in ListEntry /\ e[i].handler = hs[i] /\ e[i].dir = Where(s).dir
               /\ e[i].pattern = Where(s).pattern /\ e[i].loc = Where(s).loc
    <3>1. hs[i] \in Handler
      BY <2>1
    <3>2. Where(s).dir \in Dirs /\ Where(s).pattern \in BOOLEAN /\ Where(s).loc \in BOOLEAN
      BY WhereFacts
    <3>3. e[i] = [handler |-> hs[i], dir |-> Where(s).dir, pattern |-> Where(s).pattern,
                  loc |-> Where(s).loc, silent |-> silent]
      BY <2>1 DEF C!Entry, Where
    <3> HIDE DEF e
    <3> QED
      BY <3>1, <3>2, <3>3 DEF ListEntry
  <2>3. e \in [1..Len(hs) -> ListEntry]
    <3>1. e = [i \in 1..Len(hs) |-> e[i]]
      BY <2>1
    <3> HIDE DEF e
    <3> QED
      BY <2>2, <3>1
  <2> HIDE DEF e
  <2>4. e \in Seq(ListEntry) /\ Len(e) = Len(hs)
    BY <2>1, <2>3
  <2> QED
    BY <2>2, <2>4 DEF EntriesOf
<1>4. o \in [C!Slot -> Seq(ListEntry)]
  <2>1. e \in Seq(ListEntry)
    BY <1>3 DEF EntriesOf
  <2> HIDE DEF e, old
  <2>2. \A x \in C!Slot : old[x] \in Seq(ListEntry) /\ old[x] \o e \in Seq(ListEntry)
    BY <1>2, <2>1, ConcatProperties
  <2> QED
    BY <2>2
<1>5. local' = [local EXCEPT ![s] = c]
  <2>1. local' = [local EXCEPT ![s] = [@ EXCEPT !.loc = l, !.hlists = o]]
    BY DEF C!HlAdd, Where
  <2> HIDE DEF l, o
  <2> QED
    BY <2>1, <1>2 DEF ConfigType
<1>6. d \in Told /\ d[1] = "handler" /\ d[2] = slots /\ d[3] = hs
  BY DEF Told
<1>7. c \in Record /\ c.flags = local[s].flags /\ c.options = local[s].options /\ c.hlists = o
      /\ c.dir = local[s].dir /\ c.loc = l
  <2> HIDE DEF o, l
  <2> QED
    BY <1>2, <1>4 DEF Record
<1>8. Changes(s, d, c)
  <2>1. \A x \in C!Slot : o[x] = IF x \in slots THEN old[x] \o e ELSE old[x]
    OBVIOUS
  <2> HIDE DEF c, d, o, e
  <2>2. \A x \in C!Slot : IF d[1] = "handler" /\ x \in d[2]
                          THEN \E a : c.hlists[x] = local[s].hlists[x] \o a /\ EntriesOf(a, s, d[3])
                          ELSE c.hlists[x] = local[s].hlists[x]
    BY Zenon, <1>3, <1>6, <1>7, <2>1
  <2> QED
    BY <1>6, <1>7, <2>2 DEF Changes
<1> HIDE DEF c, d
<1> QED
  BY <1>1, <1>5, <1>6, <1>7, <1>8 DEF Reads

LEMMA OtherReads ==
    ASSUME ConfigType, NEW s \in C!Scope, NEW d \in Told, d[1] \notin {"option", "flag", "handler"},
           Noted(s, d), local' = local
    PROVE  \E c \in Record : Reads(s, d, c)
<1> DEFINE c == local[s]
<1>1. c \in Record /\ local' = [local EXCEPT ![s] = c]
  BY SameRecord
<1>2. Changes(s, d, c)
  BY DEF Changes
<1> HIDE DEF c
<1> QED
  BY <1>1, <1>2 DEF Reads

LEMMA FilterReads ==
    ASSUME ConfigType, NEW s \in C!Scope, NEW n \in Handler, NEW h \in Handler, C!PythonFilter(s, n, h)
    PROVE  \E d \in Told, c \in Record : Reads(s, d, c)
<1> DEFINE d == <<"filter", n, h>>
           o == [local[s].filters EXCEPT ![n] = h]
           c == [local[s] EXCEPT !.filters = o]
<1>1. Noted(s, d)
  BY ReadingIs DEF C!PythonFilter
<1>2. local[s] \in Record /\ o \in [Handler -> Handler \union {C!Unset}]
  BY SameRecord, RecordFields
<1>3. local' = [local EXCEPT ![s] = c]
  BY <1>2 DEF C!PythonFilter, ConfigType
<1>4. d \in Told /\ d[1] = "filter"
  BY DEF Told
<1>5. c \in Record /\ c.flags = local[s].flags /\ c.options = local[s].options /\ c.hlists = local[s].hlists
      /\ c.dir = local[s].dir /\ c.loc = local[s].loc
  <2> HIDE DEF o
  <2> QED
    BY <1>2 DEF Record
<1>6. Changes(s, d, c)
  <2> HIDE DEF c, d, o
  <2> QED
    BY <1>4, <1>5 DEF Changes
<1> HIDE DEF c, d
<1> QED
  BY <1>1, <1>3, <1>4, <1>5, <1>6 DEF Reads

LEMMA DirectiveIs ==
    ASSUME C!ConfigAssumption, ConfigType, C!Directive
    PROVE  \E s \in C!Scope, d \in Told, c \in Record : Reads(s, d, c)
<1>1. CASE \E s \in C!Scope, k \in OptionKey, v \in OptionValue : C!PythonOption(s, k, v)
  BY <1>1, OptionReads
<1>2. CASE \E s \in C!Scope : C!PythonDirective(s, "PythonInterpreter", "named")
  BY <1>2, FlagReads DEF C!Flag
<1>3. CASE \E s \in C!Scope, v \in {"0", "1"}, f \in C!Flag \ {"PythonInterpreter"} : C!PythonDirective(s, f, v)
  BY <1>3, FlagReads
<1>4. ASSUME NEW s \in C!Scope, NEW h \in Handler, NEW p \in Phase, NEW exts \in SUBSET Ext,
             C!PythonHandler(s, p, exts, <<h, h>>)
      PROVE  \E d \in Told, c \in Record : Reads(s, d, c)
  <2> DEFINE slots == {p} \X (IF exts = {} THEN {""} ELSE exts)
  <2>1. slots \in SUBSET C!Slot /\ <<h, h>> \in Seq(Handler) \ {<<>>}
    <3> DEFINE X == IF exts = {} THEN {""} ELSE exts
    <3>1. X \subseteq {""} \union Ext
      OBVIOUS
    <3> HIDE DEF X
    <3>2. {p} \X X \subseteq Phase \X ({""} \union Ext)
      BY <3>1
    <3>3. slots \in SUBSET C!Slot
      BY <3>2 DEF C!Slot, X
    <3>4. <<h, h>> \in Seq(Handler) /\ <<h, h>> # <<>>
      OBVIOUS
    <3> HIDE DEF slots
    <3> QED
      BY <3>3, <3>4
  <2>2. C!Reading(s, "handler", slots, <<h, h>>) /\ C!HlAdd(s, slots, <<h, h>>, FALSE)
    BY <1>4 DEF C!PythonHandler
  <2> HIDE DEF slots
  <2> QED
    BY <2>1, <2>2, ListReads
<1>5. ASSUME NEW s \in C!Scope, NEW h \in Handler, C!PythonHandlerModule(s, h)
      PROVE  \E d \in Told, c \in Record : Reads(s, d, c)
  <2> DEFINE slots == Phase \X {""}
  <2>1. slots \in SUBSET C!Slot /\ <<h>> \in Seq(Handler) \ {<<>>}
    <3>1. slots \in SUBSET C!Slot
      BY DEF C!Slot
    <3>2. <<h>> \in Seq(Handler) /\ <<h>> # <<>>
      OBVIOUS
    <3> HIDE DEF slots
    <3> QED
      BY <3>1, <3>2
  <2>2. C!Reading(s, "handler", slots, <<h>>) /\ C!HlAdd(s, slots, <<h>>, TRUE)
    BY <1>5 DEF C!PythonHandlerModule
  <2> HIDE DEF slots
  <2> QED
    BY <2>1, <2>2, ListReads
<1>6. CASE \E s \in C!Scope, h \in Handler : C!PythonFilter(s, h, h)
  BY <1>6, FilterReads
<1>7. ASSUME NEW g \in C!Server, NEW h \in Handler, C!PythonConnectionHandler(g, h) \/ C!PythonImport(g, h)
      PROVE  \E s \in C!Scope, d \in Told, c \in Record : Reads(s, d, c)
  <2>1. g \in C!Scope
    BY DEF C!Scope
  <2>2. CASE C!PythonConnectionHandler(g, h)
    <3> DEFINE d == <<"conn", "", h>>
    <3>1. d \in Told /\ d[1] \notin {"option", "flag", "handler"}
      BY DEF Told
    <3>2. Noted(g, d) /\ local' = local
      BY <2>2, ReadingIs DEF C!PythonConnectionHandler
    <3> HIDE DEF d
    <3> QED
      BY <2>1, <3>1, <3>2, OtherReads
  <2>3. CASE C!PythonImport(g, h)
    <3> DEFINE d == <<"import", "", h>>
    <3>1. d \in Told /\ d[1] \notin {"option", "flag", "handler"}
      BY DEF Told
    <3>2. Noted(g, d) /\ local' = local
      BY <2>3, ReadingIs DEF C!PythonImport
    <3> HIDE DEF d
    <3> QED
      BY <2>1, <3>1, <3>2, OtherReads
  <2> QED
    BY <1>7, <2>2, <2>3
<1> QED
  BY <1>1, <1>2, <1>3, <1>4, <1>5, <1>6, <1>7 DEF C!Directive

\* What a scope has of directives grows by the one that is read in it.
LEMMA ReadMore ==
    ASSUME ConfigType, NEW s \in C!Scope, NEW d \in Told, NEW c, Reads(s, d, c), NEW D
    PROVE  C!Read(s, D)' = IF d \in D THEN Append(C!Read(s, D), d) ELSE C!Read(s, D)
<1>1. log[s] \in Seq(Told) /\ log'[s] = Append(log[s], d)
  BY DEF ConfigType, Reads, Noted
<1>2. Keep(Append(log[s], d), D) = IF d \in D THEN Append(Keep(log[s], D), d) ELSE Keep(log[s], D)
  BY <1>1, KeepAppend
<1>3. C!Read(s, D) = Keep(log[s], D) /\ C!Read(s, D)' = Keep(log'[s], D)
  BY ConfigKeeps DEF C!Read
<1> QED
  BY <1>1, <1>2, <1>3

LEMMA LastAdded ==
    ASSUME NEW V, NEW q \in Seq(V), NEW d \in V
    PROVE  Append(q, d) # <<>> /\ C!Option(Append(q, d)) = d[3] /\ C!FlagIs(Append(q, d)) = d[3]
<1> DEFINE a == Append(q, d)
<1>1. a \in Seq(V) /\ Len(a) = Len(q) + 1 /\ a[Len(q) + 1] = d /\ Len(q) \in Nat
  BY AppendFacts
<1> HIDE DEF a
<1>2. a # <<>> /\ a[Len(a)] = d
  <2>1. Len(<<>>) = 0
    OBVIOUS
  <2> QED
    BY <1>1, <2>1
<1>3. C!Option(a) = d[3] /\ C!FlagIs(a) = d[3]
  BY <1>2, ConfigKeeps DEF C!Option, C!FlagIs
<1> QED
  BY <1>2, <1>3 DEF a

LEMMA FlagsMore ==
    ASSUME ConfigType, NEW s \in C!Scope, NEW d \in Told, NEW c, Reads(s, d, c),
           FlagsSay(local[s], FlagsOf(s))
    PROVE  FlagsSay(c, FlagsOf(s)')
<1> SUFFICES ASSUME NEW f \in C!Flag PROVE c.flags[f] = C!FlagIs(FlagsOf(s)'[f])
  BY DEF FlagsSay
<1> DEFINE q == C!Read(s, C!Flags(f))
<1>1. FlagsOf(s)'[f] = q' /\ local[s].flags[f] = C!FlagIs(q)
  BY DEF FlagsOf, FlagsSay
<1>2. q' = IF d \in C!Flags(f) THEN Append(q, d) ELSE q
  BY ReadMore
<1>3. q \in Seq(Told \cap C!Flags(f))
  BY ReadType
<1>4. d \in C!Flags(f) <=> d[1] = "flag" /\ d[2] = f
  BY MemberFacts
<1>5. c.flags[f] = IF d[1] = "flag" /\ d[2] = f THEN d[3] ELSE local[s].flags[f]
  BY DEF Reads, Changes
<1>6. d \in C!Flags(f) => C!FlagIs(Append(q, d)) = d[3]
  <2> HIDE DEF q
  <2> QED
    BY <1>3, LastAdded
<1> HIDE DEF q
<1>7. CASE d \in C!Flags(f)
  BY <1>1, <1>2, <1>4, <1>5, <1>6, <1>7
<1>8. CASE d \notin C!Flags(f)
  BY <1>1, <1>2, <1>4, <1>5, <1>8
<1> QED
  BY <1>7, <1>8

LEMMA ListedMore ==
    ASSUME C!ConfigAssumption, NEW s \in C!Scope, NEW l \in Seq(ListEntry), NEW ds \in Seq(HandlerTold),
           NEW d \in HandlerTold, NEW e, EntriesOf(e, s, d[3]), Listed(l, s, ds)
    PROVE  Listed(l \o e, s, Append(ds, d))
<1> DEFINE a == C!Named(ds)
           b == d[3]
           y == a \o b
           z == l \o e
<1>1. a \in Seq(Handler) /\ b \in Seq(Handler) /\ b # <<>> /\ e \in Seq(ListEntry) /\ Len(e) = Len(b)
  <2>1. a \in Seq(Handler)
    BY NamedType
  <2>2. b \in Seq(Handler) /\ b # <<>>
    BY ToldFacts DEF HandlerTold
  <2>3. e \in Seq(ListEntry) /\ Len(e) = Len(b)
    BY DEF EntriesOf
  <2> QED
    BY <2>1, <2>2, <2>3
<1>2. C!Named(Append(ds, d)) = y
  BY NamedMore
<1>3. Append(ds, d) # <<>>
  BY LastAdded
<1>4. Len(l) = Len(a) /\ \A i \in DOMAIN l : /\ l[i].handler = a[i] /\ l[i].dir = Where(s).dir
                                              /\ l[i].pattern = Where(s).pattern /\ l[i].loc = Where(s).loc
  BY DEF Listed
<1>5. \A i \in 1..Len(e) : /\ e[i].handler = b[i] /\ e[i].dir = Where(s).dir
                           /\ e[i].pattern = Where(s).pattern /\ e[i].loc = Where(s).loc
  BY DEF EntriesOf
<1> HIDE DEF a, b
<1>6. /\ y \in Seq(Handler) /\ Len(y) = Len(a) + Len(b)
      /\ \A i \in 1..Len(a) + Len(b) : y[i] = IF i <= Len(a) THEN a[i] ELSE b[i - Len(a)]
  BY <1>1, ConcatProperties
<1>7. /\ z \in Seq(ListEntry) /\ Len(z) = Len(l) + Len(e)
      /\ \A i \in 1..Len(l) + Len(e) : z[i] = IF i <= Len(l) THEN l[i] ELSE e[i - Len(l)]
  BY <1>1, ConcatProperties
<1>8. Len(l) \in Nat /\ Len(e) \in Nat /\ Len(e) # 0 /\ DOMAIN l = 1..Len(l)
  <2>1. Len(b) \in Nat /\ Len(b) # 0
    BY <1>1, EmptySeq
  <2> QED
    BY <1>1, <2>1
<1> HIDE DEF y, z
<1>9. Len(z) = Len(y) /\ z # <<>> /\ DOMAIN z = 1..Len(l) + Len(e)
  <2>1. Len(z) = Len(y) /\ Len(z) # 0 /\ DOMAIN z = 1..Len(l) + Len(e)
    BY <1>1, <1>4, <1>6, <1>7, <1>8
  <2>2. Len(<<>>) = 0
    OBVIOUS
  <2> QED
    BY <2>1, <2>2
<1>10. ASSUME NEW i \in 1..Len(l) + Len(e)
       PROVE  /\ z[i].handler = y[i] /\ z[i].dir = Where(s).dir
              /\ z[i].pattern = Where(s).pattern /\ z[i].loc = Where(s).loc
  <2>1. CASE i <= Len(l)
    <3>1. i \in DOMAIN l /\ i <= Len(a) /\ i \in 1..Len(a) + Len(b)
      BY <1>1, <1>4, <1>8, <2>1
    <3>2. z[i] = l[i] /\ y[i] = a[i]
      BY <1>6, <1>7, <2>1, <3>1
    <3> QED
      BY <1>4, <3>1, <3>2
  <2>2. CASE ~(i <= Len(l))
    <3>1. i - Len(l) \in 1..Len(e) /\ ~(i <= Len(a)) /\ i \in 1..Len(a) + Len(b)
      BY <1>1, <1>4, <1>8, <2>2
    <3>2. z[i] = e[i - Len(l)] /\ y[i] = b[i - Len(l)]
      BY <1>4, <1>6, <1>7, <2>2, <3>1
    <3> QED
      BY <1>5, <3>1, <3>2
  <2> QED
    BY <2>1, <2>2
<1>11. Listed(z, s, Append(ds, d))
  <2> DEFINE p == Append(ds, d)
  <2>1. C!Named(p) = y /\ p # <<>>
    BY <1>2, <1>3
  <2> HIDE DEF p
  <2>2. Listed(z, s, p)
    BY <1>9, <1>10, <2>1 DEF Listed
  <2> QED
    BY <2>2 DEF p
<1> QED
  BY <1>11 DEF z

LEMMA ListsMore ==
    ASSUME C!ConfigAssumption, ConfigType, NEW s \in C!Scope, NEW d \in Told, NEW c \in Record, Reads(s, d, c),
           ListsSay(local[s], ListsOf(s), {s})
    PROVE  ListsSay(c, ListsOf(s), {s})'
<1>1. log[s] \in Seq(Told) /\ log'[s] = Append(log[s], d)
  BY DEF ConfigType, Reads, Noted
<1>2. ASSUME NEW o \in Range(log[s]) PROVE o \in Range(log'[s])
  <2>1. DOMAIN log[s] = 1..Len(log[s]) /\ Len(log[s]) \in Nat
    BY <1>1
  <2>2. DOMAIN log'[s] = 1..Len(log[s]) + 1 /\ \A i \in 1..Len(log[s]) : log'[s][i] = log[s][i]
    BY <1>1, AppendFacts
  <2> QED
    BY <2>1, <2>2 DEF Range
<1>3. d \in Range(log'[s])
  <2> DEFINE q == log[s]
             a == Append(q, d)
  <2>1. /\ DOMAIN a = 1..Len(q) + 1 /\ a[Len(q) + 1] = d /\ Len(q) \in Nat
    BY <1>1, AppendFacts
  <2> HIDE DEF q, a
  <2>2. d \in Range(a)
    BY <2>1 DEF Range
  <2> QED
    BY <1>1, <2>2 DEF a, q
<1>4. Where(s)' = Where(s)
  BY DEF Where, C!DetermineContext
<1> SUFFICES ASSUME NEW x \in C!Slot
             PROVE  /\ Listed(c.hlists[x], s, ListsOf(s)'[x])
                    /\ \A o \in Range(ListsOf(s)'[x]) : o \in Range(log'[s])
  BY DEF ListsSay, Listed, Where, C!DetermineContext
<1> DEFINE q == C!Read(s, C!Handlers(x))
           l == local[s].hlists[x]
<1>5. ListsOf(s)'[x] = q' /\ ListsOf(s)[x] = q
  BY DEF ListsOf
<1>6. Listed(l, s, q) /\ \A o \in Range(q) : o \in Range(log[s])
  BY <1>5 DEF ListsSay
<1>7. q' = IF d \in C!Handlers(x) THEN Append(q, d) ELSE q
  BY ReadMore
<1>8. q \in Seq(HandlerTold)
  <2>1. q \in Seq(Told \cap C!Handlers(x))
    BY ReadType
  <2>2. Told \cap C!Handlers(x) \subseteq HandlerTold
    BY MemberFacts DEF HandlerTold
  <2> HIDE DEF q
  <2> QED
    BY <2>1, <2>2
<1>9. d \in C!Handlers(x) <=> d[1] = "handler" /\ x \in d[2]
  BY MemberFacts
<1>10. IF d[1] = "handler" /\ x \in d[2]
       THEN \E e : c.hlists[x] = l \o e /\ EntriesOf(e, s, d[3])
       ELSE c.hlists[x] = l
  BY Zenon DEF Reads, Changes
<1>11. l \in Seq(ListEntry)
  <2>1. local[s] \in Record
    BY DEF ConfigType
  <2> QED
    BY <2>1, RecordFields
<1> HIDE DEF q, l
<1>12. CASE d \in C!Handlers(x)
  <2>1. PICK e : c.hlists[x] = l \o e /\ EntriesOf(e, s, d[3])
    BY <1>9, <1>10, <1>12
  <2>2. d \in HandlerTold
    BY <1>9, <1>12 DEF HandlerTold
  <2>3. Listed(l \o e, s, Append(q, d))
    BY <1>6, <1>8, <1>11, <2>1, <2>2, ListedMore
  <2>4. Listed(c.hlists[x], s, ListsOf(s)'[x])
    BY Zenon, <1>5, <1>7, <1>12, <2>1, <2>3
  <2>5. \A o \in Range(Append(q, d)) : o = d \/ o \in Range(q)
    <3> DEFINE a == Append(q, d)
    <3>1. /\ DOMAIN a = 1..Len(q) + 1 /\ a[Len(q) + 1] = d /\ Len(q) \in Nat
          /\ \A i \in 1..Len(q) : a[i] = q[i]
      BY <1>8, <2>2, AppendFacts
    <3>2. DOMAIN q = 1..Len(q)
      BY <1>8
    <3> HIDE DEF a
    <3>3. \A i \in 1..Len(q) + 1 : i \in 1..Len(q) \/ i = Len(q) + 1
      BY <3>1
    <3>4. \A o \in Range(a) : o = d \/ o \in Range(q)
      BY <3>1, <3>2, <3>3 DEF Range
    <3> QED
      BY <3>4 DEF a
  <2>6. \A o \in Range(Append(q, d)) : o \in Range(log'[s])
    BY <1>2, <1>3, <1>6, <2>5
  <2> QED
    BY <1>5, <1>7, <1>12, <2>4, <2>6
<1>13. CASE d \notin C!Handlers(x)
  <2>1. c.hlists[x] = l /\ q' = q
    BY <1>7, <1>9, <1>10, <1>13
  <2> QED
    BY <1>2, <1>5, <1>6, <2>1
<1> QED
  BY <1>12, <1>13

LEMMA OptionsMore ==
    ASSUME ConfigType, NEW s \in C!Scope, NEW d \in Told, NEW c \in Record, Reads(s, d, c),
           OptionsSay(local[s], OptionsOf(s)), OptionsHas(local[s], OptionsOf(s))
    PROVE  OptionsSay(c, OptionsOf(s)') /\ OptionsHas(c, OptionsOf(s)')
<1> DEFINE S == OptionsOf(s)
           t == local[s].options
           u == c.options
<1>1. \A k \in OptionKey : S'[k] = IF d \in C!Options(k) THEN Append(S[k], d) ELSE S[k]
  <2> SUFFICES ASSUME NEW k \in OptionKey
               PROVE  S'[k] = IF d \in C!Options(k) THEN Append(S[k], d) ELSE S[k]
    OBVIOUS
  <2>1. S[k] = C!Read(s, C!Options(k)) /\ S'[k] = C!Read(s, C!Options(k))'
    BY DEF OptionsOf
  <2> QED
    BY <2>1, ReadMore
<1>2. \A k \in OptionKey : d \in C!Options(k) => Append(S[k], d) # <<>> /\ C!Option(Append(S[k], d)) = d[3]
  <2> SUFFICES ASSUME NEW k \in OptionKey, d \in C!Options(k)
               PROVE  Append(S[k], d) # <<>> /\ C!Option(Append(S[k], d)) = d[3]
    OBVIOUS
  <2>1. S[k] \in Seq(Told \cap C!Options(k))
    BY ReadType DEF OptionsOf
  <2> QED
    BY <2>1, LastAdded
<1>3. \A k : d \in C!Options(k) <=> d[1] = "option" /\ d[2] = k
  BY MemberFacts
<1>4. t \in Seq(Pair)
  <2>1. local[s] \in Record
    BY DEF ConfigType
  <2> QED
    BY <2>1, RecordFields
<1>5. u = IF d[1] = "option" THEN C!Assign(t, d[2], d[3]) ELSE t
  BY DEF Reads, Changes
<1>6. /\ \A o \in Range(t) : o[2] = C!Option(S[o[1]])
      /\ \A k \in OptionKey : C!Option(S[k]) # "" => <<k, C!Option(S[k])>> \in Range(t)
      /\ \A k \in OptionKey : S[k] # <<>> <=> \E o \in Range(t) : o[1] = k
  BY DEF OptionsSay, OptionsHas
<1>7. \A o \in Range(t) : o[1] \in OptionKey
  <2>1. \A o \in Pair : o[1] \in OptionKey
    BY DEF Pair
  <2> HIDE DEF t
  <2> QED
    BY <1>4, <2>1 DEF Range
<1> HIDE DEF S, t, u
<1>8. CASE d[1] = "option"
  <2> DEFINE k == d[2]
             v == d[3]
             p == <<k, v>>
  <2>1. k \in OptionKey /\ v \in OptionValue
    BY <1>8, ToldFacts
  <2>2. \A o : o \in Range(u) <=> o = p \/ (o \in Range(t) /\ o[1] # k)
    <3> HIDE DEF k, v
    <3>1. u = C!Assign(t, k, v)
      BY <1>5, <1>8 DEF k, v
    <3> QED
      BY <1>4, <2>1, <3>1, AssignType
  <2>3. S'[k] # <<>> /\ C!Option(S'[k]) = v
    BY <1>1, <1>2, <1>3, <1>8, <2>1
  <2>4. \A j \in OptionKey : j # k => S'[j] = S[j]
    BY <1>1, <1>3
  <2>5. p[1] = k /\ p[2] = v
    OBVIOUS
  <2> HIDE DEF k, v
  <2>6. \A o \in Range(u) : o[2] = C!Option(S'[o[1]])
    BY ZenonT(30), <1>6, <1>7, <2>2, <2>3, <2>4, <2>5
  <2>7. ASSUME NEW j \in OptionKey, C!Option(S'[j]) # "" PROVE <<j, C!Option(S'[j])>> \in Range(u)
    <3>1. CASE j = k
      BY <2>2, <2>3, <3>1
    <3>2. CASE j # k
      <4> DEFINE o == <<j, C!Option(S[j])>>
      <4>1. o \in Range(t) /\ o[1] = j
        BY <1>6, <2>4, <2>7, <3>2
      <4> HIDE DEF o
      <4>2. o \in Range(u)
        BY <2>2, <3>2, <4>1
      <4> QED
        BY <2>4, <3>2, <4>2 DEF o
    <3> QED
      BY <3>1, <3>2
  <2>8. ASSUME NEW j \in OptionKey PROVE S'[j] # <<>> <=> \E o \in Range(u) : o[1] = j
    <3>1. CASE j = k
      <4>1. p \in Range(u)
        BY <2>2
      <4> HIDE DEF p
      <4> QED
        BY <2>3, <2>5, <3>1, <4>1
    <3>2. CASE j # k
      <4>1. (\E o \in Range(u) : o[1] = j) <=> \E o \in Range(t) : o[1] = j
        <5> HIDE DEF p
        <5> QED
          BY <2>2, <2>5, <3>2
      <4> QED
        BY <1>6, <2>4, <3>2, <4>1
    <3> QED
      BY <3>1, <3>2
  <2> HIDE DEF p
  <2> QED
    BY <2>6, <2>7, <2>8 DEF OptionsSay, OptionsHas, S, u
<1>9. CASE d[1] # "option"
  <2>1. u = t /\ \A k \in OptionKey : S'[k] = S[k]
    BY <1>1, <1>3, <1>5, <1>9
  <2> QED
    BY <1>6, <1>7, <2>1 DEF OptionsSay, OptionsHas, S, u
<1> QED
  BY <1>8, <1>9

LEMMA LocMore ==
    ASSUME ConfigType, NEW s \in C!Scope, NEW d \in Told, NEW c, Reads(s, d, c), LocOf(s)
    PROVE  LocOf(s)'
<1>1. log[s] \in Seq(Told) /\ log'[s] = Append(log[s], d) /\ local'[s] = c
  BY DEF ConfigType, Reads, Noted
<1>2. Where(s)' = Where(s)
  BY DEF Where, C!DetermineContext
<1>3. c.dir = local[s].dir /\ c.loc = IF d[1] = "handler" THEN Where(s).loc ELSE local[s].loc
  BY DEF Reads, Changes
<1>4. /\ d[1] = "handler" => HasHandler(s)'
      /\ HasHandler(s) => HasHandler(s)'
  <2> DEFINE q == log[s]
             a == Append(q, d)
  <2>1. /\ DOMAIN a = 1..Len(q) + 1 /\ a[Len(q) + 1] = d /\ Len(q) \in Nat
        /\ \A i \in 1..Len(q) : a[i] = q[i]
    BY <1>1, AppendFacts
  <2>2. DOMAIN q = 1..Len(q)
    BY <1>1
  <2>3. log'[s] = a
    BY <1>1
  <2> HIDE DEF q, a
  <2>4. d \in Range(a) /\ \A o \in Range(q) : o \in Range(a)
    BY <2>1, <2>2 DEF Range
  <2>5. HasHandler(s)' <=> \E o \in Range(a) : o[1] = "handler"
    BY <2>3 DEF HasHandler
  <2> QED
    BY <2>4, <2>5 DEF HasHandler, q
<1>5. LocOf(s)' <=> local'[s].dir = Where(s)'.dir /\ (local'[s].loc => Where(s)'.loc /\ HasHandler(s)')
  BY DEF LocOf
<1>6. local[s].dir = Where(s).dir /\ (local[s].loc => Where(s).loc /\ HasHandler(s))
  BY DEF LocOf
<1> HIDE DEF LocOf, HasHandler, Where
<1> QED
  BY <1>1, <1>2, <1>3, <1>4, <1>5, <1>6

LEMMA FaithfulMore ==
    ASSUME C!ConfigAssumption, ConfigType, NEW s \in C!Scope, NEW d \in Told, NEW c \in Record, Reads(s, d, c),
           Faithful(s)
    PROVE  Faithful(s)'
<1>1. local'[s] = c
  BY DEF ConfigType, Reads
<1>2. FlagsSay(local[s], FlagsOf(s)) => FlagsSay(local[s], FlagsOf(s))'
  <2>1. FlagsSay(local[s], FlagsOf(s))' <=> FlagsSay(c, FlagsOf(s)')
    BY <1>1 DEF FlagsSay
  <2> QED
    BY <2>1, FlagsMore
<1>3. ListsSay(local[s], ListsOf(s), {s}) => ListsSay(local[s], ListsOf(s), {s})'
  <2>1. ListsSay(local[s], ListsOf(s), {s})' <=> ListsSay(c, ListsOf(s), {s})'
    <3>1. ListsSay(c, ListsOf(s), {s})' <=>
              \A x \in C!Slot : /\ Listed(c.hlists[x], s, ListsOf(s)'[x])
                                /\ \A o \in Range(ListsOf(s)'[x]) : o \in Range(log'[s])
      BY DEF ListsSay, Listed, Where, C!DetermineContext
    <3>2. ListsSay(local[s], ListsOf(s), {s})' <=>
              \A x \in C!Slot : /\ Listed(local'[s].hlists[x], s, ListsOf(s)'[x])
                                /\ \A o \in Range(ListsOf(s)'[x]) : o \in Range(log'[s])
      BY DEF ListsSay, Listed, Where, C!DetermineContext
    <3> QED
      BY <1>1, <3>1, <3>2
  <2> QED
    BY <2>1, ListsMore
<1>4. OptionsSay(local[s], OptionsOf(s)) /\ OptionsHas(local[s], OptionsOf(s))
      => OptionsSay(local[s], OptionsOf(s))' /\ OptionsHas(local[s], OptionsOf(s))'
  <2>1. /\ OptionsSay(local[s], OptionsOf(s))' <=> OptionsSay(c, OptionsOf(s)')
        /\ OptionsHas(local[s], OptionsOf(s))' <=> OptionsHas(c, OptionsOf(s)')
    BY <1>1 DEF OptionsSay, OptionsHas
  <2> QED
    BY <2>1, OptionsMore
<1>5. LocOf(s) => LocOf(s)'
  BY LocMore
<1> QED
  BY <1>2, <1>3, <1>4, <1>5 DEF Faithful

LEMMA ListsNow ==
    ASSUME NEW s
    PROVE  ListsSay(local[s], ListsOf(s), {s})' <=>
               \A x \in C!Slot : /\ Listed(local'[s].hlists[x], s, ListsOf(s)'[x])
                                 /\ \A d \in Range(ListsOf(s)'[x]) : d \in Range(log'[s])
BY DEF ListsSay, Listed, Where, C!DetermineContext

\* What is said of a scope rests on its record and on what was read in it.
LEMMA FaithfulStays ==
    ASSUME NEW s \in C!Scope, Faithful(s), local'[s] = local[s], log'[s] = log[s]
    PROVE  Faithful(s)'
<1>1. /\ FlagsOf(s)' = FlagsOf(s) /\ ListsOf(s)' = ListsOf(s) /\ OptionsOf(s)' = OptionsOf(s)
  BY DEF FlagsOf, ListsOf, OptionsOf, C!Read
<1>2. FlagsSay(local[s], FlagsOf(s)) => FlagsSay(local[s], FlagsOf(s))'
  BY <1>1 DEF FlagsSay
<1>3. ListsSay(local[s], ListsOf(s), {s}) => ListsSay(local[s], ListsOf(s), {s})'
  <2>1. ListsSay(local[s], ListsOf(s), {s})' <=>
            \A x \in C!Slot : /\ Listed(local'[s].hlists[x], s, ListsOf(s)'[x])
                              /\ \A d \in Range(ListsOf(s)'[x]) : d \in Range(log'[s])
    BY ListsNow
  <2>2. ListsSay(local[s], ListsOf(s), {s}) <=>
            \A x \in C!Slot : /\ Listed(local[s].hlists[x], s, ListsOf(s)[x])
                              /\ \A d \in Range(ListsOf(s)[x]) : d \in Range(log[s])
    BY DEF ListsSay
  <2> QED
    BY <1>1, <2>1, <2>2
<1>4. OptionsSay(local[s], OptionsOf(s)) => OptionsSay(local[s], OptionsOf(s))'
  BY <1>1 DEF OptionsSay
<1>5. OptionsHas(local[s], OptionsOf(s)) => OptionsHas(local[s], OptionsOf(s))'
  BY <1>1 DEF OptionsHas
<1>6. LocOf(s) => LocOf(s)'
  BY DEF LocOf, HasHandler, Where, C!DetermineContext
<1> QED
  BY <1>2, <1>3, <1>4, <1>5, <1>6 DEF Faithful

LEMMA DirectiveStep ==
    ASSUME C!ConfigAssumption, ConfigInv, C!Directive
    PROVE  ConfigInv'
<1>0. ConfigType
  BY DEF ConfigInv
<1>1. PICK s \in C!Scope, d \in Told, c \in Record : Reads(s, d, c)
  BY <1>0, DirectiveIs
<1>2. /\ stage = "reading" /\ stage' = stage /\ configConf' = configConf /\ requests' = requests
      /\ made' = made \union ({s} \ C!Server) /\ log' = [log EXCEPT ![s] = Append(@, d)]
      /\ local' = [local EXCEPT ![s] = c]
  BY <1>1 DEF Reads, Noted
<1>3. ConfigType'
  <2>1. log[s] \in Seq(Told) /\ Append(log[s], d) \in Seq(Told)
    BY <1>0, AppendFacts DEF ConfigType
  <2>2. log' \in [C!Scope -> Seq(Told)]
    BY <1>0, <1>2, <2>1 DEF ConfigType
  <2>3. local' \in [C!Scope -> Record]
    BY <1>0, <1>2 DEF ConfigType
  <2>4. made' \subseteq C!Names
    BY <1>0, <1>2 DEF ConfigType, C!Scope
  <2> QED
    BY <1>0, <1>2, <2>2, <2>3, <2>4 DEF ConfigType
<1>4. Begun'
  <2>1. \A r \in Request : C!On(r) => stage = "serving"
    BY DEF ConfigInv, Begun
  <2>2. \A r : C!On(r)' <=> C!On(r)
    BY <1>2 DEF C!On
  <2>3. ASSUME NEW n \in C!Names, log'[n] # <<>> PROVE n \in made'
    <3>1. n \in C!Scope /\ n \notin C!Server
      BY SectionFacts DEF C!Names, C!Range, C!Scope, Secs
    <3>2. CASE n = s
      BY <1>2, <3>1, <3>2
    <3>3. CASE n # s
      <4>1. log'[n] = log[n]
        BY <1>0, <1>2, <3>1, <3>3 DEF ConfigType
      <4> QED
        BY <1>2, <2>3, <4>1 DEF ConfigInv, Begun
    <3> QED
      BY <3>2, <3>3
  <2> QED
    BY <1>2, <2>1, <2>2, <2>3 DEF Begun
<1>5. \A t \in C!Scope : Faithful(t)'
  <2> SUFFICES ASSUME NEW t \in C!Scope PROVE Faithful(t)'
    OBVIOUS
  <2>1. Faithful(t)
    BY <1>2, SectionFacts DEF ConfigInv, Scopes
  <2>2. CASE t = s
    <3>1. Reads(t, d, c)
      BY <1>1, <2>2
    <3> QED
      BY <1>0, <2>1, <3>1, FaithfulMore
  <2>3. CASE t # s
    <3>1. local'[t] = local[t] /\ log'[t] = log[t]
      BY <1>0, <1>2, <2>3 DEF ConfigType
    <3> QED
      BY <2>1, <3>1, FaithfulStays
  <2> QED
    BY <2>2, <2>3
<1>6. Scopes'
  <2>1. \A g \in C!Server : g \in C!Scope
    BY SectionFacts
  <2>2. \A i \in Secs : Sections[i].name \in C!Scope
    BY SectionFacts
  <2>3. \A g \in C!Server : Faithful(g)'
    BY <1>5, <2>1
  <2>4. \A i \in Secs : Faithful(Sections[i].name)'
    BY <1>5, <2>2
  <2> QED
    BY <2>3, <2>4 DEF Scopes
<1>7. Served' /\ Optioned'
  <2>1. stage' # "serving"
    BY <1>2
  <2> QED
    BY <2>1 DEF Served, Optioned
<1> QED
  BY <1>3, <1>4, <1>6, <1>7 DEF ConfigInv

LEMMA CreateType == ASSUME NEW dir \in Dirs PROVE C!CreateConfig(dir) \in Record
<1> DEFINE o == <<>>
           f == [x \in C!Flag |-> C!Unset]
           h == [x \in C!Slot |-> <<>>]
           n == [x \in Handler |-> C!Unset]
<1>1. o \in Seq(Pair) /\ f \in [C!Flag -> FlagVal] /\ h \in [C!Slot -> Seq(ListEntry)]
      /\ n \in [Handler -> Handler \union {C!Unset}]
  BY DEF FlagVal
<1>2. C!CreateConfig(dir) = [options |-> o, flags |-> f, hlists |-> h, filters |-> n, dir |-> dir, loc |-> FALSE]
  BY DEF C!CreateConfig
<1> HIDE DEF o, f, h, n
<1> QED
  BY <1>1, <1>2 DEF Record

LEMMA ConfigInit == C!ConfigAssumption /\ C!Init => ConfigInv
<1> SUFFICES ASSUME C!ConfigAssumption, C!Init PROVE ConfigInv
  OBVIOUS
<1>1. /\ configConf \in ConfigConfigs /\ stage = "reading" /\ made = {}
      /\ local = [s \in C!Scope |-> C!CreateConfig(C!DetermineContext(s).dir)]
      /\ log = [s \in C!Scope |-> <<>>]
      /\ requests = [r \in Request |-> C!NoRequest]
  BY DEF C!Init
<1>2. \A dir \in Dirs : C!CreateConfig(dir) \in Record
  BY CreateType
<1>3. C!Unset \in Dirs
  BY DEF Dirs
<1>4. \A s \in C!Scope : /\ local[s] = C!CreateConfig(Where(s).dir) /\ log[s] = <<>> /\ Where(s).dir \in Dirs
  BY <1>1, WhereFacts DEF Where
<1>5. ConfigType
  <2>1. local \in [C!Scope -> Record]
    <3>1. \A s \in C!Scope : local[s] \in Record
      BY <1>2, <1>4
    <3>2. local = [s \in C!Scope |-> local[s]]
      BY <1>1
    <3> QED
      BY <3>1, <3>2
  <2>2. log \in [C!Scope -> Seq(Told)]
    BY <1>1
  <2>3. C!NoRequest \in [server : C!Server \union {C!Unset}, matched : SUBSET Secs,
                         shared : BOOLEAN, own : Record, wrote : BOOLEAN]
    BY <1>2, <1>3 DEF C!NoRequest
  <2> QED
    BY <1>1, <2>1, <2>2, <2>3 DEF ConfigType
<1>6. Begun
  <2>1. \A n \in C!Names : log[n] = <<>>
    BY <1>1 DEF C!Scope
  <2>2. \A r \in Request : ~C!On(r)
    BY <1>1 DEF C!On, C!NoRequest
  <2> QED
    BY <2>1, <2>2 DEF Begun
<1>7. ASSUME NEW s \in C!Scope PROVE Faithful(s)
  <2>1. \A D : C!Read(s, D) = <<>>
    BY <1>4, ReadNothing
  <2>2. /\ local[s].flags = [x \in C!Flag |-> C!Unset] /\ local[s].hlists = [x \in C!Slot |-> <<>>]
        /\ local[s].options = <<>> /\ local[s].dir = Where(s).dir /\ local[s].loc = FALSE
    <3> DEFINE f == [x \in C!Flag |-> C!Unset]
               h == [x \in C!Slot |-> <<>>]
               n == [x \in Handler |-> C!Unset]
               w == Where(s).dir
    <3>1. local[s] = [options |-> <<>>, flags |-> f, hlists |-> h, filters |-> n, dir |-> w, loc |-> FALSE]
      BY <1>4 DEF C!CreateConfig
    <3> HIDE DEF f, h, n, w
    <3>2. local[s].flags = f /\ local[s].hlists = h /\ local[s].options = <<>> /\ local[s].dir = w /\ local[s].loc = FALSE
      BY <3>1
    <3> QED
      BY <3>2 DEF f, h, w
  <2>3. FlagsSay(local[s], FlagsOf(s))
    BY <2>1, <2>2 DEF FlagsSay, FlagsOf, C!FlagIs
  <2>4. ListsSay(local[s], ListsOf(s), {s})
    <3> SUFFICES ASSUME NEW x \in C!Slot
                 PROVE  Listed(<<>>, s, <<>>) /\ \A d \in Range(<<>>) : d \in Range(log[s])
      BY <2>1, <2>2 DEF ListsSay, ListsOf
    <3> QED
      BY NamedNone DEF Listed, Range
  <2>5. \A o : o \notin Range(<<>>)
    BY DEF Range
  <2>6. OptionsSay(local[s], OptionsOf(s)) /\ OptionsHas(local[s], OptionsOf(s))
    BY <2>1, <2>2, <2>5 DEF OptionsSay, OptionsHas, OptionsOf, C!Option
  <2>7. LocOf(s)
    BY <2>2 DEF LocOf
  <2> QED
    BY <2>3, <2>4, <2>6, <2>7 DEF Faithful
<1>8. Scopes
  BY <1>7, SectionFacts DEF Scopes
<1>9. Served /\ Optioned
  BY <1>1 DEF Served, Optioned
<1> QED
  BY <1>5, <1>6, <1>8, <1>9 DEF ConfigInv

-----------------------------------------------------------------------------
(* What is said of records rests on them and on the log.                   *)
LEMMA ServerListsNow ==
    ASSUME NEW g
    PROVE  ListsSay(local[g], ListsIn(g, {}), ScopesIn(g, {}))' <=>
               \A x \in C!Slot : \E s \in ScopesIn(g, {}) :
                   /\ Listed(local'[g].hlists[x], s, ListsIn(g, {})'[x])
                   /\ \A d \in Range(ListsIn(g, {})'[x]) : d \in Range(log'[s])
BY DEF ListsSay, Listed, Where, C!DetermineContext, ScopesIn

LEMMA ServerNow ==
    ASSUME log' = log, made' = made, NEW g
    PROVE  /\ Serves(local[g], g, {})' <=> Serves(local'[g], g, {})
           /\ OptionsSay(local[g], OptionsIn(g, {}))' <=> OptionsSay(local'[g], OptionsIn(g, {}))
<1>1. /\ FlagsIn(g, {})' = FlagsIn(g, {}) /\ ListsIn(g, {})' = ListsIn(g, {})
      /\ OptionsIn(g, {})' = OptionsIn(g, {})
  BY DEF FlagsIn, ListsIn, OptionsIn, C!Innermost, C!Read
<1>2. FlagsSay(local[g], FlagsIn(g, {}))' <=> FlagsSay(local'[g], FlagsIn(g, {}))
  BY <1>1 DEF FlagsSay
<1>3. ListsSay(local[g], ListsIn(g, {}), ScopesIn(g, {}))' <=> ListsSay(local'[g], ListsIn(g, {}), ScopesIn(g, {}))
  <2>1. ListsSay(local[g], ListsIn(g, {}), ScopesIn(g, {}))' <=>
            \A x \in C!Slot : \E s \in ScopesIn(g, {}) :
                /\ Listed(local'[g].hlists[x], s, ListsIn(g, {})'[x])
                /\ \A d \in Range(ListsIn(g, {})'[x]) : d \in Range(log'[s])
    BY ServerListsNow
  <2>2. ListsSay(local'[g], ListsIn(g, {}), ScopesIn(g, {})) <=>
            \A x \in C!Slot : \E s \in ScopesIn(g, {}) :
                /\ Listed(local'[g].hlists[x], s, ListsIn(g, {})[x])
                /\ \A d \in Range(ListsIn(g, {})[x]) : d \in Range(log[s])
    BY DEF ListsSay
  <2> QED
    BY <1>1, <2>1, <2>2
<1>4. LocSays(local[g], C!With({}))' <=> LocSays(local'[g], C!With({}))
  BY DEF LocSays, HasHandler, C!With
<1>5. OptionsSay(local[g], OptionsIn(g, {}))' <=> OptionsSay(local'[g], OptionsIn(g, {}))
  BY <1>1 DEF OptionsSay
<1> QED
  BY <1>2, <1>3, <1>4, <1>5 DEF Serves

\* The request r.
Own(r)   == requests[r].own
Srv(r)   == requests[r].server
Match(r) == requests[r].matched

LEMMA RequestNow ==
    ASSUME log' = log, made' = made, NEW r
    PROVE  /\ Serves(Own(r), Srv(r), Match(r))' <=> Serves(Own(r)', Srv(r)', Match(r)')
           /\ OptionsSay(Own(r), OptionsIn(Srv(r), Match(r)))' <=> OptionsSay(Own(r)', OptionsIn(Srv(r)', Match(r)'))
<1>1. /\ FlagsIn(Srv(r), Match(r))' = FlagsIn(Srv(r)', Match(r)')
      /\ ListsIn(Srv(r), Match(r))' = ListsIn(Srv(r)', Match(r)')
      /\ OptionsIn(Srv(r), Match(r))' = OptionsIn(Srv(r)', Match(r)')
  BY DEF FlagsIn, ListsIn, OptionsIn, C!Innermost, C!Read
<1>2. FlagsSay(Own(r), FlagsIn(Srv(r), Match(r)))' <=> FlagsSay(Own(r)', FlagsIn(Srv(r)', Match(r)'))
  BY <1>1 DEF FlagsSay
<1>3. ListsSay(Own(r), ListsIn(Srv(r), Match(r)), ScopesIn(Srv(r), Match(r)))'
      <=> ListsSay(Own(r)', ListsIn(Srv(r)', Match(r)'), ScopesIn(Srv(r)', Match(r)'))
  BY <1>1 DEF ListsSay, Listed, Where, C!DetermineContext, ScopesIn
<1>4. LocSays(Own(r), C!With(Match(r)))' <=> LocSays(Own(r)', C!With(Match(r)'))
  BY DEF LocSays, HasHandler, C!With
<1>5. OptionsSay(Own(r), OptionsIn(Srv(r), Match(r)))' <=> OptionsSay(Own(r)', OptionsIn(Srv(r)', Match(r)'))
  BY <1>1 DEF OptionsSay
<1> QED
  BY <1>2, <1>3, <1>4, <1>5 DEF Serves

\* Of a record the options are one thing and the rest another.
LEMMA SameSay ==
    ASSUME NEW c, NEW e, NEW g, NEW m, Serves(c, g, m),
           e.flags = c.flags, e.hlists = c.hlists, e.dir = c.dir, e.loc = c.loc
    PROVE  Serves(e, g, m)
BY DEF Serves, FlagsSay, ListsSay, LocSays

LEMMA OnlyOptions ==
    ASSUME NEW c, NEW e, NEW S, OptionsSay(c, S), e.options = c.options
    PROVE  OptionsSay(e, S)
BY DEF OptionsSay

LEMMA OptionsUnset ==
    ASSUME NEW c \in Record, NEW e \in Record, NEW S, OptionsSay(c, S), e.options = C!UnsetEmpty(c.options)
    PROVE  OptionsSay(e, S)
<1> DEFINE t == c.options
           u == C!UnsetEmpty(t)
<1>1. t \in Seq(Pair)
  BY RecordFields
<1>2. /\ \A o \in Range(t) : o[2] = C!Option(S[o[1]])
      /\ \A k \in OptionKey : C!Option(S[k]) # "" => <<k, C!Option(S[k])>> \in Range(t)
  BY DEF OptionsSay
<1> HIDE DEF t
<1>3. /\ \A o \in Range(u) : o \in Range(t)
      /\ \A o \in Range(t) : o[2] # "" => o \in Range(u)
  BY <1>1, UnsetLeaves
<1> HIDE DEF u
<1>4. \A o \in Range(u) : o[2] = C!Option(S[o[1]])
  BY <1>2, <1>3
<1>5. ASSUME NEW k \in OptionKey, C!Option(S[k]) # "" PROVE <<k, C!Option(S[k])>> \in Range(u)
  <2> DEFINE o == <<k, C!Option(S[k])>>
  <2>1. o \in Range(t) /\ o[2] # ""
    BY <1>2, <1>5
  <2> HIDE DEF o
  <2>2. o \in Range(u)
    BY <1>3, <2>1
  <2> QED
    BY <2>2 DEF o
<1>6. e.options = u
  BY DEF t, u
<1> QED
  BY <1>4, <1>5, <1>6 DEF OptionsSay

-----------------------------------------------------------------------------
(* Virtual hosts over the main server.                                     *)
LEMMA ServersMerged ==
    ASSUME C!ConfigAssumption, ConfigInv, stage = "reading"
    PROVE  /\ Serves(local["main"], "main", {}) /\ OptionsSay(local["main"], OptionsIn("main", {}))
           /\ Serves(C!Merge(local["main"], local["vhost"]), "vhost", {})
           /\ OptionsSay(C!Merge(local["main"], local["vhost"]), OptionsIn("vhost", {}))
<1> DEFINE m == "main"
           v == "vhost"
           c == local["main"]
           e == local["vhost"]
<1>1. m \in C!Scope /\ v \in C!Scope /\ m \in C!Server /\ v \in C!Server
  BY SectionFacts
<1>2. Faithful(m) /\ Faithful(v)
  BY <1>1 DEF ConfigInv, Scopes
<1>3. c \in Record /\ e \in Record
  BY <1>1 DEF ConfigInv, ConfigType
<1>4. \A D : /\ C!Innermost(m, {}, D) = C!Read(m, D)
             /\ C!Innermost(v, {}, D) = IF C!Read(v, D) # <<>> THEN C!Read(v, D) ELSE C!Read(m, D)
  BY InnerNone
<1>5. /\ FlagsIn(m, {}) = FlagsOf(m) /\ ListsIn(m, {}) = ListsOf(m) /\ OptionsIn(m, {}) = OptionsOf(m)
      /\ FlagsIn(v, {}) = [f \in C!Flag |-> IF FlagsOf(v)[f] # <<>> THEN FlagsOf(v)[f] ELSE FlagsOf(m)[f]]
      /\ ListsIn(v, {}) = [x \in C!Slot |-> IF ListsOf(v)[x] # <<>> THEN ListsOf(v)[x] ELSE ListsOf(m)[x]]
      /\ OptionsIn(v, {}) = [k \in OptionKey |-> IF OptionsOf(v)[k] # <<>> THEN OptionsOf(v)[k] ELSE OptionsOf(m)[k]]
  BY <1>4 DEF FlagsIn, FlagsOf, ListsIn, ListsOf, OptionsIn, OptionsOf
<1>6. ScopesIn(m, {}) = {m} /\ ScopesIn(v, {}) = {m} \union {v}
  BY DEF ScopesIn
<1>7. /\ FlagsSay(c, FlagsOf(m)) /\ ListsSay(c, ListsOf(m), {m}) /\ OptionsSay(c, OptionsOf(m))
      /\ FlagsSay(e, FlagsOf(v)) /\ ListsSay(e, ListsOf(v), {v}) /\ OptionsSay(e, OptionsOf(v))
      /\ OptionsHas(e, OptionsOf(v))
  BY <1>2 DEF Faithful
<1>8. c.loc = FALSE /\ e.loc = FALSE
  <2>1. Where(m).loc = FALSE /\ Where(v).loc = FALSE
    BY <1>1, WhereFacts
  <2>2. c.loc \in BOOLEAN /\ e.loc \in BOOLEAN
    BY <1>3, RecordFields
  <2>3. (c.loc => Where(m).loc) /\ (e.loc => Where(v).loc)
    BY <1>2 DEF Faithful, LocOf
  <2> QED
    BY <2>1, <2>2, <2>3
<1>9. \A f \in C!Flag : FlagsOf(v)[f] \in Seq(Told \cap C!Flags(f))
  BY <1>1, ReadType DEF FlagsOf, ConfigInv
<1> DEFINE z == C!Merge(c, e)
<1>10. z.loc = FALSE
  BY <1>8 DEF C!Merge
<1> HIDE DEF c, e, m, v
<1>11. FlagsSay(z, FlagsIn(v, {}))
  BY <1>3, <1>5, <1>7, <1>9, MergeFlags
<1>12. ListsSay(z, ListsIn(v, {}), ScopesIn(v, {}))
  BY <1>3, <1>5, <1>6, <1>7, MergeLists
<1>13. OptionsSay(z, OptionsIn(v, {}))
  BY <1>3, <1>5, <1>7, MergeOptions
<1> HIDE DEF z
<1>14. Serves(z, v, {})
  BY <1>10, <1>11, <1>12 DEF Serves, LocSays
<1>15. Serves(c, m, {}) /\ OptionsSay(c, OptionsIn(m, {}))
  BY <1>5, <1>6, <1>7, <1>8 DEF Serves, LocSays
<1> QED
  BY <1>13, <1>14, <1>15 DEF z, c, e, m, v

LEMMA MergeServersStep ==
    ASSUME C!ConfigAssumption, ConfigInv, C!MergeServers
    PROVE  ConfigInv'
<1>0. ConfigType
  BY DEF ConfigInv
<1>1. /\ stage = "reading" /\ stage' = "serving" /\ configConf' = configConf /\ made' = made
      /\ log' = log /\ requests' = requests
      /\ local' = [local EXCEPT !["vhost"] = C!Merge(local["main"], local["vhost"])]
  BY DEF C!MergeServers
<1>2. "main" \in C!Scope /\ "vhost" \in C!Scope /\ C!Server = {"main", "vhost"}
  BY SectionFacts
<1>3. local'["vhost"] = C!Merge(local["main"], local["vhost"]) /\ local'["main"] = local["main"]
  BY <1>0, <1>1, <1>2 DEF ConfigType
<1>4. ConfigType'
  <2>1. C!Merge(local["main"], local["vhost"]) \in Record
    BY <1>0, <1>2, MergeType DEF ConfigType
  <2>2. local' \in [C!Scope -> Record]
    BY <1>0, <1>1, <2>1 DEF ConfigType
  <2> QED
    BY <1>0, <1>1, <2>2 DEF ConfigType
<1>5. \A r \in Request : ~C!On(r)'
  BY <1>1 DEF ConfigInv, Begun, C!On
<1>6. Begun'
  BY <1>1, <1>5 DEF ConfigInv, Begun
<1>7. Scopes'
  <2> SUFFICES ASSUME NEW i \in Secs PROVE Faithful(Sections[i].name)'
    BY <1>1 DEF Scopes
  <2> DEFINE n == Sections[i].name
  <2>1. n \in C!Scope /\ n # "vhost"
    BY <1>2, SectionFacts
  <2>2. local'[n] = local[n] /\ log'[n] = log[n]
    BY <1>0, <1>1, <2>1 DEF ConfigType
  <2>3. Faithful(n)
    BY DEF ConfigInv, Scopes
  <2> QED
    BY <2>1, <2>2, <2>3, FaithfulStays
<1>8. \A g \in C!Server : Serves(local[g], g, {})' /\ OptionsSay(local[g], OptionsIn(g, {}))'
  <2> SUFFICES ASSUME NEW g \in C!Server
               PROVE  Serves(local'[g], g, {}) /\ OptionsSay(local'[g], OptionsIn(g, {}))
    BY <1>1, ServerNow
  <2>1. CASE g = "main"
    BY <1>1, <1>3, <2>1, ServersMerged
  <2>2. CASE g = "vhost"
    BY <1>1, <1>3, <2>2, ServersMerged
  <2> QED
    BY <1>2, <2>1, <2>2
<1>9. Served' /\ Optioned'
  BY <1>5, <1>8 DEF Served, Optioned
<1> QED
  BY <1>4, <1>6, <1>7, <1>9 DEF ConfigInv

-----------------------------------------------------------------------------
(* Sections over a server, in their order.                                 *)
Says(c, g, m) ==
    /\ FlagsSay(c, FlagsIn(g, m))
    /\ ListsSay(c, ListsIn(g, m), ScopesIn(g, m))
    /\ LocSays(c, m)
    /\ ~SharedWrites => OptionsSay(c, OptionsIn(g, m))

LEMMA MergeOne ==
    ASSUME C!ConfigAssumption, ConfigInv, NEW g \in C!Server, NEW n \in Secs, NEW m \in SUBSET (1..n - 1),
           NEW c \in Record, Says(c, g, m)
    PROVE  Says(C!Merge(c, local[Sections[n].name]), g, m \union {n})
<1> DEFINE s == Sections[n].name
           e == local[s]
           z == C!Merge(c, e)
           k == m \union {n}
<1>1. s \in C!Scope /\ Sections[n].dir # C!Unset
  BY SectionFacts
<1>2. Faithful(s)
  BY DEF ConfigInv, Scopes
<1>3. e \in Record /\ ConfigType
  BY <1>1 DEF ConfigInv, ConfigType
<1>4. \A D : C!Innermost(g, k, D) = IF C!Read(s, D) # <<>> THEN C!Read(s, D) ELSE C!Innermost(g, m, D)
  BY InnerMore
<1>5. ScopesIn(g, k) = ScopesIn(g, m) \union {s}
  BY DEF ScopesIn
<1>6. C!Max(k) = n /\ k # {}
  BY MaxMore
<1>7. Where(s).dir = Sections[n].dir /\ Where(s).loc = Sections[n].location
  BY WhereFacts
<1>8. /\ FlagsSay(e, FlagsOf(s)) /\ ListsSay(e, ListsOf(s), {s}) /\ OptionsSay(e, OptionsOf(s))
      /\ OptionsHas(e, OptionsOf(s)) /\ LocOf(s)
  BY <1>2 DEF Faithful
<1>9. LocSays(z, k)
  <2>1. e.dir = Sections[n].dir /\ (e.loc => Sections[n].location /\ HasHandler(s))
    BY <1>7, <1>8 DEF LocOf
  <2>2. z.dir = e.dir /\ z.loc = e.loc
    BY <1>1, <2>1 DEF C!Merge
  <2> HIDE DEF z, e, k
  <2> QED
    BY <1>6, <2>1, <2>2 DEF LocSays
<1> HIDE DEF k
<1>10. /\ FlagsIn(g, k) = [f \in C!Flag |-> IF FlagsOf(s)[f] # <<>> THEN FlagsOf(s)[f] ELSE FlagsIn(g, m)[f]]
       /\ ListsIn(g, k) = [x \in C!Slot |-> IF ListsOf(s)[x] # <<>> THEN ListsOf(s)[x] ELSE ListsIn(g, m)[x]]
       /\ OptionsIn(g, k) = [x \in OptionKey |-> IF OptionsOf(s)[x] # <<>> THEN OptionsOf(s)[x] ELSE OptionsIn(g, m)[x]]
  <2> HIDE DEF s, e, z
  <2> QED
    BY <1>4 DEF FlagsIn, FlagsOf, ListsIn, ListsOf, OptionsIn, OptionsOf
<1>11. \A f \in C!Flag : FlagsOf(s)[f] \in Seq(Told \cap C!Flags(f))
  <2> HIDE DEF s, e, z
  <2> QED
    BY <1>1, <1>3, ReadType DEF FlagsOf
<1> HIDE DEF s, e
<1>12. FlagsSay(z, FlagsIn(g, k))
  BY <1>3, <1>8, <1>10, <1>11, MergeFlags DEF Says
<1>13. ListsSay(z, ListsIn(g, k), ScopesIn(g, k))
  BY <1>3, <1>5, <1>8, <1>10, MergeLists DEF Says
<1>14. ~SharedWrites => OptionsSay(z, OptionsIn(g, k))
  BY <1>3, <1>8, <1>10, MergeOptions DEF Says
<1> HIDE DEF z
<1>15. Says(z, g, k)
  BY <1>9, <1>12, <1>13, <1>14 DEF Says
<1> QED
  BY <1>15 DEF z, k, e, s

LEMMA MergedSays ==
    ASSUME C!ConfigAssumption, ConfigInv, stage = "serving", NEW g \in C!Server, NEW with \in SUBSET Secs
    PROVE  C!Merged(g, with) \in Record /\ Says(C!Merged(g, with), g, with)
<1> DEFINE Sect == [name : STRING, location : BOOLEAN, pattern : BOOLEAN, dir : STRING]
<1>a. Sections \in Seq(Sect) /\ local \in [C!Scope -> Record]
  BY DEF C!ConfigAssumption, ConfigInv, ConfigType
<1>b. \E f : Chains(f, g, with)
  BY <1>a, MergedIs
<1> HIDE DEF Sect
<1> DEFINE N == Len(Sections)
           Up(n) == with \cap (1..n)
<1>1. N \in Nat /\ Secs = 1..N
  BY SectionFacts
<1>2. PICK f \in [0..N -> Record] :
          /\ f[0] = local[g]
          /\ \A n \in 0..N - 1 : f[n + 1] = IF n + 1 \in with THEN C!Merge(f[n], local[Sections[n + 1].name]) ELSE f[n]
          /\ C!Merged(g, with) = f[N]
  BY <1>b DEF Chains
<1> DEFINE U == {n \in 0..N : Says(f[n], g, Up(n))}
<1> HIDE DEF N
<1>3. Says(f[0], g, Up(0))
  <2>1. Up(0) = {} /\ C!With({}) = {}
    BY DEF C!With
  <2>2. Serves(local[g], g, {}) /\ (~SharedWrites => OptionsSay(local[g], OptionsIn(g, {})))
    BY DEF ConfigInv, Served, Optioned
  <2> HIDE DEF Up
  <2>3. Says(local[g], g, {})
    BY <2>1, <2>2 DEF Serves, Says
  <2> QED
    BY Zenon, <1>2, <2>1, <2>3
<1>4. ASSUME NEW n \in 0..N - 1, Says(f[n], g, Up(n)) PROVE Says(f[n + 1], g, Up(n + 1))
  <2>1. n \in 0..N /\ n + 1 \in Secs /\ Up(n) \in SUBSET (1..(n + 1) - 1)
    BY <1>1
  <2>2. f[n] \in Record
    BY <1>2, <2>1
  <2>3. CASE n + 1 \in with
    <3>1. Up(n + 1) = Up(n) \union {n + 1}
      BY <1>1, <2>3
    <3>2. f[n + 1] = C!Merge(f[n], local[Sections[n + 1].name])
      BY <1>2, <2>3
    <3> HIDE DEF Up
    <3> QED
      BY <1>4, <2>1, <2>2, <3>1, <3>2, MergeOne
  <2>4. CASE n + 1 \notin with
    <3>1. Up(n + 1) = Up(n)
      BY <1>1, <2>4
    <3>2. f[n + 1] = f[n]
      BY <1>2, <2>4
    <3> HIDE DEF Up
    <3> QED
      BY Zenon, <1>4, <3>1, <3>2
  <2> QED
    BY <2>3, <2>4
<1>5. Up(N) = with
  BY <1>1
<1>6. Says(f[N], g, with)
  <2> HIDE DEF Up
  <2>1. 0 \in U
    BY <1>1, <1>3
  <2>2. ASSUME NEW n \in 0..N - 1, n \in U PROVE n + 1 \in U
    <3>1. n + 1 \in 0..N /\ Says(f[n], g, Up(n))
      BY <1>1, <2>2
    <3>2. Says(f[n + 1], g, Up(n + 1))
      BY <1>4, <3>1
    <3> QED
      BY Zenon, <3>1, <3>2
  <2>3. N \in 0..N
    BY <1>1
  <2>4. N \in U
    <3> HIDE DEF U
    <3> QED
      BY <1>1, <2>1, <2>2, <2>3, InductionUpTo
  <2> QED
    BY Zenon, <1>5, <2>4
<1>7. f[N] \in Record
  BY <1>1, <1>2
<1> QED
  BY <1>2, <1>6, <1>7

LEMMA MergedServes ==
    ASSUME C!ConfigAssumption, ConfigInv, stage = "serving", NEW g \in C!Server, NEW m \in SUBSET Secs
    PROVE  /\ C!Merged(g, C!With(m)) \in Record
           /\ Serves(C!Merged(g, C!With(m)), g, m)
           /\ ~SharedWrites => OptionsSay(C!Merged(g, C!With(m)), OptionsIn(g, m))
<1> DEFINE w == C!With(m)
           c == C!Merged(g, w)
<1>1. w \in SUBSET Secs /\ w \subseteq m
  BY DEF C!With
<1>2. \A D : C!Innermost(g, m, D) = C!Innermost(g, w, D)
  BY InnerWith DEF ConfigInv
<1> HIDE DEF w
<1>3. c \in Record /\ Says(c, g, w)
  BY <1>1, MergedSays
<1>4. FlagsIn(g, m) = FlagsIn(g, w) /\ ListsIn(g, m) = ListsIn(g, w) /\ OptionsIn(g, m) = OptionsIn(g, w)
  BY <1>2 DEF FlagsIn, ListsIn, OptionsIn
<1>5. ScopesIn(g, w) \subseteq ScopesIn(g, m)
  BY <1>1 DEF ScopesIn
<1> HIDE DEF c
<1>6. ListsSay(c, ListsIn(g, m), ScopesIn(g, m))
  <2>1. ListsSay(c, ListsIn(g, m), ScopesIn(g, w))
    BY <1>3, <1>4 DEF Says
  <2> QED
    BY <1>5, <2>1 DEF ListsSay
<1>7. Serves(c, g, m)
  BY <1>3, <1>4, <1>6 DEF Serves, Says, w
<1>8. ~SharedWrites => OptionsSay(c, OptionsIn(g, m))
  BY <1>3, <1>4 DEF Says
<1> QED
  BY <1>3, <1>7, <1>8 DEF c, w

-----------------------------------------------------------------------------
(* Steps of requests: one gets another record of its own, or the options   *)
(* of a server change.                                                     *)
RequestType == [server : C!Server \union {C!Unset}, matched : SUBSET Secs,
                shared : BOOLEAN, own : Record, wrote : BOOLEAN]

LEMMA ScopesStay ==
    ASSUME C!ConfigAssumption, ConfigInv, stage' # "reading",
           \A i \in Secs : local'[Sections[i].name] = local[Sections[i].name], log' = log
    PROVE  Scopes'
<1> SUFFICES ASSUME NEW i \in Secs PROVE Faithful(Sections[i].name)'
  BY DEF Scopes
<1>1. Sections[i].name \in C!Scope
  BY SectionFacts
<1>2. Faithful(Sections[i].name)
  BY DEF ConfigInv, Scopes
<1> QED
  BY <1>1, <1>2, FaithfulStays

LEMMA RequestStep ==
    ASSUME C!ConfigAssumption, ConfigInv, NEW r \in Request, NEW q \in RequestType,
           stage = "serving", UNCHANGED <<configConf, stage, local, made, log>>,
           requests' = [requests EXCEPT ![r] = q],
           q.server # C!Unset =>
               /\ q.shared <=> C!With(q.matched) = {}
               /\ ~q.shared => Serves(q.own, q.server, q.matched)
               /\ ~q.shared /\ ~q.wrote /\ ~SharedWrites
                  => OptionsSay(q.own, OptionsIn(q.server, q.matched))
    PROVE  ConfigInv'
<1>0. ConfigType /\ requests \in [Request -> RequestType]
  BY DEF ConfigInv, ConfigType, RequestType
<1>1. ConfigType'
  <2>1. requests' \in [Request -> RequestType]
    BY <1>0
  <2> QED
    BY <1>0, <2>1 DEF ConfigType, RequestType
<1>2. requests'[r] = q /\ \A x \in Request : x # r => requests'[x] = requests[x]
  BY <1>0
<1>3. Begun'
  <2> SUFFICES ASSUME NEW x \in Request, C!On(x)'
               PROVE  (requests[x].shared <=> C!With(requests[x].matched) = {})'
    BY DEF ConfigInv, Begun
  <2>1. requests'[x].server # C!Unset
    BY DEF C!On
  <2>2. C!With(requests[x].matched)' = C!With(requests'[x].matched)
    BY DEF C!With
  <2>3. CASE x = r
    BY <1>2, <2>1, <2>2, <2>3
  <2>4. CASE x # r
    <3>1. C!On(x) /\ requests'[x] = requests[x]
      BY <1>2, <2>1, <2>4 DEF C!On
    <3> QED
      BY <2>2, <3>1 DEF ConfigInv, Begun
  <2> QED
    BY <2>3, <2>4
<1>4. Scopes'
  BY ScopesStay
<1>5. \A g \in C!Server : Serves(local[g], g, {})'
  <2> SUFFICES ASSUME NEW g \in C!Server PROVE Serves(local'[g], g, {})
    BY ServerNow
  <2> QED
    BY DEF ConfigInv, Served
<1>6. ASSUME NEW x \in Request, C!On(x)', ~requests'[x].shared
      PROVE  Serves(Own(x), Srv(x), Match(x))'
  <2> SUFFICES Serves(Own(x)', Srv(x)', Match(x)')
    BY RequestNow
  <2>1. requests'[x].server # C!Unset
    BY <1>6 DEF C!On
  <2>2. CASE x = r
    BY <1>2, <1>6, <2>1, <2>2 DEF Own, Srv, Match
  <2>3. CASE x # r
    <3>1. C!On(x) /\ requests'[x] = requests[x]
      BY <1>2, <2>1, <2>3 DEF C!On
    <3>2. Serves(requests[x].own, requests[x].server, requests[x].matched)
      BY <1>6, <3>1 DEF ConfigInv, Served
    <3> QED
      BY <3>1, <3>2 DEF Own, Srv, Match
  <2> QED
    BY <2>2, <2>3
<1>7. Served'
  BY <1>5, <1>6 DEF Served, Own, Srv, Match
<1>8. ASSUME ~SharedWrites, NEW g \in C!Server PROVE OptionsSay(local[g], OptionsIn(g, {}))'
  <2>1. OptionsSay(local[g], OptionsIn(g, {})) /\ local' = local
    BY <1>8 DEF ConfigInv, Optioned
  <2> QED
    BY <2>1, ServerNow
<1>9. ASSUME ~SharedWrites, NEW x \in Request, C!On(x)', ~requests'[x].shared, ~requests'[x].wrote
      PROVE  OptionsSay(Own(x), OptionsIn(Srv(x), Match(x)))'
  <2> SUFFICES OptionsSay(Own(x)', OptionsIn(Srv(x)', Match(x)'))
    BY RequestNow
  <2>1. requests'[x].server # C!Unset
    BY <1>9 DEF C!On
  <2>2. CASE x = r
    BY <1>2, <1>9, <2>1, <2>2 DEF Own, Srv, Match
  <2>3. CASE x # r
    <3>1. C!On(x) /\ requests'[x] = requests[x]
      BY <1>2, <2>1, <2>3 DEF C!On
    <3>2. OptionsSay(requests[x].own, OptionsIn(requests[x].server, requests[x].matched))
      BY <1>9, <3>1 DEF ConfigInv, Optioned
    <3> QED
      BY <3>1, <3>2 DEF Own, Srv, Match
  <2> QED
    BY <2>2, <2>3
<1>10. Optioned'
  BY <1>8, <1>9 DEF Optioned, Own, Srv, Match
<1> QED
  BY <1>1, <1>3, <1>4, <1>7, <1>10 DEF ConfigInv

LEMMA ServerStep ==
    ASSUME C!ConfigAssumption, ConfigInv, NEW r \in Request, NEW s \in C!Server, NEW e \in Record,
           NEW w \in BOOLEAN,
           stage = "serving", UNCHANGED <<configConf, stage, made, log>>,
           e.flags = local[s].flags, e.hlists = local[s].hlists,
           e.dir = local[s].dir, e.loc = local[s].loc,
           ~SharedWrites => e.options = C!UnsetEmpty(local[s].options),
           local' = [local EXCEPT ![s] = e],
           requests[r].wrote => w, requests' = [requests EXCEPT ![r].wrote = w]
    PROVE  ConfigInv'
<1>0. ConfigType /\ requests \in [Request -> RequestType] /\ local \in [C!Scope -> Record]
  BY DEF ConfigInv, ConfigType, RequestType
<1>1. s \in C!Scope /\ \A g \in C!Server : g \in C!Scope
  BY SectionFacts
<1>2. /\ \A x \in Request : /\ requests'[x].server = requests[x].server /\ requests'[x].own = requests[x].own
                            /\ requests'[x].matched = requests[x].matched
                            /\ requests'[x].shared = requests[x].shared
                            /\ requests[x].wrote => requests'[x].wrote
      /\ requests' \in [Request -> RequestType]
  <2>1. [requests[r] EXCEPT !.wrote = w] \in RequestType
    BY <1>0 DEF RequestType
  <2>2. requests' \in [Request -> RequestType]
    BY <1>0, <2>1
  <2>3. requests[r] \in RequestType
    BY <1>0
  <2>4. /\ requests'[r].server = requests[r].server /\ requests'[r].own = requests[r].own
        /\ requests'[r].matched = requests[r].matched /\ requests'[r].shared = requests[r].shared
        /\ requests'[r].wrote = w
    BY <1>0, <2>3 DEF RequestType
  <2>5. \A x \in Request : x # r => requests'[x] = requests[x]
    BY <1>0
  <2> QED
    BY <2>2, <2>4, <2>5
<1>3. ConfigType'
  <2>1. local' \in [C!Scope -> Record]
    BY <1>0
  <2> QED
    BY <1>0, <1>2, <2>1 DEF ConfigType, RequestType
<1>4. Begun'
  <2> SUFFICES ASSUME NEW x \in Request, C!On(x)'
               PROVE  (requests[x].shared <=> C!With(requests[x].matched) = {})'
    BY DEF ConfigInv, Begun
  <2>1. C!On(x)
    BY <1>2 DEF C!On
  <2>2. C!With(requests[x].matched)' = C!With(requests'[x].matched)
    BY DEF C!With
  <2> QED
    BY SMTT(30), <1>2, <2>1, <2>2 DEF ConfigInv, Begun
<1>5. Scopes'
  <2>1. \A i \in Secs : Sections[i].name \in C!Scope /\ Sections[i].name # s
    BY SectionFacts
  <2>2. \A i \in Secs : local'[Sections[i].name] = local[Sections[i].name]
    BY <1>0, <2>1
  <2> QED
    BY <2>2, ScopesStay
<1>6. ASSUME NEW g \in C!Server
      PROVE  /\ Serves(local[g], g, {})'
             /\ ~SharedWrites => OptionsSay(local[g], OptionsIn(g, {}))'
  <2>1. Serves(local[g], g, {}) /\ (~SharedWrites => OptionsSay(local[g], OptionsIn(g, {})))
    BY DEF ConfigInv, Served, Optioned
  <2>2. CASE g = s
    <3>1. local'[g] = e /\ local[g] \in Record
      BY <1>0, <1>1, <2>2
    <3>2. Serves(e, g, {})
      BY <2>1, <2>2, SameSay
    <3>3. ~SharedWrites => OptionsSay(e, OptionsIn(g, {}))
      BY <2>1, <2>2, <3>1, OptionsUnset
    <3> QED
      BY <3>1, <3>2, <3>3, ServerNow
  <2>3. CASE g # s
    <3>1. local'[g] = local[g]
      BY <1>0, <1>1, <2>3
    <3> QED
      BY <2>1, <3>1, ServerNow
  <2> QED
    BY <2>2, <2>3
<1>7. ASSUME NEW x \in Request, C!On(x)', ~requests'[x].shared
      PROVE  /\ Serves(Own(x), Srv(x), Match(x))'
             /\ ~SharedWrites /\ ~requests'[x].wrote => OptionsSay(Own(x), OptionsIn(Srv(x), Match(x)))'
  <2>1. C!On(x) /\ ~requests[x].shared /\ (requests[x].wrote => requests'[x].wrote)
    BY <1>2, <1>7 DEF C!On
  <2>2. Own(x)' = Own(x) /\ Srv(x)' = Srv(x) /\ Match(x)' = Match(x)
    BY <1>2 DEF Own, Srv, Match
  <2>3. Serves(Own(x), Srv(x), Match(x))
    BY <2>1 DEF ConfigInv, Served, Own, Srv, Match
  <2>4. ~SharedWrites /\ ~requests[x].wrote => OptionsSay(Own(x), OptionsIn(Srv(x), Match(x)))
    BY <2>1 DEF ConfigInv, Optioned, Own, Srv, Match
  <2> QED
    BY <2>1, <2>2, <2>3, <2>4, RequestNow
<1>8. Served'
  BY <1>6, <1>7 DEF Served, Own, Srv, Match
<1>9. Optioned'
  BY <1>6, <1>7 DEF Optioned, Own, Srv, Match
<1> QED
  BY <1>3, <1>4, <1>5, <1>8, <1>9 DEF ConfigInv

LEMMA BeginStep ==
    ASSUME C!ConfigAssumption, ConfigInv, NEW r \in Request, NEW g \in C!Server,
           NEW m \in SUBSET configConf.sections, C!Begin(r, g, m)
    PROVE  ConfigInv'
<1> DEFINE w == C!With(m)
           o == IF w = {} THEN C!CreateConfig(C!Unset) ELSE C!Merged(g, w)
           b == w = {}
           q == [server |-> g, matched |-> m, shared |-> b, wrote |-> FALSE, own |-> o]
<1>1. m \in SUBSET Secs
  BY DEF ConfigInv, ConfigType, C!ConfigAssumption, Secs
<1>2. /\ stage = "serving" /\ UNCHANGED <<configConf, stage, local, made, log>>
      /\ requests' = [requests EXCEPT ![r] = q]
  BY DEF C!Begin
<1>3. /\ C!Merged(g, w) \in Record /\ Serves(C!Merged(g, w), g, m)
      /\ ~SharedWrites => OptionsSay(C!Merged(g, w), OptionsIn(g, m))
  BY <1>1, <1>2, MergedServes
<1>4. o \in Record /\ (w # {} => o = C!Merged(g, w))
  BY <1>3, CreateType DEF Dirs
<1>5. b \in BOOLEAN /\ (b <=> w = {})
  OBVIOUS
<1> HIDE DEF o, b
<1>6. /\ q.server = g /\ q.matched = m /\ q.shared = b /\ q.wrote = FALSE /\ q.own = o
      /\ q \in RequestType
  BY <1>1, <1>4, <1>5 DEF RequestType
<1> HIDE DEF q
<1>7. q.server # C!Unset =>
          /\ q.shared <=> C!With(q.matched) = {}
          /\ ~q.shared => Serves(q.own, q.server, q.matched)
          /\ ~q.shared /\ ~q.wrote /\ ~SharedWrites => OptionsSay(q.own, OptionsIn(q.server, q.matched))
  BY <1>3, <1>4, <1>5, <1>6
<1> QED
  BY <1>2, <1>6, <1>7, RequestStep

LEMMA EndStep ==
    ASSUME C!ConfigAssumption, ConfigInv, NEW r \in Request, C!End(r)
    PROVE  ConfigInv'
<1>1. /\ C!On(r) /\ UNCHANGED <<configConf, stage, local, made, log>>
      /\ requests' = [requests EXCEPT ![r] = C!NoRequest]
  BY DEF C!End
<1>2. stage = "serving"
  BY <1>1 DEF ConfigInv, Begun
<1>3. C!NoRequest \in RequestType /\ C!NoRequest.server = C!Unset
  <2> DEFINE o == C!CreateConfig(C!Unset)
  <2>1. o \in Record
    BY CreateType DEF Dirs
  <2>2. C!NoRequest = [server |-> C!Unset, matched |-> {}, shared |-> TRUE, own |-> o, wrote |-> FALSE]
    BY DEF C!NoRequest
  <2> HIDE DEF o
  <2> QED
    BY <2>1, <2>2 DEF RequestType
<1> QED
  BY <1>1, <1>2, <1>3, RequestStep

\* A request that has begun.
LEMMA OnFacts ==
    ASSUME C!ConfigAssumption, ConfigInv, NEW r \in Request, C!On(r)
    PROVE  /\ stage = "serving" /\ requests[r] \in RequestType /\ requests[r].server \in C!Server
           /\ local[requests[r].server] \in Record /\ C!Conf(r) \in Record
           /\ requests[r].shared <=> C!With(requests[r].matched) = {}
           /\ requests[r].matched \in SUBSET Secs
<1>1. requests[r] \in RequestType
  BY DEF ConfigInv, ConfigType, RequestType
<1>2. requests[r].server \in C!Server /\ requests[r].own \in Record /\ requests[r].matched \in SUBSET Secs
  BY <1>1 DEF C!On, RequestType
<1>3. local[requests[r].server] \in Record
  BY <1>2, SectionFacts DEF ConfigInv, ConfigType
<1>4. C!Conf(r) \in Record
  BY <1>2, <1>3 DEF C!Conf
<1> QED
  BY <1>1, <1>2, <1>3, <1>4 DEF ConfigInv, Begun

\* Other options for the record of a request or that of its server.
LEMMA OwnOptions ==
    ASSUME C!ConfigAssumption, ConfigInv, NEW r \in Request, C!On(r), ~requests[r].shared,
           NEW o \in Seq(Pair), NEW w \in BOOLEAN,
           UNCHANGED <<configConf, stage, local, made, log>>,
           requests' = [requests EXCEPT ![r].own.options = o, ![r].wrote = w],
           ~w => ~requests[r].wrote /\ o = C!UnsetEmpty(requests[r].own.options)
    PROVE  ConfigInv'
<1> DEFINE c == requests[r].own
           e == [c EXCEPT !.options = o]
           q == [requests[r] EXCEPT !.own = e, !.wrote = w]
           g == requests[r].server
           m == requests[r].matched
<1>1. stage = "serving" /\ requests[r] \in RequestType /\ (requests[r].shared <=> C!With(m) = {})
  BY OnFacts
<1>2. c \in Record /\ e \in Record /\ e.flags = c.flags /\ e.hlists = c.hlists /\ e.dir = c.dir /\ e.loc = c.loc
      /\ e.options = o
  <2>1. c \in Record
    BY <1>1 DEF RequestType
  <2> HIDE DEF c
  <2> QED
    BY <2>1 DEF Record
<1>3. Serves(c, g, m) /\ (~SharedWrites /\ ~requests[r].wrote => OptionsSay(c, OptionsIn(g, m)))
  BY <1>1 DEF ConfigInv, Served, Optioned
<1>4. requests' = [requests EXCEPT ![r] = q]
  <2>1. requests \in [Request -> RequestType]
    BY DEF ConfigInv, ConfigType, RequestType
  <2> QED
    BY <1>1, <2>1 DEF RequestType
<1>5. q \in RequestType /\ q.server = g /\ q.matched = m /\ q.shared = requests[r].shared /\ q.wrote = w /\ q.own = e
  <2> HIDE DEF e
  <2> QED
    BY <1>1, <1>2 DEF RequestType
<1> HIDE DEF q, e, c, g, m
<1>6. Serves(e, g, m)
  BY <1>2, <1>3, SameSay
<1>7. ~SharedWrites /\ ~w => OptionsSay(e, OptionsIn(g, m))
  <2>1. ~w => ~requests[r].wrote /\ o = C!UnsetEmpty(c.options)
    BY DEF c
  <2> QED
    BY <1>2, <1>3, <2>1, OptionsUnset
<1>8. q.server # C!Unset =>
          /\ q.shared <=> C!With(q.matched) = {}
          /\ ~q.shared => Serves(q.own, q.server, q.matched)
          /\ ~q.shared /\ ~q.wrote /\ ~SharedWrites => OptionsSay(q.own, OptionsIn(q.server, q.matched))
  BY <1>1, <1>5, <1>6, <1>7
<1> QED
  BY <1>1, <1>4, <1>5, <1>8, RequestStep

LEMMA SharedOptions ==
    ASSUME C!ConfigAssumption, ConfigInv, NEW r \in Request, C!On(r), NEW o \in Seq(Pair), NEW w \in BOOLEAN,
           UNCHANGED <<configConf, stage, made, log>>,
           local' = [local EXCEPT ![requests[r].server].options = o],
           requests' = [requests EXCEPT ![r].wrote = w], requests[r].wrote => w,
           ~SharedWrites => o = C!UnsetEmpty(local[requests[r].server].options)
    PROVE  ConfigInv'
<1> DEFINE s == requests[r].server
           e == [local[s] EXCEPT !.options = o]
<1>1. stage = "serving" /\ s \in C!Server /\ local[s] \in Record
  BY OnFacts
<1>2. e \in Record /\ e.flags = local[s].flags /\ e.hlists = local[s].hlists /\ e.dir = local[s].dir
      /\ e.loc = local[s].loc /\ e.options = o
  BY <1>1 DEF Record
<1>3. local' = [local EXCEPT ![s] = e]
  OBVIOUS
<1>4. ~SharedWrites => e.options = C!UnsetEmpty(local[s].options)
  BY <1>2
<1> HIDE DEF e, s
<1> QED
  BY <1>1, <1>2, <1>3, <1>4, ServerStep

LEMMA GetOptionsStep ==
    ASSUME C!ConfigAssumption, ConfigInv, NEW r \in Request, C!GetOptions(r)
    PROVE  ConfigInv'
<1> DEFINE o == C!UnsetEmpty(C!Conf(r).options)
<1>1. C!On(r) /\ UNCHANGED <<configConf, stage, made, log>>
  BY DEF C!GetOptions, C!SetOptions
<1>2. o \in Seq(Pair)
  BY <1>1, OnFacts, RecordFields, UnsetLeaves
<1>3. requests \in [Request -> RequestType] /\ requests[r].wrote \in BOOLEAN
  BY DEF ConfigInv, ConfigType, RequestType
<1>4. CASE requests[r].shared
  <2>1. /\ local' = [local EXCEPT ![requests[r].server].options = o] /\ requests' = requests
        /\ o = C!UnsetEmpty(local[requests[r].server].options)
    BY <1>4 DEF C!GetOptions, C!SetOptions, C!Conf
  <2>2. requests' = [requests EXCEPT ![r].wrote = requests[r].wrote]
    BY <1>3, <2>1 DEF RequestType
  <2> HIDE DEF o
  <2> QED
    BY <1>1, <1>2, <1>3, <2>1, <2>2, SharedOptions
<1>5. CASE ~requests[r].shared
  <2>1. /\ requests' = [requests EXCEPT ![r].own.options = o] /\ local' = local
        /\ o = C!UnsetEmpty(requests[r].own.options)
    BY <1>5 DEF C!GetOptions, C!SetOptions, C!Conf
  <2> HIDE DEF o
  <2>2. requests' = [requests EXCEPT ![r].own.options = o, ![r].wrote = requests[r].wrote]
    BY <1>3, <2>1 DEF RequestType
  <2> QED
    BY <1>1, <1>2, <1>3, <1>5, <2>1, <2>2, OwnOptions
<1> QED
  BY <1>4, <1>5

LEMMA WriteOptionStep ==
    ASSUME C!ConfigAssumption, ConfigInv, NEW r \in Request, NEW k \in OptionKey, NEW v \in OptionValue,
           C!WriteOption(r, k, v)
    PROVE  ConfigInv'
<1> DEFINE s == requests[r].server
<1>1. C!On(r) /\ UNCHANGED <<configConf, stage, made, log>> /\ (requests[r].shared => SharedWrites)
  BY DEF C!WriteOption
<1>2. requests \in [Request -> RequestType] /\ local \in [C!Scope -> Record]
  BY DEF ConfigInv, ConfigType, RequestType
<1>3. s \in C!Scope /\ local[s] \in Record /\ requests[r] \in RequestType /\ requests[r].own \in Record
  BY <1>1, <1>2, OnFacts, SectionFacts DEF RequestType
<1>4. CASE requests[r].shared
  <2> DEFINE o == C!Assign(local[s].options, k, v)
  <2>1. local' = [local EXCEPT ![s].options = o] /\ requests' = [requests EXCEPT ![r].wrote = TRUE]
    BY <1>2, <1>3, <1>4 DEF C!WriteOption
  <2>2. o \in Seq(Pair)
    BY <1>3, RecordFields, AssignType
  <2> HIDE DEF o
  <2> QED
    BY <1>1, <1>4, <2>1, <2>2, SharedOptions
<1>5. CASE ~requests[r].shared
  <2> DEFINE o == C!Assign(requests[r].own.options, k, v)
  <2>1. local' = local /\ requests' = [requests EXCEPT ![r].wrote = TRUE, ![r].own.options = o]
    BY <1>2, <1>3, <1>5 DEF C!WriteOption
  <2>2. o \in Seq(Pair)
    BY <1>3, RecordFields, AssignType
  <2> HIDE DEF o
  <2>3. requests' = [requests EXCEPT ![r].own.options = o, ![r].wrote = TRUE]
    BY <1>2, <1>3, <2>1 DEF RequestType
  <2> QED
    BY <1>1, <1>5, <2>1, <2>2, <2>3, OwnOptions
<1> QED
  BY <1>4, <1>5

LEMMA ConfigIdle ==
    ASSUME C!ConfigAssumption, ConfigInv, UNCHANGED C!vars
    PROVE  ConfigInv'
<1>1. /\ configConf' = configConf /\ stage' = stage /\ local' = local /\ made' = made
      /\ log' = log /\ requests' = requests
  BY DEF C!vars
<1>2. ConfigType'
  BY <1>1 DEF ConfigInv, ConfigType
<1>3. Begun'
  BY <1>1 DEF ConfigInv, Begun, C!On, C!With
<1>4. Scopes'
  <2>1. \A g \in C!Server : g \in C!Scope
    BY SectionFacts
  <2>2. \A i \in Secs : Sections[i].name \in C!Scope
    BY SectionFacts
  <2>3. \A t \in C!Scope : Faithful(t) => Faithful(t)'
    BY <1>1, FaithfulStays
  <2>4. (stage = "reading" => \A g \in C!Server : Faithful(g)) /\ \A i \in Secs : Faithful(Sections[i].name)
    BY DEF ConfigInv, Scopes
  <2>5. stage = "reading" => \A g \in C!Server : Faithful(g)'
    BY <2>1, <2>3, <2>4
  <2>6. \A i \in Secs : Faithful(Sections[i].name)'
    BY <2>2, <2>3, <2>4
  <2> QED
    BY <1>1, <2>5, <2>6 DEF Scopes
<1>5. ASSUME NEW g \in C!Server, stage = "serving"
      PROVE  Serves(local[g], g, {})' /\ (~SharedWrites => OptionsSay(local[g], OptionsIn(g, {}))')
  <2>1. Serves(local[g], g, {}) /\ (~SharedWrites => OptionsSay(local[g], OptionsIn(g, {})))
    BY <1>5 DEF ConfigInv, Served, Optioned
  <2> QED
    BY <1>1, <2>1, ServerNow
<1>6. ASSUME NEW x \in Request, stage = "serving", C!On(x)', ~requests'[x].shared
      PROVE  /\ Serves(Own(x), Srv(x), Match(x))'
             /\ ~SharedWrites /\ ~requests'[x].wrote => OptionsSay(Own(x), OptionsIn(Srv(x), Match(x)))'
  <2>1. C!On(x) /\ ~requests[x].shared /\ (requests[x].wrote <=> requests'[x].wrote)
    BY <1>1, <1>6 DEF C!On
  <2>2. Own(x)' = Own(x) /\ Srv(x)' = Srv(x) /\ Match(x)' = Match(x)
    BY <1>1 DEF Own, Srv, Match
  <2>3. Serves(Own(x), Srv(x), Match(x))
    BY <1>6, <2>1 DEF ConfigInv, Served, Own, Srv, Match
  <2>4. ~SharedWrites /\ ~requests[x].wrote => OptionsSay(Own(x), OptionsIn(Srv(x), Match(x)))
    BY <1>6, <2>1 DEF ConfigInv, Optioned, Own, Srv, Match
  <2> QED
    BY <1>1, <2>1, <2>2, <2>3, <2>4, RequestNow
<1>7. Served' /\ Optioned'
  BY <1>1, <1>5, <1>6 DEF Served, Optioned, Own, Srv, Match
<1> QED
  BY <1>2, <1>3, <1>4, <1>7 DEF ConfigInv

LEMMA ConfigStep ==
    ASSUME C!ConfigAssumption, ConfigInv, [C!Next]_(C!vars)
    PROVE  ConfigInv'
<1>1. CASE C!Directive
  BY <1>1, DirectiveStep
<1>2. CASE C!MergeServers
  BY <1>2, MergeServersStep
<1>3. CASE C!Serve
  <2>1. PICK r \in Request :
            \/ \E g \in C!Server, m \in SUBSET configConf.sections : C!Begin(r, g, m)
            \/ C!GetOptions(r) \/ C!End(r)
            \/ \E k \in OptionKey, v \in OptionValue : C!WriteOption(r, k, v)
    BY <1>3 DEF C!Serve
  <2> QED
    BY <2>1, BeginStep, GetOptionsStep, EndStep, WriteOptionStep
<1>4. CASE UNCHANGED C!vars
  BY <1>4, ConfigIdle
<1> QED
  BY <1>1, <1>2, <1>3, <1>4 DEF C!Next

(* What a record says goes by the directives read: in the record of each   *)
(* scope by those in it, in those that requests are served by, merged or   *)
(* shared, by those of the innermost scope that has any.                   *)
THEOREM ConfigInvariantHolds == C!ConfigAssumption => (C!Spec => []ConfigInv)
<1> SUFFICES ASSUME C!ConfigAssumption PROVE C!Spec => []ConfigInv
  OBVIOUS
<1>1. C!Init => ConfigInv
  BY ConfigInit
<1>2. ConfigInv /\ [C!Next]_(C!vars) => ConfigInv'
  BY ConfigStep
<1> QED
  BY <1>1, <1>2, PTL DEF C!Spec

-----------------------------------------------------------------------------
(* What requests are served by.                                            *)
LEMMA ConfServes ==
    ASSUME C!ConfigAssumption, ConfigInv, NEW r \in Request, C!On(r)
    PROVE  /\ Serves(C!Conf(r), requests[r].server, requests[r].matched)
           /\ ~SharedWrites /\ ~requests[r].wrote
              => OptionsSay(C!Conf(r), OptionsIn(requests[r].server, requests[r].matched))
<1> DEFINE g == requests[r].server
           m == requests[r].matched
           c == C!Conf(r)
<1>1. /\ stage = "serving" /\ g \in C!Server /\ m \in SUBSET Secs
      /\ requests[r].shared <=> C!With(m) = {}
  BY OnFacts
<1>2. CASE ~requests[r].shared
  <2>1. c = requests[r].own
    BY <1>2 DEF C!Conf
  <2> QED
    BY <1>1, <1>2, <2>1 DEF ConfigInv, Served, Optioned
<1>3. CASE requests[r].shared
  <2>1. c = local[g] /\ C!With(m) = {} /\ C!With({}) = {}
    BY <1>1, <1>3 DEF C!Conf, C!With
  <2>2. \A D : C!Innermost(g, m, D) = C!Innermost(g, {}, D)
    BY <1>1, <2>1, InnerWith DEF ConfigInv
  <2>3. FlagsIn(g, m) = FlagsIn(g, {}) /\ ListsIn(g, m) = ListsIn(g, {}) /\ OptionsIn(g, m) = OptionsIn(g, {})
    BY <2>2 DEF FlagsIn, ListsIn, OptionsIn
  <2>4. Serves(c, g, {}) /\ (~SharedWrites => OptionsSay(c, OptionsIn(g, {})))
    BY <1>1, <2>1 DEF ConfigInv, Served, Optioned
  <2>5. ScopesIn(g, {}) \subseteq ScopesIn(g, m)
    BY DEF ScopesIn
  <2> HIDE DEF c, g, m
  <2>6. ListsSay(c, ListsIn(g, m), ScopesIn(g, m))
    <3>1. ListsSay(c, ListsIn(g, m), ScopesIn(g, {}))
      BY <2>3, <2>4 DEF Serves
    <3> QED
      BY <2>5, <3>1 DEF ListsSay
  <2>7. Serves(c, g, m)
    BY <2>1, <2>3, <2>4, <2>6 DEF Serves
  <2> QED
    BY <2>3, <2>4, <2>7 DEF c, g, m
<1> QED
  BY <1>2, <1>3

(* Mapping to storage is left out only for a request whose innermost       *)
(* section with directives is a <Location> that names a handler, and its   *)
(* path is where a WSGI application is.                                    *)
THEOREM Locations == C!ConfigAssumption => (C!Spec => []OnlyLocations)
<1> SUFFICES ASSUME C!ConfigAssumption PROVE C!Spec => []OnlyLocations
  OBVIOUS
<1>1. ConfigInv => OnlyLocations
  <2> SUFFICES ASSUME ConfigInv, NEW r \in Request, C!On(r), C!MapToStorage(r) = "OK"
               PROVE  LET inner == Sections[C!Max(C!With(requests[r].matched))]
                      IN  /\ inner.location /\ C!WsgiBase(r) = inner.dir
                          /\ \E d \in C!Range(log[inner.name]) : d[1] = "handler"
    BY DEF OnlyLocations, C!OnlyLocations
  <2> DEFINE w == C!With(requests[r].matched)
             c == C!Conf(r)
             n == C!Max(w)
  <2>1. c.loc
    BY DEF C!MapToStorage
  <2>2. LocSays(c, w)
    BY ConfServes DEF Serves
  <2>3. C!WsgiBase(r) = c.dir
    BY <2>1 DEF C!WsgiBase
  <2> HIDE DEF c, w
  <2>4. Sections[n].location /\ c.dir = Sections[n].dir /\ HasHandler(Sections[n].name)
    BY <2>1, <2>2 DEF LocSays
  <2>5. \E d \in C!Range(log[Sections[n].name]) : d[1] = "handler"
    <3> HIDE DEF n
    <3> QED
      BY <2>4 DEF HasHandler, Range, C!Range
  <2> QED
    BY <2>3, <2>4, <2>5 DEF w
<1> QED
  BY <1>1, ConfigInvariantHolds, PTL

(* The options of a request are the last set in the innermost scope that   *)
(* sets them, whatever requests before it or beside it took out of the     *)
(* table that they share, as long as handlers do not write to that.        *)
THEOREM OptionsOfScopes == C!ConfigAssumption /\ ~SharedWrites => (C!Spec => []EffectiveOptions)
<1> SUFFICES ASSUME C!ConfigAssumption, ~SharedWrites PROVE C!Spec => []EffectiveOptions
  OBVIOUS
<1>1. ConfigInv => EffectiveOptions
  <2> SUFFICES ASSUME ConfigInv, NEW r \in Request, C!On(r), ~requests[r].wrote
               PROVE  {o \in C!Range(C!Conf(r).options) : o[2] # ""}
                          = {<<k, C!Option(C!Said(r, C!Options(k)))>> :
                                k \in {k \in OptionKey : C!Option(C!Said(r, C!Options(k))) # ""}}
    BY DEF EffectiveOptions, C!EffectiveOptions
  <2> DEFINE t == C!Conf(r).options
             S == OptionsIn(requests[r].server, requests[r].matched)
             v(k) == C!Option(C!Said(r, C!Options(k)))
  <2>1. t \in Seq(Pair)
    BY OnFacts, RecordFields
  <2>2. /\ \A o \in Range(t) : o[2] = C!Option(S[o[1]])
        /\ \A k \in OptionKey : C!Option(S[k]) # "" => <<k, C!Option(S[k])>> \in Range(t)
    BY ConfServes DEF OptionsSay
  <2>3. \A k \in OptionKey : C!Option(S[k]) = v(k)
    BY DEF OptionsIn, C!Said
  <2> HIDE DEF t, S, v
  <2>4. \A o \in Range(t) : o = <<o[1], o[2]>> /\ o[1] \in OptionKey
    <3>1. \A o \in Pair : o = <<o[1], o[2]>> /\ o[1] \in OptionKey
      BY DEF Pair
    <3>2. \A o \in Range(t) : o \in Pair
      BY <2>1 DEF Range
    <3> QED
      BY <3>1, <3>2
  <2>5. C!Range(t) = Range(t)
    BY DEF C!Range, Range
  <2>6. {o \in Range(t) : o[2] # ""} = {<<k, v(k)>> : k \in {k \in OptionKey : v(k) # ""}}
    <3>1. ASSUME NEW o \in Range(t), o[2] # "" PROVE \E k \in OptionKey : v(k) # "" /\ o = <<k, v(k)>>
      <4>1. o[1] \in OptionKey /\ o = <<o[1], o[2]>>
        BY <2>4
      <4>2. o[2] = v(o[1])
        BY <2>2, <2>3, <4>1
      <4>3. v(o[1]) # "" /\ o = <<o[1], v(o[1])>>
        BY <3>1, <4>1, <4>2
      <4> QED
        BY <4>1, <4>3
    <3>2. ASSUME NEW k \in OptionKey, v(k) # "" PROVE <<k, v(k)>> \in Range(t) /\ <<k, v(k)>>[2] # ""
      BY <2>2, <2>3, <3>2
    <3> QED
      BY <3>1, <3>2
  <2> QED
    BY <2>5, <2>6 DEF t, v
<1> QED
  BY <1>1, ConfigInvariantHolds, PTL

\* The list of handlers of a phase, and the directives it is from.
SlotOf(r, p) ==
    IF C!Said(r, C!Handlers(<<p, File.ext>>)) # <<>> THEN <<p, File.ext>> ELSE <<p, "">>
Found(r, p) == C!Conf(r).hlists[SlotOf(r, p)]
From(r, p)  == C!Said(r, C!Handlers(SlotOf(r, p)))

LEMMA ListIs ==
    ASSUME C!ConfigAssumption, ConfigInv, NEW r \in Request, C!On(r), NEW p \in Phase
    PROVE  /\ Found(r, p) \in Seq(ListEntry) /\ From(r, p) \in Seq(HandlerTold)
           /\ C!HlistOf(r, p) = [i \in DOMAIN Found(r, p) |->
                                    IF ~Found(r, p)[i].loc /\ Found(r, p)[i].pattern
                                    THEN [Found(r, p)[i] EXCEPT !.dir = ResolvedDir[@], !.pattern = FALSE]
                                    ELSE Found(r, p)[i]]
           /\ \E s \in ScopesIn(requests[r].server, requests[r].matched) :
                  /\ Listed(Found(r, p), s, From(r, p))
                  /\ \A d \in Range(From(r, p)) : d \in Range(log[s])
<1> DEFINE g == requests[r].server
           m == requests[r].matched
           c == C!Conf(r)
           x == SlotOf(r, p)
           a == <<p, File.ext>>
           b == <<p, "">>
           S == ListsIn(g, m)
<1>1. g \in C!Server /\ m \in SUBSET Secs /\ c \in Record /\ ConfigType
  BY OnFacts DEF ConfigInv
<1>2. a \in C!Slot /\ b \in C!Slot
  BY DEF C!ConfigAssumption, C!Slot
<1>3. x \in C!Slot
  BY <1>2 DEF SlotOf
<1>4. /\ \A y : C!Said(r, C!Handlers(y)) = C!Innermost(g, m, C!Handlers(y))
      /\ \A y \in C!Slot : S[y] = C!Said(r, C!Handlers(y))
  BY DEF C!Said, ListsIn
<1>5. Found(r, p) = c.hlists[x] /\ From(r, p) = S[x]
  BY <1>3, <1>4 DEF Found, From
<1>6. Found(r, p) \in Seq(ListEntry)
  BY <1>1, <1>3, RecordFields DEF Found
<1>7. From(r, p) \in Seq(HandlerTold)
  <2>1. From(r, p) \in Seq(Told \cap C!Handlers(x))
    BY <1>1, <1>4, InnerType DEF From
  <2>2. Told \cap C!Handlers(x) \subseteq HandlerTold
    BY MemberFacts DEF HandlerTold
  <2> HIDE DEF x
  <2> QED
    BY <2>1, <2>2
<1>8. ListsSay(c, S, ScopesIn(g, m))
  BY ConfServes DEF Serves
<1>9. \A y \in C!Slot : \E s \in ScopesIn(g, m) :
          Listed(c.hlists[y], s, S[y]) /\ \A d \in Range(S[y]) : d \in Range(log[s])
  BY <1>8 DEF ListsSay
<1>10. x = IF S[a] # <<>> THEN a ELSE b
  BY <1>2, <1>4 DEF SlotOf
<1>11. c.hlists[a] # <<>> <=> S[a] # <<>>
  BY <1>2, <1>9 DEF Listed
<1>12. Found(r, p) = IF c.hlists[a] # <<>> THEN c.hlists[a] ELSE c.hlists[b]
  BY <1>5, <1>10, <1>11
<1>13. C!HlistOf(r, p) = [i \in DOMAIN Found(r, p) |->
                            IF ~Found(r, p)[i].loc /\ Found(r, p)[i].pattern
                            THEN [Found(r, p)[i] EXCEPT !.dir = ResolvedDir[@], !.pattern = FALSE]
                            ELSE Found(r, p)[i]]
  <2> DEFINE l == Found(r, p)
  <2>1. l = IF c.hlists[a] # <<>> THEN c.hlists[a] ELSE c.hlists[b]
    BY <1>12
  <2> HIDE DEF l
  <2>2. C!HlistOf(r, p) = [i \in DOMAIN l |-> IF ~l[i].loc /\ l[i].pattern
                                              THEN [l[i] EXCEPT !.dir = ResolvedDir[@], !.pattern = FALSE]
                                              ELSE l[i]]
    BY <2>1 DEF C!HlistOf
  <2> QED
    BY <2>2 DEF l
<1>14. \E s \in ScopesIn(g, m) : Listed(Found(r, p), s, From(r, p)) /\ \A d \in Range(From(r, p)) : d \in Range(log[s])
  BY <1>3, <1>5, <1>9
<1> QED
  BY <1>6, <1>7, <1>13, <1>14

\* With the interpreter of a request named by the directive, it is that of the first handler.
LEMMA ByDirective ==
    ASSUME C!ConfigAssumption, ConfigInv, NEW r \in Request, C!On(r), NEW p, C!PerDirective(r)
    PROVE  C!SelectInterpName(r, p) = C!HlistOf(r, p)[1].dir
<1> DEFINE c == C!Conf(r)
           S == FlagsIn(requests[r].server, requests[r].matched)
<1>1. \A f \in C!Flag : c.flags[f] = C!FlagIs(S[f]) /\ S[f] = C!Said(r, C!Flags(f))
  BY ConfServes DEF Serves, FlagsSay, FlagsIn, C!Said
<1>2. "PythonInterpreter" \in C!Flag /\ "PythonInterpPerDirectory" \in C!Flag /\ "PythonInterpPerDirective" \in C!Flag
  BY DEF C!Flag
<1> HIDE DEF c, S
<1>3. /\ c.flags["PythonInterpreter"] = C!Unset /\ c.flags["PythonInterpPerDirectory"] # "1"
      /\ c.flags["PythonInterpPerDirective"] = "1"
  BY <1>1, <1>2 DEF C!PerDirective
<1> QED
  BY <1>3 DEF C!SelectInterpName, c

LEMMA HandlersAre ==
    ASSUME C!ConfigAssumption, ConfigInv, NEW r \in Request, C!On(r), NEW p \in Phase
    PROVE  LET ds == From(r, p)
               hl == C!HlistOf(r, p)
           IN  /\ [i \in DOMAIN hl |-> hl[i].handler] = C!Named(ds)
               /\ hl # <<>> /\ C!PerDirective(r)
                  => \E s \in C!ScopesOf(r) :
                         /\ \E d \in C!Range(ds) : d \in C!Range(log[s])
                         /\ LET at == C!DetermineContext(s)
                            IN  C!SelectInterpName(r, p) = IF at.pattern /\ ~at.loc THEN ResolvedDir[at.dir]
                                                           ELSE at.dir
<1> DEFINE ds == From(r, p)
           hl == C!HlistOf(r, p)
           l == Found(r, p)
           Use(e) == IF ~e.loc /\ e.pattern THEN [e EXCEPT !.dir = ResolvedDir[@], !.pattern = FALSE] ELSE e
<1>1. l \in Seq(ListEntry) /\ ds \in Seq(HandlerTold) /\ hl = [i \in DOMAIN l |-> Use(l[i])]
  BY ListIs
<1>2. PICK s \in ScopesIn(requests[r].server, requests[r].matched) :
          Listed(l, s, ds) /\ \A d \in Range(ds) : d \in Range(log[s])
  BY ListIs
<1>3. \A e \in ListEntry : /\ Use(e).handler = e.handler
                          /\ Use(e).dir = IF e.pattern /\ ~e.loc THEN ResolvedDir[e.dir] ELSE e.dir
  BY DEF ListEntry
<1>4. C!Named(ds) \in Seq(Handler)
  BY <1>1, NamedType
<1>5. /\ Len(l) \in Nat /\ DOMAIN l = 1..Len(l) /\ DOMAIN hl = DOMAIN l
      /\ \A i \in DOMAIN l : l[i] \in ListEntry /\ hl[i] = Use(l[i])
  <2> HIDE DEF l, Use
  <2> QED
    BY <1>1
<1>6. l = <<>> <=> ds = <<>>
  BY <1>2 DEF Listed
<1>7. /\ Len(l) = Len(C!Named(ds))
      /\ \A i \in DOMAIN l : /\ l[i].handler = C!Named(ds)[i] /\ l[i].dir = Where(s).dir
                             /\ l[i].pattern = Where(s).pattern /\ l[i].loc = Where(s).loc
  BY <1>2 DEF Listed
<1> HIDE DEF hl, l, ds, Use
<1>8. [i \in DOMAIN hl |-> hl[i].handler] = C!Named(ds)
  <2> DEFINE n == C!Named(ds)
  <2>1. DOMAIN n = DOMAIN hl /\ n = [i \in DOMAIN n |-> n[i]]
    BY <1>4, <1>5, <1>7
  <2>2. \A i \in DOMAIN hl : hl[i].handler = n[i]
    BY <1>3, <1>5, <1>7
  <2> HIDE DEF n
  <2>3. [i \in DOMAIN hl |-> hl[i].handler] = n
    BY <2>1, <2>2
  <2> QED
    BY <2>3 DEF n
<1>9. ASSUME hl # <<>>, C!PerDirective(r)
      PROVE  \E t \in C!ScopesOf(r) :
                 /\ \E d \in C!Range(ds) : d \in C!Range(log[t])
                 /\ C!SelectInterpName(r, p)
                        = IF Where(t).pattern /\ ~Where(t).loc THEN ResolvedDir[Where(t).dir] ELSE Where(t).dir
  <2>1. Len(l) # 0
    <3>1. ASSUME Len(l) = 0 PROVE hl = <<>>
      <4>1. hl \in Seq({})
        <5>1. DOMAIN hl = 1..0 /\ hl = [i \in DOMAIN l |-> hl[i]]
          BY <1>1, <1>5, <3>1
        <5>2. hl \in [1..0 -> {}]
          BY <1>5, <3>1, <5>1
        <5> QED
          BY <5>2, SeqDef
      <4>2. Len(hl) = 0
        BY <1>5, <3>1, <4>1
      <4> QED
        BY <4>1, <4>2, EmptySeq
    <3> QED
      BY <1>9, <3>1
  <2>2. 1 \in DOMAIN l
    BY <1>5, <2>1
  <2>3. C!SelectInterpName(r, p) = hl[1].dir
    BY <1>9, ByDirective DEF hl
  <2>4. hl[1].dir = IF Where(s).pattern /\ ~Where(s).loc THEN ResolvedDir[Where(s).dir] ELSE Where(s).dir
    BY <1>3, <1>5, <1>7, <2>2
  <2>5. \E d \in Range(ds) : d \in Range(log[s])
    <3>1. ds # <<>>
      <4>1. l # <<>>
        <5>1. Len(<<>>) = 0
          OBVIOUS
        <5> QED
          BY <2>1, <5>1
      <4> QED
        BY <1>6, <4>1
    <3>2. 1 \in DOMAIN ds
      BY <1>1, <3>1, EmptySeq
    <3>3. ds[1] \in Range(ds)
      BY <3>2 DEF Range
    <3> QED
      BY <1>2, <3>3
  <2>6. C!Range(ds) = Range(ds) /\ C!Range(log[s]) = Range(log[s])
    BY DEF Range, C!Range
  <2>7. s \in C!ScopesOf(r)
    BY <1>2 DEF C!ScopesOf, ScopesIn
  <2> QED
    BY <2>3, <2>4, <2>5, <2>6, <2>7
<1> QED
  BY <1>8, <1>9 DEF Where, ds, hl

(* The handlers of a phase are those of the innermost scope that names it, *)
(* in their order, and with PythonInterpPerDirective they run in the       *)
(* interpreter of that scope.                                              *)
THEOREM HandlersOfScopes == C!ConfigAssumption => (C!Spec => []EffectiveHandlers)
<1> SUFFICES ASSUME C!ConfigAssumption PROVE C!Spec => []EffectiveHandlers
  OBVIOUS
<1>1. ConfigInv => EffectiveHandlers
  <2> SUFFICES ASSUME ConfigInv, NEW r \in Request, NEW p \in Phase, C!On(r)
               PROVE  LET said(x) == C!Said(r, C!Handlers(x))
                          ds == IF said(<<p, File.ext>>) # <<>> THEN said(<<p, File.ext>>) ELSE said(<<p, "">>)
                          hl == C!HlistOf(r, p)
                      IN  /\ [i \in DOMAIN hl |-> hl[i].handler] = C!Named(ds)
                          /\ hl # <<>> /\ C!PerDirective(r)
                             => \E s \in C!ScopesOf(r) :
                                    /\ \E d \in C!Range(ds) : d \in C!Range(log[s])
                                    /\ LET at == C!DetermineContext(s)
                                       IN  C!SelectInterpName(r, p) = IF at.pattern /\ ~at.loc THEN ResolvedDir[at.dir]
                                                                      ELSE at.dir
    BY DEF EffectiveHandlers, C!EffectiveHandlers
  <2>1. From(r, p) = IF C!Said(r, C!Handlers(<<p, File.ext>>)) # <<>> THEN C!Said(r, C!Handlers(<<p, File.ext>>))
                     ELSE C!Said(r, C!Handlers(<<p, "">>))
    BY DEF From, SlotOf
  <2> QED
    BY <2>1, HandlersAre
<1> QED
  BY <1>1, ConfigInvariantHolds, PTL
=============================================================================
