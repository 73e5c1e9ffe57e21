---------------------------- MODULE MC_Requests -----------------------------
(* Instances of Table, Config, Form and Publisher for TLC.  The four share nothing: a         *)
(* behaviour is one of one of them, with the others as they were at the start.                *)
EXTENDS Requests, TLC

CONSTANTS Parts, r1, r2

(* Tables: a key in two cases, one with the same first letter, one with another. *)

Keys4    == {"a", "A", "ab", "b"}
Folds4   == ("a" :> "a") @@ ("A" :> "a") @@ ("ab" :> "ab") @@ ("b" :> "b")
Letters4 == ("a" :> "a") @@ ("A" :> "a") @@ ("ab" :> "a") @@ ("b" :> "b")
Values4  == {"x", "y", "", "[]"}
BadTablePair  == <<"bad", "bad">>
Good     == << <<"b", "y">>, <<"A", "y">> >>
Broken   == << <<"a", "y">>, BadTablePair, <<"b", "x">> >>
TwoTables == [iterate |-> FALSE, max |-> 2, keys |-> Keys4 \ {"b"}, values |-> {"x"},
              items |-> {Good, Broken}]
Walk      == [iterate |-> TRUE, max |-> 3, keys |-> {"a", "b"}, values |-> {"x"},
              items |-> {Broken}]
SmallTables == {TwoTables, Walk}

(* Configurations: a <Directory> with a pattern and a <Location>; options, options of two     *)
(* requests at once, handlers, and the rest.                                                  *)

SomeSections == << [name |-> "dir", location |-> FALSE, pattern |-> TRUE, dir |-> "/a*/"],
                   [name |-> "loc", location |-> TRUE, pattern |-> FALSE, dir |-> "/loc"] >>
AFile     == [ext |-> ".py", dir |-> "/a1/"]
Matching  == "/a*/" :> "/a1/"
Options   == [kinds |-> {"option"}, most |-> 3, requests |-> {r1}, sections |-> {1, 2}]
TwoAtOnce == [kinds |-> {"option"}, most |-> 2, requests |-> {r1, r2}, sections |-> {}]
Handlers  == [kinds |-> {"handler", "flag"}, most |-> 2, requests |-> {r1}, sections |-> {1, 2}]
Others    == [kinds |-> {"filter", "conn", "import", "handler"}, most |-> 2, requests |-> {r1}, sections |-> {1, 2}]
SmallConfigs == {Options, TwoAtOnce, Handlers, Others}

(* Forms: two fields, a file, and a header that is no disposition. *)

Untitled == <<"">>
Headers  == ("H1" :> [name |-> <<"a">>, file |-> FALSE]) @@ ("H2" :> [name |-> <<"b">>, file |-> FALSE])
            @@ ("F" :> [name |-> <<"a">>, file |-> TRUE]) @@ ("T" :> [name |-> Untitled, file |-> FALSE])
FieldNames == {<<"a">>, <<"b">>}
FieldTexts == {<<"x">>, <<"y">>}

\* Pairs as a browser may send them: "a=x", "a", empty pieces, "=" in a value, "u" for a byte that
\* is no text.
Encoded(p)   == p[1] \o (IF p[2] = <<>> THEN <<>> ELSE <<"=">> \o p[2])
Query(pairs) == FoldLeft(LAMBDA s, p : s \o Encoded(p) \o <<"&">>, <<>>, pairs)
PairLists    == SeqOf(FieldNames \X {<<>>, <<"x">>, <<"x", "=">>, <<"=">>, <<"u">>}, 2)

\* Parts, and their encoding as a multipart body.
Heads(q)     == (IF q.name = <<"b">> THEN <<"H2", "CR", "LF">>
                 ELSE IF q.file THEN <<"F", "CR", "LF", "SP", "CR", "LF", "T", "CR", "LF">>
                 ELSE <<"T", "CR", "LF", "H1", "CR", "LF">>) \o <<"CR", "LF">>
Multi(parts) == FoldLeft(LAMBDA s, p : s \o <<"CR", "LF">> \o Heads(p) \o p.value \o <<"CR", "LF", "B">>,
                         <<"B">>, parts) \o <<"--", "CR", "LF">>
Bytes(n)     == SeqOf({"x", "CR", "LF"}, n)
A(f, v)      == [name |-> <<"a">>, file |-> f, value |-> v]
B            == [name |-> <<"b">>, file |-> FALSE, value |-> <<"CR">>]

Case(pairs, query, keep, method, type, parts, bytes, block, most) ==
    [pairs |-> pairs, query |-> query, keep |-> keep, method |-> method, length |-> TRUE, type |-> type,
     parts |-> parts, sent |-> bytes, body |-> bytes, block |-> block, ops |-> most]

Queries == {Case(ps, pre \o Query(ps), k, "GET", "", <<>>, <<>>, 9, 0) :
               ps \in PairLists, pre \in {<<>>, <<";">>}, k \in BOOLEAN}
Posted  == {Case(<<>>, <<>>, TRUE, "POST", t, <<>>, q, 9, 0) :
               t \in {"urlencoded", "text"}, q \in {Query(ps) : ps \in PairLists}
                                                   \union {<<"a", "+", "%00", "=", "x">>}}
Unsized == {[c EXCEPT !.length = FALSE] : c \in {p \in Posted : p.body = <<"a", "=", "x", "&">>}}
Used    == {Case(<< <<n, <<"x">> >>, <<m, <<"y">> >> >>, Query(<< <<n, <<"x">> >>, <<m, <<"y">> >> >>),
                 TRUE, "GET", "", <<>>, <<>>, 9, 3) : n, m \in FieldNames}
Whole   == {Case(<<>>, <<>>, TRUE, "POST", "multipart", <<A(FALSE, v), B>>,
                 Multi(<<A(FALSE, v), B>>), n, 0) : v \in Bytes(6), n \in {4, 5}}
Files   == {Case(<<>>, <<>>, TRUE, "POST", "multipart", <<B, A(TRUE, v)>>,
                 Multi(<<B, A(TRUE, v)>>), 4, 0) : v \in Bytes(3)}
Cut     == {[c EXCEPT !.body = SubSeq(@, 1, n)] : c \in Files, n \in 0..30}

\* Headers that no data follow, no disposition, no colon, bytes that are no text.
Malformed == {[Case(<<>>, <<>>, TRUE, "POST", "multipart", <<>>, b, 9, 0) EXCEPT !.sent = <<>>] :
               b \in {<<"B", "LF", "B", "LF", "H1", "LF", "B", "LF">>,
                      <<"B", "LF", "T", "CR", "LF", "CR", "LF", "x", "CR", "LF", "B", "--", "LF">>,
                      <<"B", "LF", "x", "CR", "LF", "CR", "LF">>,
                      <<"B", "LF", "H1", "CR", "LF", "CR", "LF", "u", "CR", "LF", "B", "--", "LF">>}}
FormCases == Queries \union Posted \union Unsized \union Used \union Whole \union Files \union Cut \union Malformed

(* Published objects: a module whose functions take arguments in every way and return what    *)
(* can be called; one that asks for a user, with an instance that asks again; and an index.   *)

Kinds  == [o \in {"m", "s", "idx"} |-> "module"] @@ [o \in {"f", "g", "login", "page"} |-> "function"]
          @@ ("klass" :> "class") @@ ("len" :> "builtin") @@ ("gen" :> "generator")
          @@ [o \in {"text", "tree", "None", "data"} |-> "instance"]
Attrs  == ("m" :> [index |-> "f", g |-> "g", tree |-> "tree", klass |-> "klass", gen |-> "gen"])
          @@ ("s" :> [index |-> "page", login |-> "login", g |-> "g", tree |-> "tree", data |-> "data"])
          @@ ("idx" :> [index |-> "text", x |-> "f"])
          @@ ("tree" :> [login |-> "login", text |-> "text", len |-> "len", index |-> "tree"])
          @@ ("f" :> [x |-> "text"])
          @@ [o \in {"g", "login", "page", "klass", "len", "gen", "text", "None", "data"} |-> <<>>]
Open   == [auth |-> "none", users |-> {}, access |-> "none", allowed |-> {}, realm |-> "none"]
Guards == [o \in DOMAIN Kinds |->
            CASE o = "s"     -> [Open EXCEPT !.auth = "call", !.users = {"ann", "bob"}, !.realm = "site"]
              [] o = "tree"  -> [Open EXCEPT !.access = "list", !.allowed = {"ann", "nobody"}]
              [] o = "login" -> [auth |-> "call", users |-> {"ann"}, access |-> "call",
                                 allowed |-> {"ann", "bob"}, realm |-> "inner"]
              [] o = "g"     -> [Open EXCEPT !.auth = "call", !.users = {"bob"}]
              [] o = "data"  -> [Open EXCEPT !.auth = "data", !.users = {"ann"}]
              [] OTHER       -> Open]
Arity  == ("f" :> [names |-> {"a", "req"}, needs |-> {"a", "req"}, rest |-> FALSE])
          @@ ("g" :> [names |-> {}, needs |-> {}, rest |-> TRUE])
          @@ [o \in {"login", "page", "tree"} |-> [names |-> {"a"}, needs |-> {}, rest |-> FALSE]]
Texts  == [o \in DOMAIN Kinds |-> o]
Result == ("f" :> "g") @@ ("g" :> "text") @@ ("login" :> "None") @@ ("page" :> "klass")
          @@ ("tree" :> "text")
Paths  == SeqOf({"index", "g", "tree", "login", "x", "_x", "text", "data", "klass"}, 2)
          \union {<<"">>, <<"tree", "len">>, <<"gen">>, <<"tree", "index", "login">>}
Fields == {<<>>, << <<"a", "1">>, <<"b", "2">>, <<"a", "3">> >>, << <<"req", "1">> >>}
Sites  == {[m |-> "m", s |-> "s"], [s |-> "s", index |-> "idx"]}

Ask(method, files, name, path, credentials, args, posted) ==
    [method |-> method, files |-> files, name |-> name, path |-> path, credentials |-> credentials,
     args |-> args, posted |-> posted]

Secret == {"_x"}

PublisherRequests ==
    {Ask("GET", d, n, p, c, <<>>, <<>>) : d \in Sites, n \in {"m", "s", "x", ""}, p \in Paths,
                                          c \in {"nobody", "bad", "", "ann", "bob"}}
    \union {Ask(v, Sites1, "m", p, "bob", a, b) : v \in {"POST", "PUT"}, p \in {<<>>, <<"g">>},
                                          a, b \in Fields, Sites1 \in Sites}

ASSUME PublisherAssumption

ASSUME T!TableAssumption /\ T!FoldsAgree

ASSUME C!ConfigAssumption

VARIABLES which,
    formConf, formPc, pos, line, prev, file, part, list, table, ops

formVars   == <<formConf, formPc, pos, line, prev, file, part, list, table, ops>>
pubVars    == vars

F == INSTANCE Form WITH
    Header <- Headers, NoName <- Untitled, NotUtf8 <- {"u"}, Replacement <- "?", Cases <- FormCases,
    Name <- FieldNames, Text <- FieldTexts, conf <- formConf, pc <- formPc

NoCase    == Case(<<>>, <<>>, TRUE, "POST", "urlencoded", <<>>, <<>>, 9, 0)
NoRequest == Ask("PUT", [m |-> "m", s |-> "s"], "m", <<>>, "bob", <<>>, <<>>)

AllInit ==
    /\ which \in Parts
    /\ which # "table" => tableConf = Walk
    /\ which # "config" => configConf = Others
    /\ which # "form" => formConf = NoCase
    /\ which # "publisher" => req = NoRequest
    /\ Init /\ T!Init /\ C!Init /\ F!Init

AllNext ==
    \/ which = "table" /\ T!Next /\ UNCHANGED <<which, configVars, formVars, pubVars>>
    \/ which = "config" /\ C!Next /\ UNCHANGED <<which, tableVars, formVars, pubVars>>
    \/ which = "form" /\ F!Next /\ UNCHANGED <<which, tableVars, configVars, pubVars>>
    \/ which = "publisher" /\ Next /\ UNCHANGED <<which, tableVars, configVars, formVars>>

AllSpec == AllInit /\ [][AllNext]_<<which, tableVars, configVars, formVars, pubVars>>

PartsIntact        == F!PartsIntact
QueryIntact        == F!QueryIntact
EmptyRemoved       == C!EmptyRemoved
DeletedIsGone      == F!DeletedIsGone
=============================================================================
