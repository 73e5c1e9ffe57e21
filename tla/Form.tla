-------------------------------- MODULE Form --------------------------------
(***************************************************************************)
(* Forms: util.FieldStorage over query strings (parse_qsl) and multipart   *)
(* bodies, and the fields as a mapping.  Strings are sequences of tokens:  *)
(* data, "CR", "LF", "B" (two dashes and the boundary), "--", headers      *)
(* with a colon, and in queries "&", "=", "+" and "%00".  As under         *)
(* Python 3.                                                               *)
(***************************************************************************)
EXTENDS Integers, Sequences, SequencesExt, FiniteSetsExt

CONSTANTS
    Header,   \* [tokens of header lines -> [name, file]]; NoName without a disposition
    NoName,
    NotUtf8,  \* tokens of data that cannot be decoded
    Replacement, \* what errors="replace" puts in their place
    Cases,    \* requests: see conf
    Name, Text \* for calls on the form

VARIABLES
    conf,   \* a request: query, the encoding of pairs, and keep, the arguments of parse_qsl;
            \* method; length, that there is a Content-Length; type of the content; parts, the
            \* fields of a multipart body, sent, their encoding, and body, what of it came;
            \* block, the readBlockSize; ops, the calls
    pc, pos, line, prev, file, part, \* the multipart reader; prev is previous_delimiter
    list,   \* the fields: [name, file, value]
    table,  \* the table that FieldList keeps, or NoTable
    ops

reader == <<pos, line, prev, file, part>>
vars == <<conf, pc, reader, list, table, ops>>

NoTable == [n \in {"no table"} |-> <<>>]
EndOfLine == {<<"CR">>, <<"CR", "LF">>}

(* Query strings. *)

Separator == {"&", ";"}

\* All parsers cut the string at separators, and drop the empty pieces.
Pieces(qs, separators) ==
    LET Step(s, c) == IF c \notin separators THEN [s EXCEPT !.pair = Append(@, IF c = "+" THEN " " ELSE c)]
                      ELSE [done |-> IF s.pair = <<>> THEN s.done ELSE Append(s.done, s.pair),
                            pair |-> <<>>]
    IN  FoldLeft(Step, [done |-> <<>>, pair |-> <<>>], Append(qs, "&")).done

\* Fault: split at the last "=".
HalvesLast(pair) ==
    LET at == {i \in DOMAIN pair : pair[i] = "="}
    IN  IF at = {} THEN <<pair, <<>> >>
        ELSE <<SubSeq(pair, 1, Max(at) - 1), SubSeq(pair, Max(at) + 1, Len(pair))>>

Halves(pair) ==
    LET at == {i \in DOMAIN pair : pair[i] = "="}
    IN  IF at = {} THEN <<pair, <<>> >>
        ELSE <<SubSeq(pair, 1, Min(at) - 1), SubSeq(pair, Min(at) + 1, Len(pair))>>

\* ap_unescape_url() and strlen(): what follows an escaped zero byte is lost.
Unescape(s) ==
    LET zero == {i \in DOMAIN s : s[i] = "%00"}
    IN  IF zero = {} THEN s ELSE SubSeq(s, 1, Min(zero) - 1)

Pairs(qs, separators, keep) ==
    LET kept == SelectSeq(Pieces(qs, separators), LAMBDA p : keep \/ Halves(p)[2] # <<>>)
    IN  [i \in DOMAIN kept |-> Halves(kept[i])]

ParseQsl(qs, keep) ==
    LET pairs == Pairs(qs, Separator, keep)
    IN  [i \in DOMAIN pairs |-> <<Unescape(pairs[i][1]), Unescape(pairs[i][2])>>]

\* Each half is text, else making the pair of a str raises SystemError.
Decodes(qs, keep) ==
    \A p \in Range(ParseQsl(qs, keep)) : (Range(p[1]) \union Range(p[2])) \intersect NotUtf8 = {}

\* urllib.parse.parse_qsl(): one separator, zero bytes are kept, what is no text is replaced.
Replaced(s) == [i \in DOMAIN s |-> IF s[i] \in NotUtf8 THEN Replacement ELSE s[i]]
UrllibQsl(qs, keep) ==
    LET pairs == Pairs(qs, {"&"}, keep)
    IN  [i \in DOMAIN pairs |-> <<Replaced(pairs[i][1]), Replaced(pairs[i][2])>>]

ParseQslSafely(qs, keep) == IF Decodes(qs, keep) THEN ParseQsl(qs, keep) ELSE UrllibQsl(qs, keep)

\* Of a string that decodes.
ParseQs(qs, keep) ==
    LET Add(d, p) == [k \in DOMAIN d \union {p[1]} |->
                         (IF k \in DOMAIN d THEN d[k] ELSE <<>>)
                         \o (IF k = p[1] THEN <<p[2]>> ELSE <<>>)]
    IN  FoldLeft(Add, [k \in {} |-> <<>>], ParseQsl(qs, keep))

(* The request's body, line by line. *)

Goto(p) == pc' = p
Keep(v) == UNCHANGED <<conf, ops>> /\ UNCHANGED v

LineAt(p) ==
    LET rest == SubSeq(conf.body, p, Len(conf.body))
        ends == {i \in DOMAIN rest : rest[i] = "LF"} \union {conf.block, Len(rest)}
    IN  SubSeq(rest, 1, Min(ends))
Upcoming == LineAt(pos)
Read  == pos' = pos + Len(Upcoming)

Boundary(s) == s \in {<<"B">> \o d \o e : d \in {<<>>, <<"--">>}, e \in {<<"LF">>, <<"CR", "LF">>}}
Final(s)    == Len(s) > 1 /\ s[2] = "--"

AddField(n, v) == list' = Append(list, [name |-> n, file |-> FALSE, value |-> v]) /\ table' = NoTable

FieldsOf(pairs) == [i \in DOMAIN pairs |-> [name |-> pairs[i][1], file |-> FALSE, value |-> pairs[i][2]]]

\* Fields of the query string are there whatever the method.
Args ==
    /\ pc = "args"
    /\ list' = FieldsOf(ParseQslSafely(conf.query, conf.keep))
    /\ Goto(IF conf.method # "POST" THEN "done"
            ELSE IF ~conf.length THEN "error"
            ELSE IF conf.type = "multipart" THEN "preamble"
            ELSE IF conf.type = "urlencoded" THEN "urlencoded" ELSE "error")
    /\ Keep(<<reader, table>>)

\* The pairs of a body are bytes; a value must be text to become a field.
Urlencoded ==
    /\ pc = "urlencoded"
    /\ LET pairs == ParseQsl(conf.body, conf.keep)
       IN  IF \E p \in Range(pairs) : Range(p[2]) \intersect NotUtf8 # {}
           THEN Goto("error") /\ UNCHANGED list
           ELSE Goto("done") /\ list' = list \o FieldsOf(pairs)
    /\ pos' = Len(conf.body) + 1
    /\ Keep(<<line, prev, file, part, table>>)

\* Fault: a line end at the end of a block is data like any other.
CollectWhole(then) ==
    /\ Read
    /\ \/ Upcoming = <<>> /\ file' = file \o prev /\ Goto(then) /\ UNCHANGED prev
       \/ Boundary(Upcoming) /\ Goto(then) /\ UNCHANGED <<file, prev>>
       \/ /\ Upcoming # <<>> /\ ~Boundary(Upcoming)
          /\ LET n   == Len(Upcoming)
                 end == n >= 2 /\ SubSeq(Upcoming, n - 1, n) = <<"CR", "LF">>
             IN  /\ file' = file \o prev \o (IF end THEN SubSeq(Upcoming, 1, n - 2) ELSE Upcoming)
                 /\ prev' = IF end THEN <<"CR", "LF">> ELSE <<>>
                 /\ UNCHANGED pc

\* A loop of read_to_boundary(): the end of a line may belong to the boundary, and is written
\* when the next line is not one.
Collect(then) ==
    /\ Read
    /\ \/ Upcoming = <<>> /\ file' = file \o prev /\ Goto(then) /\ UNCHANGED prev
       \/ Boundary(Upcoming) /\ Goto(then) /\ UNCHANGED <<file, prev>>
       \/ /\ Upcoming # <<>> /\ ~Boundary(Upcoming)
          /\ LET n == Len(Upcoming)
             IN  IF n >= 2 /\ SubSeq(Upcoming, n - 1, n) = <<"CR", "LF">>
                 THEN /\ file' = file \o prev \o SubSeq(Upcoming, 1, n - 2)
                      /\ prev' = <<"CR", "LF">> /\ UNCHANGED pc
                 ELSE IF Upcoming[n] = "CR"
                 THEN IF n # conf.block THEN Goto("error") /\ UNCHANGED <<file, prev>>
                      ELSE /\ file' = file \o prev \o SubSeq(Upcoming, 1, n - 1)
                           /\ prev' = <<"CR">> /\ UNCHANGED pc
                 ELSE IF Upcoming = <<"LF">> /\ prev = <<"CR">>
                 THEN prev' = <<"CR", "LF">> /\ UNCHANGED <<file, pc>>
                 ELSE file' = file \o prev \o Upcoming /\ prev' = <<>> /\ UNCHANGED pc

\* What comes before the first boundary is not kept.
Preamble ==
    /\ pc = "preamble" /\ Collect("part")
    /\ Keep(<<line, part, list, table>>)

Part ==
    /\ pc = "part" /\ Read
    /\ part' = [name |-> NoName, file |-> FALSE] /\ file' = <<>> /\ prev' = <<>>
    /\ line' = Upcoming
    /\ Goto(IF Upcoming = <<>> THEN "done"
            ELSE IF Boundary(Upcoming) THEN (IF Final(Upcoming) THEN "done" ELSE "part")
            ELSE IF Upcoming \in EndOfLine THEN "data" ELSE "headers")
    /\ Keep(<<list, table>>)

Folded == IF Upcoming = <<>> THEN FALSE ELSE Head(Upcoming) = "SP"

Continued ==
    /\ pc = "headers" /\ Folded
    /\ Read /\ line' = line \o Upcoming
    /\ UNCHANGED pc /\ Keep(<<prev, file, part, list, table>>)

\* The header is split off; the empty line ends the headers, a boundary or the end the part.
HeaderLine ==
    /\ pc = "headers" /\ ~Folded
    /\ Read /\ line' = Upcoming
    /\ IF Head(line) \notin DOMAIN Header THEN Goto("error") /\ UNCHANGED part
       ELSE /\ part' = IF Header[Head(line)].name = NoName THEN part ELSE Header[Head(line)]
            /\ Goto(IF Upcoming = <<>> THEN "done"
                    ELSE IF Boundary(Upcoming) THEN (IF Final(Upcoming) THEN "done" ELSE "part")
                    ELSE IF Upcoming \in EndOfLine THEN "data" ELSE "headers")
    /\ Keep(<<prev, file, list, table>>)

Data == pc = "data" /\ Collect("field") /\ Keep(<<line, part, list, table>>)

\* A value that is no file must be text, and a part without a disposition has none to decode.
EndPart ==
    /\ pc = "field"
    /\ IF part.name = NoName \/ (~part.file /\ Range(file) \intersect NotUtf8 # {})
       THEN Goto("error") /\ UNCHANGED <<list, table>>
       ELSE /\ Goto("part") /\ table' = NoTable
            /\ list' = Append(list, [name |-> part.name, file |-> part.file, value |-> file])
    /\ Keep(reader)

(* The form as a mapping. *)

Grouped == [n \in {f.name : f \in Range(list)} |-> SelectSeq(list, LAMBDA f : f.name = n)]
Ready == pc = "done" /\ ops < conf.ops
Op == ops' = ops + 1 /\ UNCHANGED <<conf, pc, reader>>

\* list.remove() takes the first field that is equal: files are equal to themselves only, others
\* to any with the same text.
RemoveEqual(l, f) ==
    RemoveAt(l, Min({i \in DOMAIN l : IF f.file THEN l[i] = f ELSE ~l[i].file /\ l[i].value = f.value}))

GetItem(n) == Ready /\ table' = Grouped /\ Op /\ UNCHANGED list

Insert(n, v) == Ready /\ AddField(n, v) /\ Op

\* The table is made if it is not there, and gone after the first field is removed.
DelItem(n) ==
    LET t == IF table = NoTable THEN Grouped ELSE table
    IN  /\ Ready /\ n \in DOMAIN t /\ Op
        /\ list' = FoldLeft(RemoveEqual, list, t[n]) /\ table' = NoTable

SetItem(n, v) ==
    LET t == IF table = NoTable THEN Grouped ELSE table
        l == IF n \in DOMAIN t THEN FoldLeft(RemoveEqual, list, t[n]) ELSE list
    IN  /\ Ready /\ Op /\ table' = NoTable
        /\ list' = Append(l, [name |-> n, file |-> FALSE, value |-> v])

Clear == Ready /\ Op /\ list' = <<>> /\ table' = NoTable

Init ==
    /\ conf \in Cases
    /\ pc = "args" /\ pos = 1 /\ line = <<>> /\ prev = <<>> /\ file = <<>>
    /\ part = [name |-> NoName, file |-> FALSE]
    /\ list = <<>> /\ table = NoTable /\ ops = 0

Parse == Args \/ Urlencoded \/ Preamble \/ Part \/ Continued \/ HeaderLine \/ Data \/ EndPart

Use ==
    \/ \E n \in Name : GetItem(n) \/ DelItem(n)
    \/ \E n \in Name, v \in Text : Insert(n, v) \/ SetItem(n, v)
    \/ Clear

Next == Parse \/ Use

Spec == Init /\ [][Next]_vars

-----------------------------------------------------------------------------
\* A line read in pieces, a line end that may be part of the boundary, a part cut short: every
\* part that was sent whole is a field with just the bytes that were sent.
PartsIntact ==
    conf.type = "multipart" /\ pc = "done" /\ ops = 0 =>
        /\ conf.body = conf.sent => list = conf.parts
        /\ \A i \in DOMAIN list :
               /\ list[i].name = conf.parts[i].name
               /\ IF i < Len(list) THEN list[i] = conf.parts[i]
                  ELSE IsPrefix(list[i].value, conf.parts[i].value \o <<"CR", "LF", "B", "--", "CR">>)

\* The fields of the query are the pairs that were sent, but for blank values where they are
\* not wanted; what is no text is replaced, and only "&" separates them then.  parse_qs() has the
\* same under each name, if all of it is text.
QueryIntact ==
    LET wanted == SelectSeq(conf.pairs, LAMBDA p : conf.keep \/ p[2] # <<>>)
        of(k)  == SelectSeq(wanted, LAMBDA p : p[1] = k)
        dict   == ParseQs(conf.query, conf.keep)
        text   == Decodes(conf.query, conf.keep)
    IN  pc # "args" /\ ops = 0 /\ (text \/ ";" \notin Range(conf.query)) =>
            /\ Len(wanted) <= Len(list)
            /\ \A i \in DOMAIN wanted :
                   <<list[i].name, list[i].value>> = <<Replaced(wanted[i][1]), Replaced(wanted[i][2])>>
            /\ text => /\ DOMAIN dict = {p[1] : p \in Range(wanted)}
                       /\ \A k \in DOMAIN dict : dict[k] = [i \in DOMAIN of(k) |-> of(k)[i][2]]

\* A field that is deleted is gone, and nothing else with it.
DeletedIsGone ==
    [][\A n \in Name : DelItem(n) => list' = SelectSeq(list, LAMBDA f : f.name # n)]_vars
=============================================================================
