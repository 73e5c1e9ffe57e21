------------------------------- MODULE Table --------------------------------
(***************************************************************************)
(* The mp_table of tableobject.c: an apr_table with the interface of a     *)
(* Python dict.  The apr_table itself is external: an array of entries and *)
(* an index from the first letter of a key to the first and the last       *)
(* entry that may have it.                                                 *)
(*                                                                         *)
(* Keys and values are model strings.  CaseFold and NatFold tell which     *)
(* keys strcasecmp() and apr_strnatcasecmp() take for the same.            *)
(***************************************************************************)
EXTENDS Integers, Sequences, FiniteSetsExt, Functions, Keeping

CONSTANTS
    Key, Value,
    CaseFold, NatFold,  \* [Key -> Key]
    Letter,             \* [Key -> letters]: the bucket of the index, TABLE_HASH
    Joined,             \* str() of a list of values
    Blank,              \* the empty string
    Bad,                \* an element of such a sequence that cannot be converted
    Configs             \* [iterate, max, keys, values, items]

TableAssumption ==
    /\ CaseFold \in [Key -> Key] /\ NatFold \in [Key -> Key] /\ DOMAIN Letter = Key
    /\ \A k, l \in Key : CaseFold[k] = CaseFold[l] => NatFold[k] = NatFold[l] /\ Letter[k] = Letter[l]
    /\ {Joined, Blank} \subseteq Value
    /\ \A c \in Configs : /\ c.keys \subseteq Key /\ c.values \subseteq Value
                          /\ c.items \subseteq Seq((Key \X Value) \union {Bad})

\* No two keys differ in nothing but what apr_strnatcasecmp() passes over, blanks for example.
FoldsAgree == \A k, l \in Key : NatFold[k] = NatFold[l] => CaseFold[k] = CaseFold[l]

VARIABLES
    conf,   \* iterate: iterators, or a second table; max: entries; keys and values of the calls;
            \* items: sequences of pairs for table(seq) and update(mapping)
    tab,    \* the table: elts, the slots of its array; n, how many count; ix, the index
    other,  \* a second table, of copy() or table(seq)
    it,     \* an iterator: n and pos as in the code; keys returned; cut, a key was removed since
    reply   \* of the last call: the pair it returned, or what it raised or changed

vars == <<conf, tab, other, it, reply>>

Letters == Range(Letter)
NoIndex == [l \in Letters |-> <<>>]
New     == [elts |-> <<>>, n |-> 0, ix |-> NoIndex]
NoIter  == [on |-> FALSE, n |-> 0, pos |-> 0, keys |-> <<>>, cut |-> FALSE]

(* The apr_table. *)

Live(t) == SubSeq(t.elts, 1, t.n)

Entry == [key : Key, val : Value]

\* The entries with a key of this name, and the values of entries.
Named(name) == {e \in Entry : CaseFold[e.key] = name}
ValuesOf(entries) == [i \in DOMAIN entries |-> entries[i].val]

Reindexed(elts) ==
    [elts |-> elts, n |-> Len(elts),
     ix |-> [l \in Letters |-> LET at == {i \in DOMAIN elts : Letter[elts[i].key] = l}
                               IN  IF at = {} THEN <<>> ELSE <<Min(at), Max(at)>>]]

\* The slots that a search for key k hits.
Hits(t, k) ==
    LET span == t.ix[Letter[k]]
    IN  IF span = <<>> THEN {}
        ELSE {i \in span[1]..span[2] : CaseFold[t.elts[i].key] = CaseFold[k]}

AprGet(t, k) == IF Hits(t, k) = {} THEN <<>> ELSE <<t.elts[Min(Hits(t, k))].val>>

AprAdd(t, k, v) ==
    LET l == Letter[k]
    IN  [elts |-> Append(Live(t), [key |-> k, val |-> v]) \o SubSeq(t.elts, t.n + 2, Len(t.elts)),
         n    |-> t.n + 1,
         ix   |-> [t.ix EXCEPT ![l] = <<IF @ = <<>> THEN t.n + 1 ELSE @[1], t.n + 1>>]]

\* Take slots out of the array, up to the last slot of the index or of the table.
Dropped(t, slots) ==
    LET left == Keep(UpTo(Len(t.elts)), DOMAIN t.elts \ slots)
        elts == [i \in DOMAIN left |-> t.elts[left[i]]]
    IN  IF slots = {} THEN t
        ELSE Reindexed(SubSeq(elts, 1, t.n - Cardinality(slots)))

AprSet(t, k, v) ==
    LET hits == Hits(t, k)
    IN  IF hits = {} THEN AprAdd(t, k, v)
        ELSE Dropped([t EXCEPT !.elts[Min(hits)].val = v], hits \ {Min(hits)})

AprUnset(t, k) == Dropped(t, Hits(t, k))

\* One pair after the other.
SetAll(t, pairs) ==
    LET after[i \in 0..Len(pairs)] == IF i = 0 THEN t
                                      ELSE AprSet(after[i - 1], pairs[i][1], pairs[i][2])
    IN  after[Len(pairs)]

AprOverlap(t, u) == SetAll(t, [i \in 1..u.n |-> <<u.elts[i].key, u.elts[i].val>>])

(* What a program reads. *)

\* Fault: keys are compared with their case.
SubscriptExact(t, k) ==
    ValuesOf(Keep(Live(t), {e \in Entry : e.key = k}))

Subscript(t, k) ==
    ValuesOf(Keep(Live(t), {e \in Entry : NatFold[e.key] = NatFold[k]}))

Get(t, k)    == AprGet(t, k)
HasKey(t, k) == Hits(t, k) # {}
Length(t)    == t.n
Keys(t)      == [i \in 1..t.n |-> t.elts[i].key]
Values(t)    == [i \in 1..t.n |-> t.elts[i].val]
Pairs(t)     == [i \in 1..t.n |-> <<t.elts[i].key, t.elts[i].val>>]

\* Two tables are equal if the dicts made of their keys and subscripts are.
AsDict(t)   == [k \in Range(Keys(t)) |-> Subscript(t, k)]
Equal(t, u) == AsDict(t) = AsDict(u)

(* What it changes. *)

Count(t, k) == Len(Keep(Live(t), Named(CaseFold[k])))
Moved(t) == it' = [it EXCEPT !.cut = @ \/ (it.on /\ \E k \in Key : Count(t, k) < Count(tab, k))]
Become(t) == t.n <= conf.max /\ tab' = t /\ Moved(t) /\ UNCHANGED <<conf, other>>
Says(what) == reply' = <<what>>

\* Fault: values that are there already stay.
AssSubscriptAdds(k, v) == Become(AprAdd(tab, k, v)) /\ Says("set")

AssSubscript(k, v) == Become(AprSet(tab, k, v)) /\ Says("set")
DelSubscript(k)    == Become(AprUnset(tab, k)) /\ Says("del")
Add(k, v)          == Become(AprAdd(tab, k, v)) /\ Says("add")
Clear              == Become(New) /\ Says("clear")

\* Of a mapping or a sequence of pairs; the pairs before one that cannot be converted stay.
Merged(t, items) ==
    LET bad  == {i \in DOMAIN items : items[i] = Bad}
        good == IF bad = {} THEN items ELSE SubSeq(items, 1, Min(bad) - 1)
    IN  SetAll(t, good)

\* A table as the mapping that another is updated from: the list of a repeated key becomes text.
TextItems(t) ==
    [i \in 1..t.n |-> LET v == Subscript(t, t.elts[i].key)
                      IN  <<t.elts[i].key, IF Len(v) = 1 THEN v[1] ELSE Joined>>]

Update(items) == Become(Merged(tab, items)) /\ Says("update")
UpdateFromTable == other # New /\ Become(Merged(tab, TextItems(other))) /\ Says("update")

SetDefault(k) ==
    /\ Become(IF HasKey(tab, k) THEN tab ELSE AprSet(tab, k, Blank))
    /\ reply' = <<k, AprGet(tab', k)[1]>>

SetDefaultTo(k, v) ==
    /\ HasKey(tab, k)
    /\ Become(tab) /\ reply' = <<k, AprGet(tab, k)[1]>>

\* With a default and no such key the value of the table, NULL, is made a string.
SetDefaultNull(k, v) ==
    /\ ~HasKey(tab, k)
    /\ Become(AprSet(tab, k, v)) /\ reply' = <<"crash">>

\* Returns the first pair and takes the last off the table, and leaves the index as it was.
PopItem ==
    /\ tab.n > 0
    /\ Become([tab EXCEPT !.n = @ - 1])
    /\ reply' = <<tab.elts[1].key, tab.elts[1].val>>

Copy == ~conf.iterate /\ other' = AprOverlap(New, tab) /\ Says("read") /\ UNCHANGED <<conf, tab, it>>

\* table(seq): an object is only there if every pair was good.
Make(items) ==
    /\ ~conf.iterate /\ Bad \notin Range(items)
    /\ other' = Merged(New, items) /\ Says("read") /\ UNCHANGED <<conf, tab, it>>

(* Iterators. *)

IterNew ==
    /\ conf.iterate
    /\ it' = [on |-> TRUE, n |-> tab.n, pos |-> 0, keys |-> <<>>, cut |-> FALSE]
    /\ Says("read") /\ UNCHANGED <<conf, tab, other>>

ChangedSize == it.n # tab.n

IterRaises ==
    /\ it.on /\ ChangedSize
    /\ it' = NoIter /\ reply' = <<"RuntimeError">> /\ UNCHANGED <<conf, tab, other>>

\* Fault: the position is advanced before the key is read.
IterNextLate ==
    /\ it.on /\ ~ChangedSize /\ it.pos < tab.n
    /\ it' = [it EXCEPT !.pos = @ + 1, !.keys = Append(@, tab.elts[Min({it.pos + 2, tab.n})].key)]
    /\ Says("read") /\ UNCHANGED <<conf, tab, other>>

IterNext ==
    /\ it.on /\ ~ChangedSize /\ it.pos < tab.n
    /\ it' = [it EXCEPT !.pos = @ + 1, !.keys = Append(@, tab.elts[it.pos + 1].key)]
    /\ Says("read") /\ UNCHANGED <<conf, tab, other>>

IterStops ==
    /\ it.on /\ ~ChangedSize /\ it.pos = tab.n
    /\ it' = NoIter /\ reply' = <<"StopIteration">> /\ UNCHANGED <<conf, tab, other>>

Init ==
    /\ conf \in Configs
    /\ tab = New /\ other = New /\ it = NoIter /\ reply = <<>>

Write ==
    \/ \E k \in conf.keys, v \in conf.values : AssSubscript(k, v) \/ Add(k, v) \/ SetDefaultTo(k, v)
    \/ \E k \in conf.keys : DelSubscript(k) \/ SetDefault(k)
    \/ \E items \in conf.items : Update(items) \/ Make(items)
    \/ Clear \/ UpdateFromTable \/ Copy

Iterate == IterNew \/ IterRaises \/ IterNext \/ IterStops

Next == Write \/ Iterate

\* popitem() and a default for a missing key apart.
Spec == Init /\ [][Next]_vars

FullSpec ==
    Init /\ [][Next \/ PopItem \/ \E k \in conf.keys, v \in conf.values : SetDefaultNull(k, v)]_vars

-----------------------------------------------------------------------------
(* The promise *)

Name == Range(CaseFold)

Contents ==
    [n \in {CaseFold[k] : k \in Range(Keys(tab))} |-> ValuesOf(Keep(Live(tab), Named(n)))]

\* A reply about a key is about its name; what only reads says nothing.
ByName(r) ==
    IF Len(r) = 2 THEN <<CaseFold[r[1]], r[2]>>
    ELSE IF Len(r) = 1 /\ r[1] \in {"set", "del", "add", "clear", "update"} THEN r ELSE <<>>

Promise == INSTANCE Multimap WITH map <- Contents, reply <- ByName(reply)

\* Whatever is assigned, added, deleted, set by default, updated, copied and cleared, the array
\* and its index hold what the multimap of the same calls does.
ImplementsMultimap == Promise!Spec

\* t[k], get(), has_key(), keys(), values(), items() and len() tell of one and the same contents,
\* though some search by the index, some scan the array, and they compare keys in two ways; and a
\* copy of a table that repeats no name equals it.
ReadersAgree ==
    /\ \A k \in Key :
        LET there == CaseFold[k] \in DOMAIN Contents
        IN  /\ HasKey(tab, k) = there
            /\ Subscript(tab, k) = IF there THEN Contents[CaseFold[k]] ELSE <<>>
            /\ Get(tab, k) = IF there THEN <<Contents[CaseFold[k]][1]>> ELSE <<>>
    /\ Length(tab) = Len(Keys(tab)) /\ Len(Values(tab)) = Len(Pairs(tab))
    /\ \A p \in Range(Pairs(tab)) : p[2] \in Range(Contents[CaseFold[p[1]]])
    /\ (\A n \in DOMAIN Contents : Len(Contents[n]) = 1) => Equal(tab, AprOverlap(New, tab))

\* Keys may be assigned to while the table is iterated over: until an entry is removed, no key
\* comes twice that is there once, none is skipped, and the iterator stops only behind the last.
Visits ==
    it.on /\ ~it.cut /\ ~ChangedSize =>
        it.pos <= tab.n /\ it.keys = SubSeq(Keys(tab), 1, it.pos)

\* popitem() removes the pair that it returns.
PopTakesOne ==
    [][PopItem => \A i \in 1..tab'.n : tab'.elts[i] # [key |-> tab.elts[1].key, val |-> tab.elts[1].val]
                     \/ \E j \in 2..tab.n : tab.elts[j] = tab.elts[1]]_vars
=============================================================================
