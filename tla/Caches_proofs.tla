--------------------------- MODULE Caches_proofs ----------------------------
(***************************************************************************)
(* Proofs about the caches of a process.  First those of cache.py, for any *)
(* threads and names, any limit, any number of versions, and any changes   *)
(* of the files meanwhile: an entry is found under one lock and used under *)
(* another, so that what is found has to be followed from the one to the   *)
(* other, that the entry is still that of the name, though it may have     *)
(* been discarded, and that its time is not later than the value built     *)
(* after it.  Then those of pages, which have no lock, and the runs of     *)
(* pages with their session.                                               *)
(***************************************************************************)
EXTENDS Caches, FiniteSetTheorems, SequenceTheorems, TLAPS

-----------------------------------------------------------------------------
(* The inductive invariant.                                                *)

\* In a call the entry is that of the name, whether or not it is still in the dict, and the
\* file is not older than at its start.
InCall == \A t \in Thread : pc[t] \in {"wait", "check", "build", "pack", "got"} =>
    /\ name[t] \in Key /\ my[t] \in Entry
    /\ entry[my[t]].key = name[t] /\ start[t] <= file[name[t]]

\* Who checks, builds or stores a value has the lock of its entry.
Locked == \A t \in Thread : pc[t] \in {"check", "build", "pack"} => holder[my[t]] = t

\* The dict has each entry under its key.
Keyed == \A k \in Key : dict[k] # None => entry[dict[k]].key = k

\* The time of an entry is one the file had, and its value was read then or later, but after
\* a failure.
Timed == conf.kind = "file" => \A e \in Entry : entry[e].key \in Key =>
    /\ entry[e].time <= file[entry[e].key]
    /\ entry[e].val # None /\ ~entry[e].failed => entry[e].time <= entry[e].val

\* A value that is to be stored was read after the call and after the time that is with it.
Built == conf.kind = "file" => \A t \in Thread : At(t, "pack") =>
    start[t] <= got[t] /\ entry[my[t]].time <= got[t]

\* Only the values of a WeakCache call back.
CalledBack == \A t \in Thread : At(t, "callback") => conf.kind = "weak" /\ name[t] \in Key

\* Where nothing is discarded, a call has the entry that is in the dict.
Kept == conf.max = 0 /\ conf.kind # "weak" /\ ~conf.deletes =>
    \A t \in Thread : pc[t] \in {"wait", "check", "build", "pack", "got"} => dict[name[t]] = my[t]

\* Where only the limit discards, the access list is the entries of the dict.
Limited == conf.max > 0 /\ conf.kind # "weak" /\ ~conf.deletes =>
    /\ Range(lru) = {dict[k] : k \in Cached} /\ IsInjective(lru)
    /\ IsFiniteSet(Cached) /\ Cardinality(Cached) <= conf.max

IInv == TypeOK /\ InCall /\ Locked /\ Keyed /\ Timed /\ Built /\ CalledBack /\ Kept /\ Limited

-----------------------------------------------------------------------------
(* The operators of the model.                                             *)

(* There is an entry that nothing refers to, if any is left.               *)
LEMMA FreeFacts ==
    ASSUME Unused # {}
    PROVE  /\ Free \in Entry /\ Free \notin Range(lru)
           /\ \A k \in Key : dict[k] # Free
           /\ \A t \in Thread : my[t] # Free
<1>1. Free \in Unused
  BY DEF Free
<1> QED
  BY <1>1 DEF Unused

(* Cutting one element out of a sequence without repetitions.              *)
LEMMA RemoveAtFacts ==
    ASSUME NEW S, NEW s \in Seq(S), NEW i \in 1..Len(s), IsInjective(s)
    PROVE  /\ RemoveAt(s, i) \in Seq(S)
           /\ Range(RemoveAt(s, i)) = Range(s) \ {s[i]}
           /\ IsInjective(RemoveAt(s, i))
<1> DEFINE a == SubSeq(s, 1, i - 1)
           b == SubSeq(s, i + 1, Len(s))
           r == a \o b
<1>1. a \in Seq(S) /\ Len(a) = i - 1 /\ \A j \in 1..i - 1 : a[j] = s[j]
  BY SubSeqProperties
<1>2. b \in Seq(S) /\ Len(b) = Len(s) - i /\ \A j \in 1..Len(s) - i : b[j] = s[i + j]
  BY SubSeqProperties
<1> HIDE DEF a, b
<1>3. r \in Seq(S) /\ Len(r) = Len(s) - 1
  <2>1. r \in Seq(S) /\ Len(r) = Len(a) + Len(b)
    BY <1>1, <1>2, ConcatProperties
  <2>2. Len(a) = i - 1 /\ Len(b) = Len(s) - i
    BY <1>1, <1>2
  <2> HIDE DEF r
  <2> QED
    BY <2>1, <2>2
<1>4. \A j \in 1..Len(s) - 1 : r[j] = IF j < i THEN s[j] ELSE s[j + 1]
  <2> TAKE j \in 1..Len(s) - 1
  <2>1. r[j] = IF j <= Len(a) THEN a[j] ELSE b[j - Len(a)]
    <3>1. j \in 1..Len(a) + Len(b)
      BY <1>1, <1>2
    <3> QED
      BY <1>1, <1>2, <3>1, ConcatProperties
  <2> HIDE DEF r
  <2>2. CASE j < i
    BY <1>1, <2>2, <2>1
  <2>3. CASE j >= i
    <3>1. r[j] = b[j - (i - 1)]
      BY <1>1, <2>3, <2>1
    <3>2. j - (i - 1) \in 1..Len(s) - i /\ i + (j - (i - 1)) = j + 1
      BY <2>3
    <3> QED
      BY <1>2, <2>3, <3>1, <3>2
  <2> QED
    BY <2>2, <2>3
<1>5. r = RemoveAt(s, i)
  BY DEF RemoveAt, a, b
<1> HIDE DEF r
<1>6. \A j \in 1..Len(s), l \in 1..Len(s) : s[j] = s[l] => j = l
  BY DEF IsInjective
<1>7. Range(r) = Range(s) \ {s[i]}
  <2>1. Range(r) \subseteq Range(s) \ {s[i]}
    <3> SUFFICES ASSUME NEW j \in 1..Len(s) - 1 PROVE r[j] \in Range(s) /\ r[j] # s[i]
      BY <1>3 DEF Range
    <3> QED
      BY <1>4, <1>6 DEF Range
  <2>2. Range(s) \ {s[i]} \subseteq Range(r)
    <3> SUFFICES ASSUME NEW j \in 1..Len(s), s[j] # s[i] PROVE s[j] \in Range(r)
      BY DEF Range
    <3>1. CASE j < i
      <4>1. j \in 1..Len(s) - 1 /\ r[j] = s[j]
        BY <1>4, <3>1
      <4> QED
        BY <1>3, <4>1 DEF Range
    <3>2. CASE j > i
      <4>1. j - 1 \in 1..Len(s) - 1 /\ r[j - 1] = s[j]
        BY <1>4, <3>2
      <4> QED
        BY <1>3, <4>1 DEF Range
    <3> QED
      BY <3>1, <3>2
  <2> QED
    BY <2>1, <2>2
<1>8. IsInjective(r)
  <2> SUFFICES ASSUME NEW j \in 1..Len(s) - 1, NEW l \in 1..Len(s) - 1, r[j] = r[l] PROVE j = l
    BY <1>3 DEF IsInjective
  <2> QED
    BY <1>4, <1>6
<1> QED
  BY <1>3, <1>5, <1>7, <1>8

(* The entry used last is the last of the list, and the others stay.       *)
LEMMA AccessFacts ==
    ASSUME NEW s \in Seq(Entry), NEW e \in Entry, IsInjective(s), conf.max # 0
    PROVE  /\ Access(s, e) \in Seq(Entry) /\ Access(s, e) # <<>>
           /\ Range(Access(s, e)) = Range(s) \cup {e}
           /\ IsInjective(Access(s, e))
<1>1. PICK u : u = Unlinked(s, e)
  OBVIOUS
<1>2. u \in Seq(Entry) /\ Range(u) = Range(s) \ {e} /\ IsInjective(u)
  <2>1. CASE e \in Range(s)
    <3> DEFINE i == CHOOSE i \in DOMAIN s : s[i] = e
    <3>1. i \in 1..Len(s) /\ s[i] = e
      BY <2>1 DEF Range
    <3> HIDE DEF i
    <3>2. u = RemoveAt(s, i)
      BY <1>1, <2>1 DEF Unlinked, i
    <3> QED
      BY <3>1, <3>2, RemoveAtFacts
  <2>2. CASE e \notin Range(s)
    BY <1>1, <2>2 DEF Unlinked
  <2> QED
    BY <2>1, <2>2
<1>3. Access(s, e) = Append(u, e)
  BY <1>1 DEF Access
<1>4. /\ Append(u, e) \in Seq(Entry) /\ Len(Append(u, e)) = Len(u) + 1
      /\ \A j \in 1..Len(u) : Append(u, e)[j] = u[j]
      /\ Append(u, e)[Len(u) + 1] = e
  BY <1>2
<1>5. PICK r : r = Append(u, e)
  OBVIOUS
<1>6. /\ r \in Seq(Entry) /\ Len(r) = Len(u) + 1
      /\ \A j \in 1..Len(u) : r[j] = u[j]
      /\ r[Len(u) + 1] = e
  BY <1>4, <1>5
<1>7. Range(r) = Range(u) \cup {e}
  <2>1. DOMAIN r = 1..Len(u) + 1 /\ DOMAIN u = 1..Len(u) /\ Len(u) \in Nat
    BY <1>2, <1>6
  <2> QED
    BY <1>6, <2>1 DEF Range
<1>8. IsInjective(r)
  <2>1. DOMAIN r = 1..Len(u) + 1 /\ DOMAIN u = 1..Len(u) /\ Len(u) \in Nat
    BY <1>2, <1>6
  <2>2. \A j \in 1..Len(u) : r[j] \in Range(u)
    BY <1>6, <2>1 DEF Range
  <2>3. \A j \in 1..Len(u) : r[j] # e
    BY <1>2, <2>2
  <2> SUFFICES ASSUME NEW j \in 1..Len(u) + 1, NEW l \in 1..Len(u) + 1, r[j] = r[l] PROVE j = l
    BY <2>1 DEF IsInjective
  <2>4. CASE j = Len(u) + 1 \/ l = Len(u) + 1
    BY <1>6, <2>1, <2>3, <2>4
  <2>5. CASE j \in 1..Len(u) /\ l \in 1..Len(u)
    BY <1>2, <1>6, <2>1, <2>5 DEF IsInjective
  <2> QED
    BY <2>1, <2>4, <2>5
<1>9. r # <<>>
  BY <1>2, <1>6
<1> QED
  BY <1>2, <1>3, <1>5, <1>6, <1>7, <1>8, <1>9

LEMMA AccessType ==
    ASSUME NEW s \in Seq(Entry), NEW e \in Entry
    PROVE  Access(s, e) \in Seq(Entry)
<1>1. Unlinked(s, e) \in Seq(Entry)
  <2>1. CASE e \in Range(s)
    <3> DEFINE i == CHOOSE i \in DOMAIN s : s[i] = e
    <3>1. i \in 1..Len(s)
      BY <2>1 DEF Range
    <3> HIDE DEF i
    <3>2. SubSeq(s, 1, i - 1) \in Seq(Entry) /\ SubSeq(s, i + 1, Len(s)) \in Seq(Entry)
      BY <3>1, SubSeqProperties
    <3>3. Unlinked(s, e) = SubSeq(s, 1, i - 1) \o SubSeq(s, i + 1, Len(s))
      BY <2>1 DEF Unlinked, RemoveAt, i
    <3> QED
      BY <3>2, <3>3
  <2>2. CASE e \notin Range(s)
    BY <2>2 DEF Unlinked
  <2> QED
    BY <2>1, <2>2
<1> QED
  BY <1>1 DEF Access

(* Without its head, a list without repetitions is the rest.               *)
LEMMA TailFacts ==
    ASSUME NEW S, NEW s \in Seq(S), s # <<>>, IsInjective(s)
    PROVE  /\ Tail(s) \in Seq(S) /\ Head(s) \in Range(s)
           /\ Range(Tail(s)) = Range(s) \ {Head(s)}
           /\ IsInjective(Tail(s))
<1>1. PICK r : r = Tail(s)
  OBVIOUS
<1>2. /\ r \in Seq(S) /\ Len(r) = Len(s) - 1 /\ Len(s) >= 1 /\ Head(s) = s[1]
      /\ \A j \in 1..Len(s) - 1 : r[j] = s[j + 1]
  BY <1>1
<1>3. \A j \in 1..Len(s), l \in 1..Len(s) : s[j] = s[l] => j = l
  BY DEF IsInjective
<1>4. DOMAIN r = 1..Len(s) - 1 /\ DOMAIN s = 1..Len(s) /\ Len(s) \in Nat
  BY <1>2
<1>5. Range(r) = Range(s) \ {s[1]}
  <2>1. Range(r) \subseteq Range(s) \ {s[1]}
    <3> SUFFICES ASSUME NEW j \in 1..Len(s) - 1 PROVE r[j] \in Range(s) /\ r[j] # s[1]
      BY <1>4 DEF Range
    <3>1. j + 1 \in 1..Len(s) /\ 1 \in 1..Len(s) /\ j + 1 # 1 /\ r[j] = s[j + 1]
      BY <1>2, <1>4
    <3> QED
      BY <1>3, <1>4, <3>1 DEF Range
  <2>2. Range(s) \ {s[1]} \subseteq Range(r)
    <3> SUFFICES ASSUME NEW j \in 1..Len(s), s[j] # s[1] PROVE s[j] \in Range(r)
      BY <1>4 DEF Range
    <3>1. j - 1 \in 1..Len(s) - 1 /\ r[j - 1] = s[j]
      BY <1>2, <1>4
    <3> QED
      BY <1>4, <3>1 DEF Range
  <2> QED
    BY <2>1, <2>2
<1>6. IsInjective(r)
  <2> SUFFICES ASSUME NEW j \in 1..Len(s) - 1, NEW l \in 1..Len(s) - 1, r[j] = r[l] PROVE j = l
    BY <1>4 DEF IsInjective
  <2>1. j + 1 \in 1..Len(s) /\ l + 1 \in 1..Len(s) /\ s[j + 1] = s[l + 1]
    BY <1>2, <1>4
  <2> QED
    BY <1>3, <2>1
<1>7. s[1] \in Range(s)
  BY <1>2, <1>4 DEF Range
<1> QED
  BY <1>1, <1>2, <1>5, <1>6, <1>7

-----------------------------------------------------------------------------
(* The invariant holds initially, and every action preserves it.           *)

LEMMA InitIInv == Init => IInv
<1> SUFFICES ASSUME Init PROVE IInv
  OBVIOUS
<1>1. conf \in Configs /\ conf.max \in Nat /\ MaxVersion >= 1 /\ MaxVersion \in Nat /\ MaxCalls \in Nat
  <2>1. conf \in Configs
    BY DEF Init
  <2>2. MaxVersion \in Nat \ {0} /\ MaxCalls \in Nat
    BY CacheAssumption
  <2>3. \A c \in Configs : c.max \in Nat
    BY CacheAssumption
  <2> QED
    BY <2>1, <2>2, <2>3
<1>2. TypeOK
  BY <1>1 DEF Init, TypeOK, Blank, None
<1>3. InCall /\ Locked /\ Keyed /\ Timed /\ Built /\ CalledBack /\ Kept
  BY CacheAssumption DEF Init, InCall, Locked, Keyed, Timed, Built, CalledBack, Kept, Blank, None, At
<1>4. Limited
  <2>1. Cached = {} /\ lru = <<>>
    BY DEF Init, Cached
  <2>2. Range(lru) = {} /\ IsInjective(lru) /\ {dict[k] : k \in Cached} = {}
    BY <2>1 DEF Range, IsInjective
  <2>3. IsFiniteSet(Cached) /\ Cardinality(Cached) = 0
    BY <2>1, FS_EmptySet
  <2> QED
    BY <1>1, <2>2, <2>3 DEF Limited
<1> QED
  BY <1>2, <1>3, <1>4 DEF IInv

\* The limit stays kept when neither the dict nor the access list changes.
LEMMA LimitedSame == IInv /\ UNCHANGED <<conf, dict, lru>> => Limited'
BY DEF IInv, Limited, Cached

LEMMA ModifyIInv ==
    ASSUME IInv, NEW k \in Key, Modify(k)
    PROVE  IInv'
<1>1. TypeOK'
  BY SMTT(30), CacheAssumption DEF IInv, TypeOK, Modify, thread
<1>2. \A f \in Key : file[f] <= file'[f]
  BY DEF IInv, TypeOK, Modify
<1>3. InCall'
  BY <1>1, <1>2 DEF IInv, TypeOK, InCall, Modify, thread
<1>4. Timed'
  BY <1>1, <1>2 DEF IInv, TypeOK, Timed, Modify, thread
<1>5. Locked' /\ Keyed' /\ Built' /\ CalledBack' /\ Kept' /\ Limited'
  BY LimitedSame DEF IInv, Locked, Keyed, Built, CalledBack, Kept, Modify, thread, At
<1> QED
  BY <1>1, <1>3, <1>4, <1>5 DEF IInv

LEMMA AcquireIInv ==
    ASSUME IInv, NEW t \in Thread, Acquire(t)
    PROVE  IInv'
<1>1. /\ pc[t] = "wait" /\ holder[my[t]] = NoThread /\ holder' = [holder EXCEPT ![my[t]] = t]
      /\ pc' = [pc EXCEPT ![t] = IF op[t] = "set" THEN "pack" ELSE "check"]
      /\ got' = IF op[t] = "set" THEN [got EXCEPT ![t] = file[name[t]]] ELSE got
      /\ UNCHANGED <<conf, file, dict, lru, entry, op, name, my, start, calls>>
  BY DEF Acquire, At, Goes
<1>2. name[t] \in Key /\ my[t] \in Entry /\ entry[my[t]].key = name[t] /\ start[t] <= file[name[t]]
  BY <1>1 DEF IInv, InCall
<1>3. TypeOK'
  BY <1>1, <1>2 DEF IInv, TypeOK
<1>4. InCall'
  BY <1>1, <1>2 DEF IInv, TypeOK, InCall
<1>5. Locked'
  <2> SUFFICES ASSUME NEW u \in Thread, pc'[u] \in {"check", "build", "pack"} PROVE holder'[my[u]] = u
    BY <1>1 DEF Locked
  <2>1. CASE u = t
    BY <1>1, <1>2, <2>1 DEF IInv, TypeOK
  <2>2. CASE u # t
    <3>1. holder[my[u]] = u /\ my[u] # my[t]
      BY <1>1, <2>2, CacheAssumption DEF IInv, TypeOK, Locked
    <3> QED
      BY <1>1, <3>1 DEF IInv, TypeOK
  <2> QED
    BY <2>1, <2>2
<1>6. Built'
  <2> SUFFICES ASSUME conf.kind = "file", NEW u \in Thread, pc'[u] = "pack"
               PROVE  start[u] <= got'[u] /\ entry[my[u]].time <= got'[u]
    BY <1>1 DEF Built, At
  <2>1. CASE u = t
    BY <1>1, <1>2, <2>1 DEF IInv, TypeOK, Timed
  <2>2. CASE u # t
    BY <1>1, <2>2 DEF IInv, TypeOK, Built, At
  <2> QED
    BY <2>1, <2>2
<1>7. Keyed' /\ Timed' /\ CalledBack' /\ Kept' /\ Limited'
  BY <1>1, LimitedSame DEF IInv, TypeOK, Keyed, Timed, CalledBack, Kept, At
<1> QED
  BY <1>3, <1>4, <1>5, <1>6, <1>7 DEF IInv

LEMMA CheckStaleIInv ==
    ASSUME IInv, NEW t \in Thread, CheckStale(t)
    PROVE  IInv'
<1>1. /\ pc[t] = "check" /\ pc' = [pc EXCEPT ![t] = "build"]
      /\ entry' = [entry EXCEPT ![my[t]].time = IF conf.kind = "file" THEN file[name[t]] ELSE @,
                                ![my[t]].failed = TRUE]
      /\ UNCHANGED <<conf, file, dict, lru, holder, op, name, my, start, got, calls>>
  BY DEF CheckStale, Stamped, At, Goes
<1>2. /\ name[t] \in Key /\ my[t] \in Entry /\ entry[my[t]].key = name[t] /\ holder[my[t]] = t
      /\ file[name[t]] \in 0..MaxVersion
  BY <1>1, CacheAssumption DEF IInv, TypeOK, InCall, Locked
<1>3. /\ \A e \in Entry : e # my[t] => entry'[e] = entry[e]
      /\ \A e \in Entry : entry'[e].key = entry[e].key
      /\ entry'[my[t]].failed /\ (conf.kind = "file" => entry'[my[t]].time = file[name[t]])
  BY <1>1, <1>2 DEF IInv, TypeOK
<1>4. TypeOK'
  <2>1. entry' \in [Entry -> [key : Key \cup {NoKey}, val : 0..MaxVersion, time : 0..MaxVersion,
                              failed : BOOLEAN]]
    <3> DEFINE R == [key : Key \cup {NoKey}, val : 0..MaxVersion, time : 0..MaxVersion, failed : BOOLEAN]
               n == [entry[my[t]] EXCEPT !.time = IF conf.kind = "file" THEN file[name[t]] ELSE @,
                                         !.failed = TRUE]
    <3>1. entry \in [Entry -> R] /\ entry[my[t]] \in R
      BY <1>2 DEF IInv, TypeOK
    <3>2. n \in R
      BY <1>2, <3>1
    <3>3. entry' = [entry EXCEPT ![my[t]] = n]
      BY <1>1
    <3> HIDE DEF n, R
    <3>4. entry' \in [Entry -> R]
      BY <3>1, <3>2, <3>3
    <3> QED
      BY <3>4 DEF R
  <2> QED
    BY <1>1, <2>1 DEF IInv, TypeOK
<1>5. InCall' /\ Locked' /\ Keyed' /\ CalledBack' /\ Kept'
  <2>1. \A k \in Key : dict[k] # None => dict[k] \in Entry
    BY DEF IInv, TypeOK
  <2> QED
    BY <1>1, <1>2, <1>3, <2>1 DEF IInv, TypeOK, InCall, Locked, Keyed, CalledBack, Kept, At
<1>6. Timed'
  BY SMTT(30), <1>1, <1>2, <1>3, <1>4, CacheAssumption DEF IInv, TypeOK, Timed
<1>7. Built'
  <2> SUFFICES ASSUME conf.kind = "file", NEW u \in Thread, pc'[u] = "pack"
               PROVE  start[u] <= got[u] /\ entry'[my[u]].time <= got[u]
    BY <1>1 DEF Built, At
  <2>1. u # t /\ pc[u] = "pack"
    BY <1>1 DEF IInv, TypeOK
  <2>2. my[u] # my[t] /\ my[u] \in Entry
    BY <1>1, <1>2, <2>1 DEF IInv, Locked, InCall
  <2> QED
    BY <1>3, <2>1, <2>2 DEF IInv, Built, At
<1>8. Limited'
  BY <1>1, LimitedSame
<1> QED
  BY <1>4, <1>5, <1>6, <1>7, <1>8 DEF IInv

LEMMA BuildIInv ==
    ASSUME IInv, NEW t \in Thread, Build(t)
    PROVE  IInv'
<1>1. /\ pc[t] = "build" /\ pc' = [pc EXCEPT ![t] = "pack"] /\ got' = [got EXCEPT ![t] = file[name[t]]]
      /\ UNCHANGED <<conf, file, dict, lru, entry, holder, op, name, my, start, calls>>
  BY DEF Build, At, Goes
<1>2. name[t] \in Key /\ my[t] \in Entry /\ entry[my[t]].key = name[t] /\ start[t] <= file[name[t]]
  BY <1>1 DEF IInv, InCall
<1>3. TypeOK'
  BY SMTT(30), <1>1, <1>2, CacheAssumption DEF IInv, TypeOK
<1>4. InCall' /\ Locked' /\ Keyed' /\ Timed' /\ CalledBack' /\ Kept' /\ Limited'
  BY <1>1, LimitedSame DEF IInv, TypeOK, InCall, Locked, Keyed, Timed, CalledBack, Kept, At
<1>5. Built'
  <2> SUFFICES ASSUME conf.kind = "file", NEW u \in Thread, pc'[u] = "pack"
               PROVE  start[u] <= got'[u] /\ entry[my[u]].time <= got'[u]
    BY <1>1 DEF Built, At
  <2>1. CASE u = t
    BY <1>1, <1>2, <2>1 DEF IInv, TypeOK, Timed
  <2>2. CASE u # t
    BY <1>1, <2>2 DEF IInv, TypeOK, Built, At
  <2> QED
    BY <2>1, <2>2
<1> QED
  BY <1>3, <1>4, <1>5 DEF IInv

\* A call that ends changes nothing of the others.
LEMMA EndsFacts ==
    ASSUME TypeOK, NEW t \in Thread, Ends(t)
    PROVE  /\ pc' \in [Thread -> {"idle", "wait", "check", "build", "pack", "got", "callback", "stuck"}]
           /\ op' \in [Thread -> {"get", "set"}] /\ name' \in [Thread -> Key \cup {NoKey}]
           /\ my' \in [Thread -> Entry \cup {None}]
           /\ start' \in [Thread -> 0..MaxVersion] /\ got' \in [Thread -> 0..MaxVersion]
           /\ pc'[t] = "idle"
           /\ \A u \in Thread \ {t} : /\ pc'[u] = pc[u] /\ name'[u] = name[u] /\ my'[u] = my[u]
                                      /\ start'[u] = start[u] /\ got'[u] = got[u]
BY CacheAssumption DEF TypeOK, Ends, Goes, None

LEMMA EndsInCall ==
    ASSUME IInv, NEW t \in Thread, Ends(t), UNCHANGED <<file, entry>>
    PROVE  InCall'
<1> SUFFICES ASSUME NEW u \in Thread, pc'[u] \in {"wait", "check", "build", "pack", "got"}
             PROVE  /\ name'[u] \in Key /\ my'[u] \in Entry
                    /\ entry[my'[u]].key = name'[u] /\ start'[u] <= file[name'[u]]
  BY DEF InCall
<1>1. u # t /\ pc'[u] = pc[u] /\ name'[u] = name[u] /\ my'[u] = my[u] /\ start'[u] = start[u]
  BY EndsFacts DEF IInv
<1> QED
  BY <1>1 DEF IInv, InCall

\* What a call that ends leaves to be shown, when neither files nor entries change.
LEMMA EndsIInv ==
    ASSUME IInv, NEW t \in Thread, Ends(t), UNCHANGED <<conf, file, lru, entry, calls>>,
           dict' \in [Key -> Entry \cup {None}], \A k \in Key : dict'[k] \in {dict[k], None},
           holder' \in [Entry -> Thread \cup {NoThread}],
           \A u \in Thread \ {t} : pc[u] \in {"check", "build", "pack"} => holder'[my[u]] = u,
           dict' = dict \/ conf.kind = "weak"
    PROVE  IInv'
<1>1. TypeOK'
  BY EndsFacts DEF IInv, TypeOK
<1>2. InCall'
  BY EndsInCall
<1>3. Locked' /\ Built' /\ CalledBack'
  BY EndsFacts DEF IInv, Locked, Built, CalledBack, At
<1>4. Keyed' /\ Timed'
  BY DEF IInv, Keyed, Timed
<1>5. Kept'
  BY EndsFacts DEF IInv, Kept
<1>6. Limited'
  <2>1. CASE dict' = dict
    BY <2>1, LimitedSame
  <2>2. CASE conf.kind = "weak"
    BY <2>2 DEF Limited
  <2> QED
    BY <2>1, <2>2
<1> QED
  BY <1>1, <1>2, <1>3, <1>4, <1>5, <1>6 DEF IInv

LEMMA FailsIInv ==
    ASSUME IInv, NEW t \in Thread, Fails(t)
    PROVE  IInv'
<1>1. /\ pc[t] \in {"build", "check"} /\ holder' = [holder EXCEPT ![my[t]] = NoThread] /\ Ends(t)
      /\ UNCHANGED <<conf, file, dict, lru, entry, calls>>
  BY DEF Fails, Released, At
<1>2. my[t] \in Entry /\ holder[my[t]] = t
  BY <1>1 DEF IInv, InCall, Locked
<1>3. \A u \in Thread \ {t} : pc[u] \in {"check", "build", "pack"} => holder'[my[u]] = u
  BY <1>1, <1>2 DEF IInv, TypeOK, InCall, Locked
<1>4. holder' \in [Entry -> Thread \cup {NoThread}] /\ dict \in [Key -> Entry \cup {None}]
  BY <1>1 DEF IInv, TypeOK
<1> QED
  BY <1>1, <1>3, <1>4, EndsIInv

LEMMA LetGoIInv ==
    ASSUME IInv, NEW t \in Thread, LetGo(t)
    PROVE  IInv'
<1>1. Ends(t) /\ UNCHANGED <<conf, file, dict, lru, entry, holder, calls>>
  BY DEF LetGo
<1>2. /\ holder \in [Entry -> Thread \cup {NoThread}] /\ dict \in [Key -> Entry \cup {None}]
      /\ \A u \in Thread : pc[u] \in {"check", "build", "pack"} => holder[my[u]] = u
  BY DEF IInv, TypeOK, Locked
<1> QED
  BY <1>1, <1>2, EndsIInv

LEMMA CallbackIInv ==
    ASSUME IInv, NEW t \in Thread, Callback(t)
    PROVE  IInv'
<1>1. /\ conf.kind = "weak" /\ name[t] \in Key /\ dict' = [dict EXCEPT ![name[t]] = None]
      /\ Ends(t) /\ UNCHANGED <<conf, file, lru, entry, holder, calls>>
  BY DEF Callback, IInv, CalledBack
<1>2. /\ holder \in [Entry -> Thread \cup {NoThread}] /\ dict' \in [Key -> Entry \cup {None}]
      /\ \A k \in Key : dict'[k] \in {dict[k], None}
      /\ \A u \in Thread : pc[u] \in {"check", "build", "pack"} => holder[my[u]] = u
  BY <1>1 DEF IInv, TypeOK, Locked
<1> QED
  BY <1>1, <1>2, EndsIInv

LEMMA CheckFreshIInv ==
    ASSUME IInv, NEW t \in Thread, CheckFresh(t)
    PROVE  IInv'
<1>1. /\ pc[t] = "check" /\ pc' = [pc EXCEPT ![t] = "got"]
      /\ got' = [got EXCEPT ![t] = entry[my[t]].val]
      /\ holder' = [holder EXCEPT ![my[t]] = NoThread]
      /\ UNCHANGED <<conf, file, dict, lru, entry, op, name, my, start, calls>>
  BY DEF CheckFresh, Released, Value, At, Goes
<1>2. my[t] \in Entry /\ holder[my[t]] = t /\ entry[my[t]].val \in 0..MaxVersion
  BY <1>1 DEF IInv, TypeOK, InCall, Locked
<1>3. TypeOK'
  BY <1>1, <1>2 DEF IInv, TypeOK
<1>4. Locked'
  BY <1>1, <1>2 DEF IInv, TypeOK, InCall, Locked
<1>5. InCall' /\ Keyed' /\ Timed' /\ Built' /\ CalledBack' /\ Kept' /\ Limited'
  BY <1>1, LimitedSame DEF IInv, TypeOK, InCall, Keyed, Timed, Built, CalledBack, Kept, At
<1> QED
  BY <1>3, <1>4, <1>5 DEF IInv

LEMMA PackIInv ==
    ASSUME IInv, NEW t \in Thread, Pack(t)
    PROVE  IInv'
<1>1. /\ pc[t] = "pack" /\ holder' = [holder EXCEPT ![my[t]] = NoThread]
      /\ entry' = [entry EXCEPT ![my[t]].val = got[t], ![my[t]].failed = FALSE]
      /\ \/ Ends(t)
         \/ pc' = [pc EXCEPT ![t] = "got"] /\ UNCHANGED <<op, name, my, start, got>>
      /\ UNCHANGED <<conf, file, dict, lru, calls>>
  BY DEF Pack, Released, At, Goes
<1>2. my[t] \in Entry /\ holder[my[t]] = t /\ got[t] \in 0..MaxVersion
  BY <1>1 DEF IInv, TypeOK, InCall, Locked
<1>3. /\ \A e \in Entry : e # my[t] => entry'[e] = entry[e]
      /\ \A e \in Entry : entry'[e].key = entry[e].key /\ entry'[e].time = entry[e].time
      /\ entry'[my[t]].val = got[t] /\ ~entry'[my[t]].failed
  BY <1>1, <1>2 DEF IInv, TypeOK
<1>4. entry' \in [Entry -> [key : Key \cup {NoKey}, val : 0..MaxVersion, time : 0..MaxVersion,
                            failed : BOOLEAN]]
  <2> DEFINE R == [key : Key \cup {NoKey}, val : 0..MaxVersion, time : 0..MaxVersion, failed : BOOLEAN]
             n == [entry[my[t]] EXCEPT !.val = got[t], !.failed = FALSE]
  <2>1. entry \in [Entry -> R] /\ entry[my[t]] \in R
    BY <1>2 DEF IInv, TypeOK
  <2>2. n \in R
    BY <1>2, <2>1
  <2>3. entry' = [entry EXCEPT ![my[t]] = n]
    BY <1>1
  <2> HIDE DEF n, R
  <2>4. entry' \in [Entry -> R]
    BY <2>1, <2>2, <2>3
  <2> QED
    BY <2>4 DEF R
<1>5. /\ pc' \in [Thread -> {"idle", "wait", "check", "build", "pack", "got", "callback", "stuck"}]
      /\ op' \in [Thread -> {"get", "set"}] /\ name' \in [Thread -> Key \cup {NoKey}]
      /\ my' \in [Thread -> Entry \cup {None}]
      /\ start' \in [Thread -> 0..MaxVersion] /\ got' \in [Thread -> 0..MaxVersion]
      /\ pc'[t] \in {"idle", "got"}
      /\ pc'[t] = "got" => name'[t] = name[t] /\ my'[t] = my[t] /\ start'[t] = start[t]
      /\ \A u \in Thread \ {t} : /\ pc'[u] = pc[u] /\ name'[u] = name[u] /\ my'[u] = my[u]
                                 /\ start'[u] = start[u] /\ got'[u] = got[u]
  <2>1. CASE Ends(t)
    BY <2>1, EndsFacts DEF IInv
  <2>2. CASE pc' = [pc EXCEPT ![t] = "got"] /\ UNCHANGED <<op, name, my, start, got>>
    BY <2>2 DEF IInv, TypeOK
  <2> QED
    BY <1>1, <2>1, <2>2
<1>6. TypeOK'
  BY <1>1, <1>4, <1>5 DEF IInv, TypeOK
<1>7. InCall'
  <2> SUFFICES ASSUME NEW u \in Thread, pc'[u] \in {"wait", "check", "build", "pack", "got"}
               PROVE  /\ name'[u] \in Key /\ my'[u] \in Entry
                      /\ entry'[my'[u]].key = name'[u] /\ start'[u] <= file[name'[u]]
    BY <1>1 DEF InCall
  <2>1. /\ name'[u] = name[u] /\ my'[u] = my[u] /\ start'[u] = start[u]
        /\ pc[u] \in {"wait", "check", "build", "pack", "got"}
    BY <1>1, <1>5
  <2>2. name[u] \in Key /\ my[u] \in Entry /\ entry[my[u]].key = name[u] /\ start[u] <= file[name[u]]
    BY <2>1 DEF IInv, InCall
  <2> QED
    BY <1>3, <2>1, <2>2
<1>8. Locked'
  <2> SUFFICES ASSUME NEW u \in Thread, pc'[u] \in {"check", "build", "pack"} PROVE holder'[my'[u]] = u
    BY DEF Locked
  <2>1. u # t /\ pc[u] \in {"check", "build", "pack"} /\ my'[u] = my[u]
    BY <1>5
  <2>2. holder[my[u]] = u /\ my[u] \in Entry
    BY <2>1 DEF IInv, InCall, Locked
  <2> QED
    BY <1>1, <1>2, <2>1, <2>2 DEF IInv, TypeOK
<1>9. Keyed'
  BY <1>1, <1>3 DEF IInv, TypeOK, Keyed
<1>10. Timed'
  BY <1>1, <1>2, <1>3 DEF IInv, Timed, Built, At
<1>11. Built'
  <2> SUFFICES ASSUME conf.kind = "file", NEW u \in Thread, pc'[u] = "pack"
               PROVE  start'[u] <= got'[u] /\ entry'[my'[u]].time <= got'[u]
    BY <1>1 DEF Built, At
  <2>1. /\ pc[u] = "pack" /\ my'[u] = my[u] /\ start'[u] = start[u] /\ got'[u] = got[u]
    BY <1>5
  <2>2. start[u] <= got[u] /\ entry[my[u]].time <= got[u] /\ my[u] \in Entry
    BY <2>1 DEF IInv, InCall, Built, At
  <2> QED
    BY <1>3, <2>1, <2>2
<1>12. CalledBack'
  BY <1>1, <1>5 DEF IInv, CalledBack, At
<1>13. Kept'
  BY <1>1, <1>5 DEF IInv, Kept
<1>14. Limited'
  BY <1>1, LimitedSame
<1> QED
  BY <1>6, <1>7, <1>8, <1>9, <1>10, <1>11, <1>12, <1>13, <1>14 DEF IInv

LEMMA CallsBackIInv ==
    ASSUME IInv, NEW t \in Thread, NEW e \in Entry, NEW at \in {"callback", "stuck"},
           At(t, "idle"), Unreferenced(e), CallsBack(t, e, at), calls' \in 0..MaxCalls
    PROVE  IInv'
<1>1. /\ conf.kind = "weak" /\ pc[t] = "idle" /\ pc' = [pc EXCEPT ![t] = at]
      /\ entry[e].key \in Key /\ name' = [name EXCEPT ![t] = entry[e].key]
      /\ entry' = [entry EXCEPT ![e].val = None]
      /\ UNCHANGED <<conf, file, dict, lru, holder, op, my, start, got>>
  BY DEF Unreferenced, CallsBack, At, Goes
<1>2. \A f \in Entry : /\ entry'[f].key = entry[f].key /\ entry'[f].time = entry[f].time
                       /\ entry'[f].failed = entry[f].failed
  BY <1>1 DEF IInv, TypeOK
<1>3. TypeOK'
  <2>1. entry' \in [Entry -> [key : Key \cup {NoKey}, val : 0..MaxVersion, time : 0..MaxVersion,
                              failed : BOOLEAN]]
    <3> DEFINE R == [key : Key \cup {NoKey}, val : 0..MaxVersion, time : 0..MaxVersion, failed : BOOLEAN]
               n == [entry[e] EXCEPT !.val = 0]
    <3>1. entry \in [Entry -> R] /\ entry[e] \in R /\ 0 \in 0..MaxVersion
      BY CacheAssumption DEF IInv, TypeOK
    <3>2. n \in R
      BY <3>1
    <3>3. entry' = [entry EXCEPT ![e] = n]
      BY <1>1 DEF None
    <3> HIDE DEF n, R
    <3>4. entry' \in [Entry -> R]
      BY <3>1, <3>2, <3>3
    <3> QED
      BY <3>4 DEF R
  <2> QED
    BY <1>1, <2>1 DEF IInv, TypeOK
<1>4. InCall' /\ Locked' /\ CalledBack'
  BY <1>1, <1>2 DEF IInv, TypeOK, InCall, Locked, CalledBack, At
<1>5. Keyed'
  BY <1>1, <1>2 DEF IInv, TypeOK, Keyed
<1>6. Timed' /\ Built' /\ Kept' /\ Limited'
  BY <1>1 DEF Timed, Built, Kept, Limited
<1> QED
  BY <1>3, <1>4, <1>5, <1>6 DEF IInv

LEMMA LastReferenceIInv ==
    ASSUME IInv, NEW t \in Thread, NEW e \in Entry, LastReference(t, e)
    PROVE  IInv'
<1>1. At(t, "idle") /\ Unreferenced(e) /\ CallsBack(t, e, "callback") /\ calls' \in 0..MaxCalls
  BY DEF LastReference, IInv, TypeOK
<1> QED
  BY <1>1, CallsBackIInv

LEMMA CollectedIInv ==
    ASSUME IInv, NEW t \in Thread, NEW k \in Key, NEW e \in Entry, Collected(t, k, e)
    PROVE  IInv'
<1>1. At(t, "idle") /\ Unreferenced(e) /\ CallsBack(t, e, "stuck") /\ calls' \in 0..MaxCalls
  BY CacheAssumption DEF Collected, IInv, TypeOK
<1> QED
  BY <1>1, CallsBackIInv

\* del cache[k] and clear().
LEMMA DeletesIInv ==
    ASSUME IInv, (\E k \in Key : Delete(k)) \/ Clear
    PROVE  IInv'
<1>1. /\ conf.deletes /\ dict' \in [Key -> Entry \cup {None}] /\ lru' \in Seq(Entry)
      /\ \A k \in Key : dict'[k] \in {dict[k], None}
      /\ UNCHANGED <<conf, file, entry, holder, pc, op, name, my, start, got, calls>>
  <2>1. CASE \E k \in Key : Delete(k)
    BY <2>1 DEF Delete, thread, IInv, TypeOK
  <2>2. CASE Clear
    BY <2>2 DEF Clear, thread, IInv, TypeOK
  <2> QED
    BY <2>1, <2>2
<1>2. TypeOK'
  BY <1>1 DEF IInv, TypeOK
<1>3. InCall' /\ Locked' /\ Timed' /\ Built' /\ CalledBack'
  BY <1>1 DEF IInv, InCall, Locked, Timed, Built, CalledBack, At
<1>4. Keyed' /\ Kept' /\ Limited'
  BY <1>1 DEF IInv, Keyed, Kept, Limited
<1> QED
  BY <1>2, <1>3, <1>4 DEF IInv

\* A call begins that has found or made entry e.
LEMMA StartsIInv ==
    ASSUME IInv, NEW t \in Thread, NEW o \in {"get", "set"}, NEW k \in Key, NEW e \in Entry,
           Starts(t, o, k, e), pc[t] = "idle", UNCHANGED <<conf, file, holder>>, calls' \in 0..MaxCalls,
           dict' \in [Key -> Entry \cup {None}], lru' \in Seq(Entry),
           entry' \in [Entry -> [key : Key \cup {NoKey}, val : 0..MaxVersion, time : 0..MaxVersion,
                                 failed : BOOLEAN]],
           entry'[e].key = k, \A u \in Thread : my[u] \in Entry => entry'[my[u]] = entry[my[u]],
           conf.max = 0 /\ conf.kind # "weak" /\ ~conf.deletes =>
               dict'[k] = e /\ \A x \in Key : dict[x] # None => dict'[x] = dict[x],
           Keyed', Timed', Limited'
    PROVE  IInv'
<1>1. /\ op' = [op EXCEPT ![t] = o] /\ name' = [name EXCEPT ![t] = k]
      /\ my' = [my EXCEPT ![t] = e] /\ start' = [start EXCEPT ![t] = file[k]]
      /\ pc' = [pc EXCEPT ![t] = "wait"] /\ got' = got
  BY DEF Starts, Goes
<1>2. file[k] \in 0..MaxVersion
  BY CacheAssumption DEF IInv, TypeOK
<1>3. TypeOK'
  BY <1>1, <1>2 DEF IInv, TypeOK
<1>4. \A u \in Thread \ {t} : /\ pc'[u] = pc[u] /\ name'[u] = name[u] /\ my'[u] = my[u]
                              /\ start'[u] = start[u]
  BY <1>1 DEF IInv, TypeOK
<1>5. pc'[t] = "wait" /\ name'[t] = k /\ my'[t] = e /\ start'[t] = file[k]
  BY <1>1 DEF IInv, TypeOK
<1>6. InCall'
  <2> SUFFICES ASSUME NEW u \in Thread, pc'[u] \in {"wait", "check", "build", "pack", "got"}
               PROVE  /\ name'[u] \in Key /\ my'[u] \in Entry
                      /\ entry'[my'[u]].key = name'[u] /\ start'[u] <= file[name'[u]]
    BY DEF InCall
  <2>1. CASE u = t
    BY <1>2, <1>5, <2>1
  <2>2. CASE u # t
    BY <1>4, <2>2 DEF IInv, InCall
  <2> QED
    BY <2>1, <2>2
<1>7. Locked' /\ CalledBack'
  BY <1>4, <1>5 DEF IInv, Locked, CalledBack, At
<1>8. Built'
  <2> SUFFICES ASSUME conf.kind = "file", NEW u \in Thread, pc'[u] = "pack"
               PROVE  start'[u] <= got[u] /\ entry'[my'[u]].time <= got[u]
    BY <1>1 DEF Built, At
  <2>1. u # t /\ pc[u] = "pack"
    BY <1>4, <1>5
  <2>2. my[u] \in Entry
    BY <2>1 DEF IInv, InCall
  <2> QED
    BY <1>4, <2>1, <2>2 DEF IInv, Built, At
<1>9. Kept'
  <2> SUFFICES ASSUME conf.max = 0 /\ conf.kind # "weak" /\ ~conf.deletes, NEW u \in Thread,
                      pc'[u] \in {"wait", "check", "build", "pack", "got"}
               PROVE  dict'[name'[u]] = my'[u]
    BY DEF Kept
  <2>1. CASE u = t
    BY <1>5, <2>1
  <2>2. CASE u # t
    <3>1. name'[u] = name[u] /\ my'[u] = my[u] /\ name[u] \in Key /\ my[u] \in Entry
      BY <1>4, <2>2 DEF IInv, InCall
    <3>2. dict[name[u]] = my[u] /\ my[u] # None
      BY SMTT(30), <1>4, <2>2, <3>1 DEF IInv, Kept, Entry, None
    <3> QED
      BY <3>1, <3>2
  <2> QED
    BY <2>1, <2>2
<1> QED
  BY <1>3, <1>6, <1>7, <1>8, <1>9 DEF IInv

LEMMA HitIInv ==
    ASSUME IInv, NEW t \in Thread, NEW o \in {"get", "set"}, NEW k \in Key, Call(t, o, k), Hit(t, o, k)
    PROVE  IInv'
<1>1. /\ dict[k] # None /\ dict[k] \in Entry /\ lru \in Seq(Entry)
      /\ lru' = Access(lru, dict[k]) /\ Starts(t, o, k, dict[k])
      /\ pc[t] = "idle" /\ calls' \in 0..MaxCalls /\ UNCHANGED <<conf, file, holder, dict, entry>>
  BY CacheAssumption DEF Call, Hit, At, IInv, TypeOK
<1>2. lru' \in Seq(Entry)
  BY <1>1, AccessType
<1>3. Keyed' /\ Timed' /\ entry[dict[k]].key = k
  BY <1>1 DEF IInv, Keyed, Timed
<1>4. Limited'
  <2> SUFFICES ASSUME conf.max > 0 /\ conf.kind # "weak" /\ ~conf.deletes
               PROVE  /\ Range(lru') = {dict[x] : x \in Cached} /\ IsInjective(lru')
                      /\ IsFiniteSet(Cached) /\ Cardinality(Cached) <= conf.max
    BY <1>1 DEF Limited, Cached
  <2>1. /\ Range(lru) = {dict[x] : x \in Cached} /\ IsInjective(lru)
        /\ IsFiniteSet(Cached) /\ Cardinality(Cached) <= conf.max
    BY DEF IInv, Limited
  <2>2. k \in Cached
    BY <1>1 DEF Cached
  <2>3. Range(lru') = Range(lru) \cup {dict[k]} /\ IsInjective(lru')
    <3>1. conf.max # 0
      BY CacheAssumption DEF IInv, TypeOK
    <3> QED
      BY <1>1, <2>1, <3>1, AccessFacts
  <2> QED
    BY <2>1, <2>2, <2>3
<1> QED
  BY <1>1, <1>2, <1>3, <1>4, StartsIInv DEF IInv, TypeOK

LEMMA MissIInv ==
    ASSUME IInv, NEW t \in Thread, NEW o \in {"get", "set"}, NEW k \in Key, Call(t, o, k), Miss(t, o, k)
    PROVE  IInv'
<1> DEFINE e    == Free
           d    == [dict EXCEPT ![k] = e]
           list == Access(lru, e)
           over == conf.max # 0 /\ ~(Cardinality({x \in Key : d[x] # None}) <= conf.max)
           old  == IF Head(list) = e THEN k ELSE entry[Head(list)].key
           R    == [key : Key \cup {NoKey}, val : 0..MaxVersion, time : 0..MaxVersion, failed : BOOLEAN]
<1>1. /\ dict[k] = None /\ Unused # {} /\ entry' = [entry EXCEPT ![e] = [Blank EXCEPT !.key = k]]
      /\ CheckLru(t, o, k, e, d, list)
      /\ pc[t] = "idle" /\ calls' \in 0..MaxCalls /\ UNCHANGED <<conf, file, holder>>
  BY CacheAssumption DEF Call, Miss, At, IInv, TypeOK
<1>2. /\ ~over => dict' = d /\ lru' = list /\ Starts(t, o, k, e)
      /\ over => /\ lru' = Tail(list)
                 /\ \/ d[old] # None /\ dict' = [d EXCEPT ![old] = None] /\ Starts(t, o, k, e)
                    \/ d[old] = None /\ dict' = d /\ UNCHANGED <<pc, op, name, my, start, got>>
  BY <1>1 DEF CheckLru
<1>3. /\ e \in Entry /\ e \notin Range(lru) /\ e # None
      /\ \A x \in Key : dict[x] # e
      /\ \A u \in Thread : my[u] # e
  BY <1>1, FreeFacts DEF Entry, None
<1>4. conf.max \in Nat /\ lru \in Seq(Entry) /\ dict \in [Key -> Entry \cup {None}] /\ entry \in [Entry -> R]
  BY CacheAssumption DEF IInv, TypeOK
<1> HIDE DEF e, R
<1>5. /\ entry' \in [Entry -> R] /\ entry'[e].key = k /\ entry'[e].val = None /\ entry'[e].time = 0
      /\ \A f \in Entry : f # e => entry'[f] = entry[f]
  <2> DEFINE n == [Blank EXCEPT !.key = k]
  <2>1. n \in R /\ n.key = k /\ n.val = None /\ n.time = 0
    <3>1. 0 \in 0..MaxVersion
      BY CacheAssumption
    <3> QED
      BY <3>1 DEF Blank, None, R
  <2>2. entry' = [entry EXCEPT ![e] = n]
    BY <1>1
  <2> HIDE DEF n
  <2> QED
    BY <1>3, <1>4, <2>1, <2>2
<1>6. /\ d \in [Key -> Entry \cup {None}] /\ d[k] = e
      /\ \A x \in Key \ {k} : d[x] = dict[x]
  BY <1>3, <1>4
<1>7. list \in Seq(Entry) /\ (conf.max # 0 => list # <<>>)
  <2>1. list \in Seq(Entry)
    BY <1>3, <1>4, AccessType
  <2>2. conf.max # 0 => list = Append(Unlinked(lru, e), e)
    BY DEF Access
  <2>3. conf.max # 0 => list # <<>>
    <3> SUFFICES ASSUME conf.max # 0, list = <<>> PROVE FALSE
      OBVIOUS
    <3>1. Access(lru, e) = Append(Unlinked(lru, e), e)
      BY DEF Access
    <3>2. Unlinked(lru, e) = lru
      BY <1>3 DEF Unlinked
    <3>3. Append(lru, e) # <<>>
      BY <1>3, <1>4
    <3> QED
      BY <3>1, <3>2, <3>3
  <2> QED
    BY <2>1, <2>3
<1> HIDE DEF d, list, old, over
<1>8. lru' \in Seq(Entry)
  <2>1. over => conf.max # 0
    BY DEF over
  <2> QED
    BY <1>2, <1>7, <2>1
<1>9. dict' \in [Key -> Entry \cup {None}] /\ \A x \in Key : dict'[x] \in {d[x], None}
  BY <1>2, <1>6
<1>10. Keyed'
  <2> SUFFICES ASSUME NEW x \in Key, dict'[x] # None PROVE entry'[dict'[x]].key = x
    BY DEF Keyed
  <2>1. dict'[x] = d[x]
    BY <1>9
  <2>2. CASE x = k
    BY <1>5, <1>6, <2>1, <2>2
  <2>3. CASE x # k
    <3>1. dict'[x] = dict[x] /\ dict[x] \in Entry /\ dict[x] # e /\ dict[x] # None
      BY <1>3, <1>4, <1>6, <2>1, <2>3
    <3> QED
      BY <1>5, <3>1 DEF IInv, Keyed
  <2> QED
    BY <2>2, <2>3
<1>11. Timed'
  <2> SUFFICES ASSUME conf.kind = "file", NEW f \in Entry, entry'[f].key \in Key
               PROVE  /\ entry'[f].time <= file[entry'[f].key]
                      /\ entry'[f].val # None /\ ~entry'[f].failed => entry'[f].time <= entry'[f].val
    BY <1>1 DEF Timed
  <2>1. CASE f = e
    <3>1. file[k] \in 1..MaxVersion
      BY DEF IInv, TypeOK
    <3> QED
      BY <1>5, <2>1, <3>1
  <2>2. CASE f # e
    BY <1>5, <2>2 DEF IInv, Timed
  <2> QED
    BY <2>1, <2>2
<1>12. ASSUME conf.max > 0, conf.kind # "weak", ~conf.deletes
       PROVE  /\ Range(lru') = {dict'[x] : x \in Cached'} /\ IsInjective(lru')
              /\ IsFiniteSet(Cached') /\ Cardinality(Cached') <= conf.max
              /\ over => d[old] # None
  <2>1. /\ Range(lru) = {dict[x] : x \in Cached} /\ IsInjective(lru)
        /\ IsFiniteSet(Cached) /\ Cardinality(Cached) <= conf.max /\ Cardinality(Cached) \in Nat
    BY <1>12, FS_CardinalityType DEF IInv, Limited
  <2>2. /\ Range(list) = Range(lru) \cup {e} /\ IsInjective(list)
    <3>1. conf.max # 0
      BY <1>4, <1>12
    <3> QED
      BY <1>3, <1>4, <2>1, <3>1, AccessFacts DEF list
  <2> DEFINE C == {x \in Key : d[x] # None}
  <2>3. C = Cached \cup {k} /\ k \notin Cached
    BY <1>1, <1>3, <1>6 DEF Cached
  <2>4. IsFiniteSet(C) /\ Cardinality(C) = Cardinality(Cached) + 1
    BY <2>1, <2>3, FS_AddElement
  <2>5. Range(list) = {d[x] : x \in C}
    <3>1. \A x \in Cached : d[x] = dict[x]
      BY <1>6, <2>3 DEF Cached
    <3> HIDE DEF C
    <3> QED
      BY <1>6, <2>1, <2>2, <2>3, <3>1
  <2>6. CASE ~over
    <3>1. dict' = d /\ lru' = list
      BY <1>2, <2>6
    <3>2. Cached' = C
      BY <3>1 DEF Cached
    <3>3. Cardinality(C) <= conf.max
      BY <1>12, <1>4, <2>6 DEF over
    <3> HIDE DEF C
    <3> QED
      BY <2>2, <2>4, <2>5, <2>6, <3>1, <3>2, <3>3
  <2>7. CASE over
    <3>1. list # <<>> /\ Head(list) \in Range(list) /\ Range(Tail(list)) = Range(list) \ {Head(list)}
          /\ IsInjective(Tail(list))
      BY <1>7, <1>12, <2>2, TailFacts
    <3>2. old \in C /\ d[old] = Head(list)
      <4>1. CASE Head(list) = e
        <5>1. old = k
          BY <4>1 DEF old
        <5> QED
          BY <1>3, <1>6, <4>1, <5>1
      <4>2. CASE Head(list) # e
        <5>1. PICK x \in Cached : Head(list) = dict[x]
          BY <2>1, <2>2, <3>1, <4>2
        <5>2. x \in Key /\ dict[x] # None /\ x # k
          BY <2>3, <5>1 DEF Cached
        <5>3. old = x
          BY <4>2, <5>1, <5>2 DEF old, IInv, Keyed
        <5> QED
          BY <1>6, <5>1, <5>2, <5>3
      <4> QED
        BY <4>1, <4>2
    <3>3. old \in Key /\ d[old] # None
      BY <3>2
    <3>4. dict' = [d EXCEPT ![old] = None] /\ lru' = Tail(list)
      BY <1>2, <2>7, <3>3
    <3>5. \A x \in Key : dict'[x] = IF x = old THEN None ELSE d[x]
      BY <1>6, <3>4
    <3>6. Cached' = C \ {old}
      BY <3>5 DEF Cached
    <3>7. IsFiniteSet(Cached') /\ Cardinality(Cached') = Cardinality(C) - 1
      BY <2>4, <3>2, <3>6, FS_RemoveElement
    <3>8. \A x \in C : x # old => d[x] # Head(list)
      <4> SUFFICES ASSUME NEW x \in C, d[x] = d[old] PROVE x = old
        BY <3>2
      <4>1. \A y \in C : entry'[d[y]].key = y
        <5> SUFFICES ASSUME NEW y \in C PROVE entry'[d[y]].key = y
          OBVIOUS
        <5>1. CASE y = k
          BY <1>5, <1>6, <5>1
        <5>2. CASE y # k
          <6>1. d[y] = dict[y] /\ dict[y] # None /\ dict[y] \in Entry /\ dict[y] # e
            BY <1>3, <1>4, <1>6, <5>2
          <6> QED
            BY <1>5, <6>1 DEF IInv, Keyed
        <5> QED
          BY <5>1, <5>2
      <4> QED
        BY <3>2, <4>1
    <3>9. \A x \in C : x \in Key
      OBVIOUS
    <3> HIDE DEF C
    <3>10. Range(lru') = {dict'[x] : x \in Cached'}
      <4>1. \A x \in C \ {old} : dict'[x] = d[x]
        BY <3>5, <3>9
      <4>2. {dict'[x] : x \in C \ {old}} = {d[x] : x \in C \ {old}}
        BY <4>1
      <4>3. {d[x] : x \in C \ {old}} = {d[x] : x \in C} \ {d[old]}
        BY <3>2, <3>8
      <4> QED
        BY <2>5, <3>1, <3>2, <3>4, <3>6, <4>2, <4>3
    <3>11. Cardinality(Cached') <= conf.max
      BY <2>1, <2>4, <3>7
    <3> QED
      BY <3>1, <3>3, <3>4, <3>7, <3>10, <3>11
  <2> QED
    BY <2>6, <2>7
<1>13. Limited'
  BY <1>1, <1>12 DEF Limited
<1>14. conf.max = 0 => ~over
  BY DEF over
<1>15. CASE Starts(t, o, k, e)
  <2>1. \A u \in Thread : my[u] \in Entry => entry'[my[u]] = entry[my[u]]
    BY <1>3, <1>5
  <2>2. conf.max = 0 => dict'[k] = e /\ \A x \in Key : dict[x] # None => dict'[x] = dict[x]
    BY <1>1, <1>2, <1>6, <1>14
  <2> QED
    BY <1>1, <1>3, <1>5, <1>8, <1>9, <1>10, <1>11, <1>13, <1>15, <2>1, <2>2, StartsIInv DEF R
<1>16. CASE ~Starts(t, o, k, e)
  <2>1. /\ UNCHANGED <<pc, op, name, my, start, got>> /\ over
    BY <1>2, <1>16
  <2>2. TypeOK'
    BY <1>1, <1>5, <1>8, <1>9, <2>1 DEF IInv, TypeOK, R
  <2>3. InCall' /\ Built'
    <3>1. \A u \in Thread : my[u] \in Entry => entry'[my[u]] = entry[my[u]]
      BY <1>3, <1>5
    <3> QED
      BY ZenonT(30), <1>1, <2>1, <3>1 DEF IInv, InCall, Built, At
  <2>4. Locked' /\ CalledBack'
    BY <1>1, <2>1 DEF IInv, Locked, CalledBack, At
  <2>5. Kept'
    BY <1>1, <1>14, <2>1 DEF Kept
  <2> QED
    BY <1>10, <1>11, <1>13, <2>2, <2>3, <2>4, <2>5 DEF IInv
<1> QED
  BY <1>15, <1>16

LEMMA NextIInv == IInv /\ [Next]_vars => IInv'
<1> SUFFICES ASSUME IInv, [Next]_vars PROVE IInv'
  OBVIOUS
<1>1. CASE UNCHANGED vars
  BY <1>1 DEF vars, thread, IInv, TypeOK, InCall, Locked, Keyed, Timed, Built, CalledBack, Kept,
              Limited, Cached, At
<1>2. ASSUME NEW k \in Key, Modify(k) PROVE IInv'
  BY <1>2, ModifyIInv
<1>3. CASE (\E k \in Key : Delete(k)) \/ Clear
  BY <1>3, DeletesIInv
<1>4. ASSUME NEW t \in Thread, NEW k \in Key, NEW o \in {"get", "set"}, Call(t, o, k) PROVE IInv'
  BY <1>4, HitIInv, MissIInv DEF Call
<1>5. ASSUME NEW t \in Thread, NEW e \in Entry, LastReference(t, e) PROVE IInv'
  BY <1>5, LastReferenceIInv
<1>6. ASSUME NEW t \in Thread, NEW k \in Key, NEW e \in Entry, Collected(t, k, e) PROVE IInv'
  BY <1>6, CollectedIInv
<1>7. ASSUME NEW t \in Thread, Step(t) PROVE IInv'
  BY <1>7, AcquireIInv, CheckStaleIInv, CheckFreshIInv, BuildIInv, PackIInv, FailsIInv, LetGoIInv,
     CallbackIInv DEF Step
<1> QED
  BY <1>1, <1>2, <1>3, <1>4, <1>5, <1>6, <1>7 DEF Next

-----------------------------------------------------------------------------
(* The theorems.                                                           *)

(* The invariant above holds in every reachable state: whatever is thrown  *)
(* out or deleted between the look-up and the lock of an entry, a call     *)
(* goes on with the entry of its name.                                     *)
THEOREM InvariantHolds == Spec => []IInv
<1>1. Init => IInv
  BY InitIInv
<1>2. IInv /\ [Next]_vars => IInv'
  BY NextIInv
<1> QED
  BY <1>1, <1>2, PTL DEF Spec

(* Threads that share a cache never check or build one name at a time; and *)
(* with a limit the dict and the access list agree, within the limit,      *)
(* after any calls.                                                        *)
THEOREM Keeps == Spec => []WellKept
<1>1. IInv => Isolated
  <2> SUFFICES ASSUME IInv, conf.max = 0 /\ conf.kind # "weak" /\ ~conf.deletes,
                      NEW t \in Thread, NEW u \in Thread, t # u,
                      pc[t] \in {"check", "build", "pack"}, pc[u] \in {"check", "build", "pack"},
                      name[t] = name[u]
               PROVE  FALSE
    BY DEF Isolated
  <2>1. my[t] = my[u]
    BY DEF IInv, Kept
  <2> QED
    BY <2>1 DEF IInv, Locked
<1>2. IInv => Agree
  BY DEF IInv, Agree, Limited, Keyed, Cached
<1> QED
  BY <1>1, <1>2, InvariantHolds, PTL DEF WellKept

(* A file cache never answers with a value that is older than the file was *)
(* when the call began, unless building the value had failed before.       *)
THEOREM AnswersAreFresh == Spec => Fresh
<1>1. ASSUME IInv, [Next]_vars, conf.kind = "file", conf.reload, NEW t \in Thread, Answers(t)
      PROVE  entry'[my[t]].failed \/ got'[t] >= start[t]
  <2>1. pc[t] # "got" /\ pc'[t] = "got"
    BY <1>1 DEF Answers, At
  <2>2. CASE CheckFresh(t)
    <3>1. /\ pc[t] = "check" /\ got'[t] = entry[my[t]].val /\ entry' = entry
          /\ entry[my[t]].val # None /\ entry[my[t]].time = file[name[t]]
      BY <1>1, <2>2 DEF CheckFresh, Stale, Value, At, IInv, TypeOK
    <3>2. /\ my[t] \in Entry /\ name[t] \in Key /\ entry[my[t]].key = name[t]
          /\ start[t] <= file[name[t]]
      BY <1>1, <3>1 DEF IInv, InCall
    <3>3. ~entry[my[t]].failed => file[name[t]] <= entry[my[t]].val
      BY <1>1, <3>1, <3>2 DEF IInv, Timed
    <3>4. /\ start[t] \in Int /\ file[name[t]] \in Int /\ entry[my[t]].val \in Int
      BY <1>1, <3>2 DEF IInv, TypeOK
    <3> QED
      BY <3>1, <3>2, <3>3, <3>4
  <2>3. CASE Pack(t)
    <3>1. pc \in [Thread -> {"idle", "wait", "check", "build", "pack", "got", "callback", "stuck"}]
      BY <1>1 DEF IInv, TypeOK
    <3>2. ~Ends(t)
      BY <2>1, <3>1 DEF Ends, Goes
    <3>3. pc[t] = "pack" /\ got' = got
      BY <2>3, <3>2 DEF Pack, At
    <3> QED
      BY <1>1, <3>3 DEF IInv, Built, At, TypeOK
  <2>4. CASE ~CheckFresh(t) /\ ~Pack(t)
    <3>1. pc \in [Thread -> {"idle", "wait", "check", "build", "pack", "got", "callback", "stuck"}]
      BY <1>1 DEF IInv, TypeOK
    <3>2. ASSUME NEW u \in Thread, Step(u) PROVE pc'[t] # "got" \/ pc'[t] = pc[t]
      BY <2>4, <3>1, <3>2
         DEF Step, Acquire, CheckStale, CheckFresh, Build, Pack, Fails, LetGo, Callback, Ends, Goes
    <3>3. ASSUME NEW u \in Thread, NEW k \in Key, NEW o \in {"get", "set"}, Call(u, o, k)
          PROVE  pc'[t] # "got" \/ pc'[t] = pc[t]
      <4>1. pc' = pc \/ \E e : Starts(u, o, k, e)
        BY <3>3 DEF Call, Hit, Miss, CheckLru
      <4> QED
        BY <3>1, <4>1 DEF Starts, Goes
    <3>4. ASSUME NEW u \in Thread, NEW e \in Entry,
                 LastReference(u, e) \/ \E k \in Key : Collected(u, k, e)
          PROVE  pc'[t] # "got" \/ pc'[t] = pc[t]
      BY <3>1, <3>4 DEF LastReference, Collected, CallsBack, Goes
    <3>5. ASSUME \/ \E k \in Key : Modify(k) \/ Delete(k)
                 \/ Clear \/ UNCHANGED vars
          PROVE  pc' = pc
      BY <3>5 DEF Modify, Delete, Clear, vars, thread
    <3> QED
      BY <1>1, <2>1, <3>2, <3>3, <3>4, <3>5 DEF Next
  <2> QED
    BY <2>2, <2>3, <2>4
<1>2. IInv /\ [Next]_vars =>
        [conf.kind = "file" /\ conf.reload =>
            \A t \in Thread : Answers(t) => entry'[my[t]].failed \/ got'[t] >= start[t]]_vars
  BY <1>1
<1> QED
  BY <1>2, InvariantHolds, PTL DEF Spec, Fresh

-----------------------------------------------------------------------------
(* Pages.  A request is at a point of loading a page, or of running one.   *)

Loads  == {"stat", "dbm_get", "dbm_read", "dbm_store", "dbm_write", "look", "hit", "old", "cfile",
           "parse", "store", "clean", "delete", "loaded"}
Coded  == {"dbm_store", "dbm_write", "hit", "store", "clean", "delete", "loaded"}
Runs   == {"session", "exec", "raised", "finally"}
Points == Loads \cup Runs \cup {"idle", "end"}

Version == 0..MaxVersion
\* Only a page that has an error page can set it.
RunFrame == {f \in [page : Page, code : Version, made : BOOLEAN, error : Version] :
                f.error # 0 => ErrorPage[f.page] # NoPage}

PspType ==
    /\ pspConf \in PspConfigs
    /\ pspFile \in [Page -> 1..MaxVersion]
    /\ cfile \in [Page -> [mtime : Version, code : Version]]
    /\ dbm \in [Page -> [mtime : Version, code : Version]]
    /\ mem \in [Page -> [hits : Nat, mtime : Version, code : Version]]
    /\ mtime \in [Request -> Version] /\ code \in [Request -> Version]
    /\ hits \in [Request -> Nat]

RunType ==
    /\ pspPc \in [Request -> Points]
    /\ page \in [Request -> Page \cup {NoPage}]
    /\ frames \in [Request -> Seq(RunFrame)]
    /\ has \in [Request -> BOOLEAN] /\ saved \in [Request -> BOOLEAN]
    /\ result \in [Request -> {"ok", "raised"}]

\* What is loaded is a page, the first of the request or an error page; and what runs has a frame.
Placed == \A r \in Request :
    /\ pspPc[r] \in Loads => page[r] \in Page
    /\ pspPc[r] \in Loads /\ frames[r] # <<>> => ErrorPage[frames[r][Len(frames[r])].page] # NoPage
    /\ pspPc[r] \in Runs => frames[r] # <<>>
    /\ pspPc[r] \in {"idle", "end"} => frames[r] = <<>>

\* The code in a cache is not older than the time that is with it, nor is that of a request; and
\* a time that was read is not later than the file.
Codes ==
    /\ \A p \in Page : /\ cfile[p].code >= cfile[p].mtime /\ dbm[p].code >= dbm[p].mtime
                       /\ mem[p].code >= mem[p].mtime
    /\ \A r \in Request :
           /\ IF pspPc[r] \in Coded THEN code[r] >= mtime[r] ELSE code[r] = 0
           /\ pspPc[r] \in Loads \ {"stat"} => mtime[r] <= pspFile[page[r]]

\* A request has its session as long as it has the lock; at most one of its frames has made it,
\* and has not given it up yet; and at the end of a run that ended well it is saved.
Owned == \A r \in Request :
    /\ has[r] <=> lock = r
    /\ pspPc[r] \in {"idle", "session"} => ~has[r]
    /\ \A i \in 1..Len(frames[r]) : frames[r][i].made =>
           has[r] /\ \A j \in 1..Len(frames[r]) : frames[r][j].made => i = j
    /\ pspPc[r] = "finally" /\ result[r] = "ok" /\ has[r] => saved[r]

PspInv == PspType /\ RunType /\ Placed /\ Codes /\ Owned

LEMMA PspInit == P!PspAssumption /\ P!Init => PspInv
<1> SUFFICES ASSUME P!PspAssumption, P!Init PROVE PspInv
  OBVIOUS
<1>1. PspType
  BY DEF P!Init, PspType, P!PspAssumption, P!NoFile, P!Nothing, P!NoCode, Version
<1>2. RunType
  <2>1. frames \in [Request -> Seq(RunFrame)]
    BY DEF P!Init
  <2> QED
    BY <2>1 DEF P!Init, RunType, Points
<1>3. Placed
  BY DEF P!Init, Placed, Loads, Runs
<1>4. Codes
  BY DEF P!Init, Codes, Loads, Coded, P!NoFile, P!Nothing, P!NoCode
<1>5. Owned
  <2>1. \A r \in Request : has[r] = FALSE /\ lock # r /\ pspPc[r] # "finally" /\ Len(frames[r]) = 0
    BY DEF P!Init, P!PspAssumption
  <2> QED
    BY <2>1 DEF Owned
<1> QED
  BY <1>1, <1>2, <1>3, <1>4, <1>5 DEF PspInv

(***************************************************************************)
(* Steps that load a page leave what runs alone: the request goes on to    *)
(* load, or an exception ends it or the page that set its error page.      *)
(***************************************************************************)
To(r, x) == pspPc' = [pspPc EXCEPT ![r] = x]
LoadGoesOn(r) == page' = page /\ \E x \in Loads : To(r, x)
LoadEnds(r) ==
    /\ page' = [page EXCEPT ![r] = NoPage]
    /\ To(r, IF frames[r] = <<>> THEN "end" ELSE "raised")
LoadStep(r) ==
    /\ pspPc[r] \in Loads /\ (LoadGoesOn(r) \/ LoadEnds(r))
    /\ UNCHANGED <<pspConf, pspFile, cfile, lock, frames, has, saved, result>>

LEMMA LoadStepKeeps ==
    ASSUME PspInv, NEW r \in Request, LoadStep(r)
    PROVE  RunType' /\ Placed' /\ Owned'
<1>1. PICK x \in Points : /\ To(r, x) /\ x \notin {"session", "exec", "finally", "idle"}
                          /\ x \in Loads => page' = page
                          /\ x \notin Loads => page' = [page EXCEPT ![r] = NoPage]
                          /\ x = "end" => frames[r] = <<>>
                          /\ x = "raised" => frames[r] # <<>>
  BY DEF LoadStep, LoadGoesOn, LoadEnds, Loads, Points, Runs
<1>2. pspPc \in [Request -> Points]
  BY DEF PspInv, RunType
<1>3. \A q \in Request : pspPc'[q] = IF q = r THEN x ELSE pspPc[q]
  BY <1>1, <1>2 DEF To
<1>4. RunType'
  BY <1>1, <1>2 DEF PspInv, RunType, LoadStep, To
<1>5. Placed'
  <2>1. pspPc[r] \in Loads => page[r] \in Page
    BY DEF PspInv, Placed
  <2> QED
    BY <1>1, <1>3, <2>1 DEF PspInv, Placed, LoadStep, RunType, Runs, Loads
<1>6. Owned'
  BY <1>1, <1>3 DEF PspInv, Owned, LoadStep
<1> QED
  BY <1>4, <1>5, <1>6

(* An exception leaves the request without a page.                         *)
LEMMA FailsPsp ==
    ASSUME P!PspAssumption, PspInv, NEW r \in Request, pspPc[r] \in Loads, P!LoadFails(r),
           UNCHANGED <<pspConf, pspFile, cfile, dbm, mem, lock, frames, has, saved, result>>
    PROVE  LoadStep(r) /\ PspType' /\ Codes'
<1>0. pspPc \in [Request -> Points] /\ PspType /\ Codes
  BY DEF PspInv, RunType
<1>1. LoadStep(r)
  BY DEF P!LoadFails, P!Dropped, P!Goes, LoadStep, LoadEnds, To
<1>2. /\ mtime' = [mtime EXCEPT ![r] = 0] /\ code' = [code EXCEPT ![r] = 0]
      /\ hits' = [hits EXCEPT ![r] = 0]
  BY DEF P!LoadFails, P!Dropped, P!NoCode
<1>3. 0 \in Version
  BY DEF P!PspAssumption, Version
<1>4. PspType'
  <2>1. mtime' \in [Request -> Version] /\ code' \in [Request -> Version] /\ hits' \in [Request -> Nat]
    <3>1. mtime \in [Request -> Version] /\ code \in [Request -> Version] /\ hits \in [Request -> Nat]
      BY <1>0 DEF PspType
    <3> QED
      BY <1>2, <1>3, <3>1
  <2> QED
    BY <1>0, <2>1 DEF PspType
<1>5. Codes'
  <2>1. \A q \in Request : q # r => pspPc'[q] = pspPc[q] /\ code'[q] = code[q] /\ mtime'[q] = mtime[q] /\ page'[q] = page[q]
    BY <1>0, <1>2 DEF P!LoadFails, P!Dropped, P!Goes
  <2>2. pspPc'[r] \notin Loads /\ code'[r] = 0
    BY <1>0, <1>2 DEF P!LoadFails, P!Goes, Loads, PspType
  <2>3. Coded \subseteq Loads
    BY DEF Coded, Loads
  <2> QED
    BY <1>0, <2>1, <2>2, <2>3 DEF Codes
<1> QED
  BY <1>1, <1>4, <1>5

(* A request goes on, with a time and a code that go together.             *)
CachesRight ==
    /\ dbm \in [Page -> [mtime : Version, code : Version]]
    /\ mem \in [Page -> [hits : Nat, mtime : Version, code : Version]]
    /\ \A p \in Page : dbm[p].code >= dbm[p].mtime /\ mem[p].code >= mem[p].mtime

Carries(r, x, m, c, h) ==
    /\ pspPc[r] \in Loads /\ x \in Loads /\ To(r, x) /\ m \in Version /\ c \in Version /\ h \in Nat
    /\ UNCHANGED <<pspConf, pspFile, cfile, lock, frames, has, saved, result, page>>
    /\ mtime' = [mtime EXCEPT ![r] = m] /\ code' = [code EXCEPT ![r] = c]
    /\ hits' = [hits EXCEPT ![r] = h]
    /\ IF x \in Coded THEN c >= m ELSE c = 0
    /\ x # "stat" => m <= pspFile[page[r]]

LEMMA GoesOnPsp ==
    ASSUME P!PspAssumption, PspInv, NEW r \in Request, NEW x, NEW m, NEW c, NEW h, Carries(r, x, m, c, h),
           CachesRight'
    PROVE  LoadStep(r) /\ PspType' /\ Codes'
<1>0. pspPc \in [Request -> Points] /\ PspType /\ Codes
  BY DEF PspInv, RunType
<1>1. LoadStep(r)
  BY DEF Carries, LoadStep, LoadGoesOn
<1>2. PspType'
  BY <1>0 DEF PspType, Carries, CachesRight
<1>3. Codes'
  <2>1. \A q \in Request : q # r => pspPc'[q] = pspPc[q] /\ code'[q] = code[q] /\ mtime'[q] = mtime[q] /\ page'[q] = page[q]
    BY <1>0 DEF To, Carries
  <2>2. pspPc'[r] = x /\ code'[r] = c /\ mtime'[r] = m /\ page'[r] = page[r]
    BY <1>0 DEF To, PspType, Carries
  <2> QED
    BY <1>0, <2>1, <2>2 DEF Codes, Carries, CachesRight
<1> QED
  BY <1>1, <1>2, <1>3

LEMMA NotFoundPsp ==
    ASSUME P!PspAssumption, PspInv, NEW r \in Request, P!NotFound(r)
    PROVE  LoadStep(r) /\ PspType' /\ Codes'
<1>0. /\ pspPc \in [Request -> Points] /\ PspType /\ Codes /\ pspPc[r] \in {"stat"}
      /\ pspPc[r] \in Loads /\ page[r] \in Page
  BY DEF P!NotFound, P!At, PspInv, RunType, Placed, Loads
<1>1. P!LoadFails(r) /\ UNCHANGED <<pspConf, pspFile, cfile, dbm, mem, lock, frames, has, saved, result>>
  BY DEF P!NotFound, P!running, P!caches
<1> QED
  BY <1>0, <1>1, FailsPsp

LEMMA LookPsp ==
    ASSUME P!PspAssumption, PspInv, NEW r \in Request, P!Look(r)
    PROVE  LoadStep(r) /\ PspType' /\ Codes'
<1>0. /\ pspPc \in [Request -> Points] /\ PspType /\ Codes /\ pspPc[r] \in {"look"}
      /\ pspPc[r] \in Loads /\ page[r] \in Page
  BY DEF P!Look, P!At, PspInv, RunType, Placed, Loads
<1>1. /\ mtime[r] \in Version /\ mtime[r] <= pspFile[page[r]] /\ code[r] = 0 /\ code[r] \in Version
      /\ hits[r] \in Nat /\ mem[page[r]] \in [hits : Nat, mtime : Version, code : Version]
      /\ mem[page[r]].code >= mem[page[r]].mtime
  BY <1>0 DEF PspType, Codes, Loads, Coded
<1>2. /\ mtime' = [mtime EXCEPT ![r] = mtime[r]] /\ UNCHANGED <<pspConf, pspFile, cfile, dbm, mem, lock, frames, has, saved, result, page>>
  BY <1>0 DEF P!Look, P!running, P!caches, PspType
<1>3. CachesRight'
  BY <1>0, <1>2 DEF PspType, Codes, CachesRight
<1>4. CASE P!InCache(page[r]) /\ mem[page[r]].mtime = mtime[r]
  <2>1. /\ code' = [code EXCEPT ![r] = mem[page[r]].code] /\ hits' = [hits EXCEPT ![r] = mem[page[r]].hits]
        /\ To(r, "hit")
    BY <1>4 DEF P!Look, P!Goes, To
  <2>2. "hit" \in Loads \cap Coded /\ "hit" # "stat" /\ mem[page[r]].code >= mtime[r]
    BY <1>1, <1>4 DEF Loads, Coded
  <2>9. Carries(r, "hit", mtime[r], mem[page[r]].code, mem[page[r]].hits)
    BY <1>0, <1>1, <1>2, <2>1, <2>2 DEF Carries
  <2> QED
    BY <2>9, <1>3, GoesOnPsp
<1>5. CASE ~(P!InCache(page[r]) /\ mem[page[r]].mtime = mtime[r])
  <2>1. PICK x \in {"parse", "cfile", "old"} : To(r, x)
    BY <1>5 DEF P!Look, P!Goes, To
  <2>2. code' = [code EXCEPT ![r] = 0] /\ hits' = [hits EXCEPT ![r] = hits[r]]
    BY <1>0, <1>1, <1>5 DEF P!Look, PspType
  <2>3. x \in Loads /\ x \notin Coded /\ 0 \in Version
    BY <1>1 DEF Loads, Coded
  <2>9. Carries(r, x, mtime[r], 0, hits[r])
    BY <1>0, <1>1, <1>2, <2>1, <2>2, <2>3 DEF Carries
  <2> QED
    BY <2>9, <1>3, GoesOnPsp
<1> QED
  BY <1>4, <1>5

LEMMA CountHitPsp ==
    ASSUME P!PspAssumption, PspInv, NEW r \in Request, P!CountHit(r)
    PROVE  LoadStep(r) /\ PspType' /\ Codes'
<1>0. /\ pspPc \in [Request -> Points] /\ PspType /\ Codes /\ pspPc[r] \in {"hit"}
      /\ pspPc[r] \in Loads /\ page[r] \in Page
  BY DEF P!CountHit, P!At, PspInv, RunType, Placed, Loads
<1>1. /\ mtime[r] \in Version /\ mtime[r] <= pspFile[page[r]] /\ code[r] \in Version /\ code[r] >= mtime[r]
      /\ hits[r] \in Nat /\ mem[page[r]].hits \in Nat
  BY <1>0 DEF PspType, Codes, Loads, Coded
<1>2. CASE P!LoadFails(r) /\ UNCHANGED mem
  BY <1>0, <1>2, FailsPsp DEF P!CountHit, P!running
<1>3. CASE ~(P!LoadFails(r) /\ UNCHANGED mem)
  <2> DEFINE n == (IF pspConf.strings THEN mem[page[r]].hits ELSE hits[r]) + 1
  <2>1. /\ mem' = [mem EXCEPT ![page[r]] = [hits |-> n, mtime |-> mtime[r], code |-> code[r]]]
        /\ UNCHANGED <<mtime, code, hits, page>>
        /\ UNCHANGED <<pspConf, pspFile, cfile, dbm, lock, frames, has, saved, result>>
    BY <1>0, <1>3 DEF P!CountHit, P!load, P!running, PspType
  <2>2. PICK x \in {"loaded", "dbm_store", "store"} : To(r, x)
    BY <1>3 DEF P!CountHit, P!Goes, To
  <2>3. x \in Loads /\ x \in Coded /\ x # "stat" /\ n \in Nat
    BY <1>1 DEF Loads, Coded
  <2> HIDE DEF n
  <2>4. CachesRight'
    BY <1>0, <1>1, <2>1, <2>3 DEF PspType, Codes, CachesRight
  <2>5. /\ mtime' = [mtime EXCEPT ![r] = mtime[r]] /\ code' = [code EXCEPT ![r] = code[r]]
        /\ hits' = [hits EXCEPT ![r] = hits[r]]
    BY <1>0, <2>1 DEF PspType
  <2>9. Carries(r, x, mtime[r], code[r], hits[r])
    BY <1>0, <1>1, <2>1, <2>2, <2>3, <2>5 DEF Carries
  <2> QED
    BY <2>9, <2>4, GoesOnPsp
<1> QED
  BY <1>2, <1>3

LEMMA ParsePsp ==
    ASSUME P!PspAssumption, PspInv, NEW r \in Request, P!Parse(r)
    PROVE  LoadStep(r) /\ PspType' /\ Codes'
<1>0. /\ pspPc \in [Request -> Points] /\ PspType /\ Codes /\ pspPc[r] \in {"parse"}
      /\ pspPc[r] \in Loads /\ page[r] \in Page
  BY DEF P!Parse, P!At, PspInv, RunType, Placed, Loads
<1>1. /\ mtime[r] \in Version /\ mtime[r] <= pspFile[page[r]] /\ pspFile[page[r]] \in Version
      /\ hits[r] \in Nat
  BY <1>0 DEF PspType, Codes, Loads, Coded, Version, P!PspAssumption
<1>2. UNCHANGED <<pspConf, pspFile, cfile, dbm, mem, lock, frames, has, saved, result>>
  BY DEF P!Parse, P!running, P!caches
<1>3. CASE P!LoadFails(r)
  BY <1>0, <1>2, <1>3, FailsPsp
<1>4. CASE ~P!LoadFails(r)
  <2>1. code' = [code EXCEPT ![r] = pspFile[page[r]]] /\ UNCHANGED <<page, mtime, hits>>
    BY <1>4 DEF P!Parse
  <2>2. PICK x \in {"dbm_store", "store"} : To(r, x)
    BY <1>4 DEF P!Parse, P!Goes, To
  <2>3. x \in Loads /\ x \in Coded /\ x # "stat" /\ pspFile[page[r]] >= mtime[r]
    BY <1>1 DEF Loads, Coded, Version
  <2>4. mtime' = [mtime EXCEPT ![r] = mtime[r]] /\ hits' = [hits EXCEPT ![r] = hits[r]]
    BY <1>0, <2>1 DEF PspType
  <2>5. CachesRight'
    BY <1>0, <1>2 DEF PspType, Codes, CachesRight
  <2>9. Carries(r, x, mtime[r], pspFile[page[r]], hits[r])
    BY <1>0, <1>1, <1>2, <2>1, <2>2, <2>3, <2>4 DEF Carries
  <2> QED
    BY <2>9, <2>5, GoesOnPsp
<1> QED
  BY <1>3, <1>4

LEMMA CleanPsp ==
    ASSUME P!PspAssumption, PspInv, NEW r \in Request, P!Clean(r)
    PROVE  LoadStep(r) /\ PspType' /\ Codes'
<1>0. /\ pspPc \in [Request -> Points] /\ PspType /\ Codes /\ pspPc[r] \in {"clean"}
      /\ pspPc[r] \in Loads /\ page[r] \in Page
  BY DEF P!Clean, P!At, PspInv, RunType, Placed, Loads
<1>1. /\ mtime[r] \in Version /\ mtime[r] <= pspFile[page[r]] /\ code[r] \in Version /\ code[r] >= mtime[r]
      /\ hits[r] \in Nat
  BY <1>0 DEF PspType, Codes, Loads, Coded
<1>2. UNCHANGED <<pspConf, pspFile, cfile, dbm, mem, lock, frames, has, saved, result>>
  BY DEF P!Clean, P!running, P!caches
<1>3. P!LoadFails(r) \/ (P!Goes(r, "delete") /\ UNCHANGED <<page, mtime, code, hits>>)
  BY DEF P!Clean
<1>4. CASE P!LoadFails(r)
  BY <1>0, <1>2, <1>4, FailsPsp
<1>5. CASE P!Goes(r, "delete") /\ UNCHANGED <<page, mtime, code, hits>>
  <2>1. To(r, "delete") /\ "delete" \in Loads /\ "delete" \in Coded /\ "delete" # "stat"
    BY <1>5 DEF P!Goes, To, Loads, Coded
  <2>2. /\ mtime' = [mtime EXCEPT ![r] = mtime[r]] /\ code' = [code EXCEPT ![r] = code[r]]
        /\ hits' = [hits EXCEPT ![r] = hits[r]]
    BY <1>0, <1>5 DEF PspType
  <2>3. CachesRight'
    BY <1>0, <1>2 DEF PspType, Codes, CachesRight
  <2>9. Carries(r, "delete", mtime[r], code[r], hits[r])
    BY <1>0, <1>1, <1>2, <1>5, <2>1, <2>2 DEF Carries
  <2> QED
    BY <2>9, <2>3, GoesOnPsp
<1> QED
  BY <1>3, <1>4, <1>5

LEMMA DeleteLeastHitPsp ==
    ASSUME P!PspAssumption, PspInv, NEW r \in Request, P!DeleteLeastHit(r)
    PROVE  LoadStep(r) /\ PspType' /\ Codes'
<1>0. /\ pspPc \in [Request -> Points] /\ PspType /\ Codes /\ pspPc[r] \in {"delete"}
      /\ pspPc[r] \in Loads /\ page[r] \in Page
  BY DEF P!DeleteLeastHit, P!At, PspInv, RunType, Placed, Loads
<1>1. /\ mtime[r] \in Version /\ mtime[r] <= pspFile[page[r]] /\ code[r] \in Version /\ code[r] >= mtime[r]
      /\ hits[r] \in Nat
  BY <1>0 DEF PspType, Codes, Loads, Coded
<1>2. UNCHANGED <<pspConf, pspFile, cfile, dbm, lock, frames, has, saved, result>>
  BY DEF P!DeleteLeastHit, P!running
<1> DEFINE first == Head(todo[r])
           Stays == UNCHANGED <<page, mtime, code, hits>>
<1>3. \/ P!Goes(r, "loaded") /\ UNCHANGED mem /\ Stays
      \/ P!LoadFails(r) /\ UNCHANGED mem
      \/ mem' = [mem EXCEPT ![first] = P!Nothing] /\ UNCHANGED pspPc /\ Stays
  BY DEF P!DeleteLeastHit, P!load
<1> HIDE DEF first
<1>4. CASE P!LoadFails(r) /\ UNCHANGED mem
  BY <1>0, <1>2, <1>4, FailsPsp
<1>5. CASE ~(P!LoadFails(r) /\ UNCHANGED mem)
  <2>1. PICK x \in {"loaded", "delete"} : To(r, x)
    BY <1>0, <1>3, <1>5 DEF P!Goes, To
  <2>2. x \in Loads /\ x \in Coded /\ x # "stat"
    BY DEF Loads, Coded
  <2>3. mem' = mem \/ mem' = [mem EXCEPT ![first] = P!Nothing]
    BY <1>3
  <2>4. CachesRight'
    <3>1. P!Nothing \in [hits : Nat, mtime : Version, code : Version] /\ P!Nothing.code >= P!Nothing.mtime
      BY DEF P!Nothing, P!NoCode, Version, P!PspAssumption
    <3>2. \A p \in Page : mem'[p] = mem[p] \/ mem'[p] = P!Nothing
      BY <1>0, <2>3 DEF PspType
    <3>3. mem' \in [Page -> [hits : Nat, mtime : Version, code : Version]]
      BY <1>0, <2>3, <3>1 DEF PspType
    <3> QED
      BY <1>0, <1>2, <3>1, <3>2, <3>3 DEF PspType, Codes, CachesRight
  <2>5. Stays /\ /\ mtime' = [mtime EXCEPT ![r] = mtime[r]] /\ code' = [code EXCEPT ![r] = code[r]]
                 /\ hits' = [hits EXCEPT ![r] = hits[r]]
    BY <1>0, <1>3, <1>5 DEF PspType
  <2>9. Carries(r, x, mtime[r], code[r], hits[r])
    BY <1>0, <1>1, <1>2, <2>1, <2>2, <2>5 DEF Carries
  <2> QED
    BY <2>9, <2>4, GoesOnPsp
<1> QED
  BY <1>4, <1>5

LEMMA StatPsp ==
    ASSUME P!PspAssumption, PspInv, NEW r \in Request, P!Stat(r)
    PROVE  LoadStep(r) /\ PspType' /\ Codes'
<1>0. /\ pspPc \in [Request -> Points] /\ page \in [Request -> Page \cup {NoPage}]
      /\ PspType /\ Codes /\ (pspPc[r] \in Loads => page[r] \in Page)
  BY DEF PspInv, RunType, Placed
<1>1. LoadStep(r)
  BY <1>0 DEF P!Stat, P!LoadFails, P!Dropped, P!Goes, P!At, P!running, P!caches, P!load, LoadStep, LoadGoesOn, LoadEnds, To, Loads, Points, Runs
<1>2. PspType'
  BY <1>0 DEF P!Stat, P!LoadFails, P!Dropped, P!Goes, P!At, P!running, P!caches, P!load, PspType, P!PspAssumption, P!NoFile, P!Nothing, P!NoCode, Version, Loads
<1>3. Codes'
  BY <1>0 DEF P!Stat, P!LoadFails, P!Dropped, P!Goes, P!At, P!running, P!caches, P!load, PspType, P!PspAssumption, P!NoFile, P!Nothing, P!NoCode, Version, Loads, Coded, Points, Codes
<1> QED
  BY <1>1, <1>2, <1>3

LEMMA DbmLockPsp ==
    ASSUME P!PspAssumption, PspInv, NEW r \in Request, P!DbmLock(r)
    PROVE  LoadStep(r) /\ PspType' /\ Codes'
<1>0. /\ pspPc \in [Request -> Points] /\ page \in [Request -> Page \cup {NoPage}]
      /\ PspType /\ Codes /\ (pspPc[r] \in Loads => page[r] \in Page)
  BY DEF PspInv, RunType, Placed
<1>1. LoadStep(r)
  BY <1>0 DEF P!DbmLock, P!LoadFails, P!Dropped, P!Goes, P!At, P!running, P!caches, P!load, LoadStep, LoadGoesOn, LoadEnds, To, Loads, Points, Runs
<1>2. PspType'
  BY <1>0 DEF P!DbmLock, P!LoadFails, P!Dropped, P!Goes, P!At, P!running, P!caches, P!load, PspType, P!PspAssumption, P!NoFile, P!Nothing, P!NoCode, Version, Loads
<1>3. Codes'
  BY <1>0 DEF P!DbmLock, P!LoadFails, P!Dropped, P!Goes, P!At, P!running, P!caches, P!load, PspType, P!PspAssumption, P!NoFile, P!Nothing, P!NoCode, Version, Loads, Coded, Points, Codes
<1> QED
  BY <1>1, <1>2, <1>3

LEMMA DbmReadPsp ==
    ASSUME P!PspAssumption, PspInv, NEW r \in Request, P!DbmRead(r)
    PROVE  LoadStep(r) /\ PspType' /\ Codes'
<1>0. /\ pspPc \in [Request -> Points] /\ page \in [Request -> Page \cup {NoPage}]
      /\ PspType /\ Codes /\ (pspPc[r] \in Loads => page[r] \in Page)
  BY DEF PspInv, RunType, Placed
<1>1. LoadStep(r)
  BY <1>0 DEF P!DbmRead, P!LoadFails, P!Dropped, P!Goes, P!At, P!running, P!caches, P!load, LoadStep, LoadGoesOn, LoadEnds, To, Loads, Points, Runs
<1>2. PspType'
  BY SMTT(30), <1>0 DEF P!DbmRead, P!LoadFails, P!Dropped, P!Goes, P!At, P!running, P!caches, P!load, PspType, P!PspAssumption, P!NoFile, P!Nothing, P!NoCode, Version, Loads
<1>3. Codes'
  BY <1>0 DEF P!DbmRead, P!LoadFails, P!Dropped, P!Goes, P!At, P!running, P!caches, P!load, PspType, P!PspAssumption, P!NoFile, P!Nothing, P!NoCode, Version, Loads, Coded, Points, Codes
<1> QED
  BY <1>1, <1>2, <1>3

LEMMA DbmWritePsp ==
    ASSUME P!PspAssumption, PspInv, NEW r \in Request, P!DbmWrite(r)
    PROVE  LoadStep(r) /\ PspType' /\ Codes'
<1>0. /\ pspPc \in [Request -> Points] /\ page \in [Request -> Page \cup {NoPage}]
      /\ PspType /\ Codes /\ (pspPc[r] \in Loads => page[r] \in Page)
  BY DEF PspInv, RunType, Placed
<1>1. LoadStep(r)
  BY <1>0 DEF P!DbmWrite, P!LoadFails, P!Dropped, P!Goes, P!At, P!running, P!caches, P!load, LoadStep, LoadGoesOn, LoadEnds, To, Loads, Points, Runs
<1>2. PspType'
  BY <1>0 DEF P!DbmWrite, P!LoadFails, P!Dropped, P!Goes, P!At, P!running, P!caches, P!load, PspType, P!PspAssumption, P!NoFile, P!Nothing, P!NoCode, Version, Loads
<1>3. Codes'
  BY <1>0 DEF P!DbmWrite, P!LoadFails, P!Dropped, P!Goes, P!At, P!running, P!caches, P!load, PspType, P!PspAssumption, P!NoFile, P!Nothing, P!NoCode, Version, Loads, Coded, Points, Codes
<1> QED
  BY <1>1, <1>2, <1>3

LEMMA DbmFailsPsp ==
    ASSUME P!PspAssumption, PspInv, NEW r \in Request, P!DbmFails(r)
    PROVE  LoadStep(r) /\ PspType' /\ Codes'
<1>0. /\ pspPc \in [Request -> Points] /\ page \in [Request -> Page \cup {NoPage}]
      /\ PspType /\ Codes /\ (pspPc[r] \in Loads => page[r] \in Page)
  BY DEF PspInv, RunType, Placed
<1>1. LoadStep(r)
  BY <1>0 DEF P!DbmFails, P!LoadFails, P!Dropped, P!Goes, P!At, P!running, P!caches, P!load, LoadStep, LoadGoesOn, LoadEnds, To, Loads, Points, Runs
<1>2. PspType'
  BY SMTT(30), <1>0 DEF P!DbmFails, P!LoadFails, P!Dropped, P!Goes, P!At, P!running, P!caches, P!load, PspType, P!PspAssumption, P!NoFile, P!Nothing, P!NoCode, Version, Loads
<1>3. Codes'
  BY <1>0 DEF P!DbmFails, P!LoadFails, P!Dropped, P!Goes, P!At, P!running, P!caches, P!load, PspType, P!PspAssumption, P!NoFile, P!Nothing, P!NoCode, Version, Loads, Coded, Points, Codes
<1> QED
  BY <1>1, <1>2, <1>3

LEMMA ForgetOldPsp ==
    ASSUME P!PspAssumption, PspInv, NEW r \in Request, P!ForgetOld(r)
    PROVE  LoadStep(r) /\ PspType' /\ Codes'
<1>0. /\ pspPc \in [Request -> Points] /\ page \in [Request -> Page \cup {NoPage}]
      /\ PspType /\ Codes /\ (pspPc[r] \in Loads => page[r] \in Page)
  BY DEF PspInv, RunType, Placed
<1>1. LoadStep(r)
  BY <1>0 DEF P!ForgetOld, P!LoadFails, P!Dropped, P!Goes, P!At, P!running, P!caches, P!load, LoadStep, LoadGoesOn, LoadEnds, To, Loads, Points, Runs
<1>2. PspType'
  BY <1>0 DEF P!ForgetOld, P!LoadFails, P!Dropped, P!Goes, P!At, P!running, P!caches, P!load, PspType, P!PspAssumption, P!NoFile, P!Nothing, P!NoCode, Version, Loads
<1>3. Codes'
  BY <1>0 DEF P!ForgetOld, P!LoadFails, P!Dropped, P!Goes, P!At, P!running, P!caches, P!load, PspType, P!PspAssumption, P!NoFile, P!Nothing, P!NoCode, Version, Loads, Coded, Points, Codes
<1> QED
  BY <1>1, <1>2, <1>3

LEMMA CfileGetPsp ==
    ASSUME P!PspAssumption, PspInv, NEW r \in Request, P!CfileGet(r)
    PROVE  LoadStep(r) /\ PspType' /\ Codes'
<1>0. /\ pspPc \in [Request -> Points] /\ page \in [Request -> Page \cup {NoPage}]
      /\ PspType /\ Codes /\ (pspPc[r] \in Loads => page[r] \in Page)
  BY DEF PspInv, RunType, Placed
<1>1. LoadStep(r)
  BY <1>0 DEF P!CfileGet, P!LoadFails, P!Dropped, P!Goes, P!At, P!running, P!caches, P!load, LoadStep, LoadGoesOn, LoadEnds, To, Loads, Points, Runs
<1>2. PspType'
  BY SMTT(30), <1>0 DEF P!CfileGet, P!LoadFails, P!Dropped, P!Goes, P!At, P!running, P!caches, P!load, PspType, P!PspAssumption, P!NoFile, P!Nothing, P!NoCode, Version, Loads
<1>3. Codes'
  BY <1>0 DEF P!CfileGet, P!LoadFails, P!Dropped, P!Goes, P!At, P!running, P!caches, P!load, PspType, P!PspAssumption, P!NoFile, P!Nothing, P!NoCode, Version, Loads, Coded, Points, Codes
<1> QED
  BY <1>1, <1>2, <1>3

LEMMA StorePsp ==
    ASSUME P!PspAssumption, PspInv, NEW r \in Request, P!Store(r)
    PROVE  LoadStep(r) /\ PspType' /\ Codes'
<1>0. /\ pspPc \in [Request -> Points] /\ page \in [Request -> Page \cup {NoPage}]
      /\ PspType /\ Codes /\ (pspPc[r] \in Loads => page[r] \in Page)
  BY DEF PspInv, RunType, Placed
<1>1. LoadStep(r)
  BY <1>0 DEF P!Store, P!LoadFails, P!Dropped, P!Goes, P!At, P!running, P!caches, P!load, LoadStep, LoadGoesOn, LoadEnds, To, Loads, Points, Runs
<1>2. PspType'
  BY <1>0 DEF P!Store, P!LoadFails, P!Dropped, P!Goes, P!At, P!running, P!caches, P!load, PspType, P!PspAssumption, P!NoFile, P!Nothing, P!NoCode, Version, Loads
<1>3. Codes'
  BY <1>0 DEF P!Store, P!LoadFails, P!Dropped, P!Goes, P!At, P!running, P!caches, P!load, PspType, P!PspAssumption, P!NoFile, P!Nothing, P!NoCode, Version, Loads, Coded, Points, Codes
<1> QED
  BY <1>1, <1>2, <1>3

(***************************************************************************)
(* Steps that run a page: the frames of the request, its session, and how  *)
(* the run came to its end.                                                *)
(***************************************************************************)
Made(s, h) == \A i \in 1..Len(s) : s[i].made => h /\ \A j \in 1..Len(s) : s[j].made => i = j

Turns(r, x, s, h, v, z, g) ==
    /\ s \in Seq(RunFrame) /\ x \in Points /\ h \in BOOLEAN /\ v \in BOOLEAN /\ z \in {"ok", "raised"}
    /\ g \in Page \cup {NoPage}
    /\ To(r, x) /\ frames' = [frames EXCEPT ![r] = s] /\ has' = [has EXCEPT ![r] = h]
    /\ saved' = [saved EXCEPT ![r] = v] /\ result' = [result EXCEPT ![r] = z]
    /\ page' = [page EXCEPT ![r] = g]
    /\ \/ h = has[r] /\ lock' = lock
       \/ h /\ lock = NoRequest /\ lock' = r
       \/ ~h /\ has[r] /\ lock' = NoRequest
    /\ x \in Loads => g \in Page
    /\ x \in Loads /\ s # <<>> => ErrorPage[s[Len(s)].page] # NoPage
    /\ x \in Runs => s # <<>>
    /\ x \in {"idle", "end"} => s = <<>>
    /\ x \in {"idle", "session"} => ~h
    /\ Made(s, h)
    /\ x = "finally" /\ z = "ok" /\ h => v

LEMMA TurnsKeeps ==
    ASSUME P!PspAssumption, PspInv, NEW r \in Request, NEW x, NEW s, NEW h, NEW v, NEW z, NEW g,
           Turns(r, x, s, h, v, z, g)
    PROVE  RunType' /\ Placed' /\ Owned'
<1>0. RunType /\ Placed /\ Owned /\ NoRequest \notin Request
  BY DEF PspInv, P!PspAssumption
<1>1. RunType'
  <2>1. frames' \in [Request -> Seq(RunFrame)]
    BY <1>0 DEF RunType, Turns
  <2> QED
    BY <1>0, <2>1 DEF RunType, Turns, To
<1>2. /\ pspPc'[r] = x /\ frames'[r] = s /\ has'[r] = h /\ saved'[r] = v /\ result'[r] = z /\ page'[r] = g
      /\ \A q \in Request : q # r => /\ pspPc'[q] = pspPc[q] /\ frames'[q] = frames[q] /\ has'[q] = has[q]
                                     /\ saved'[q] = saved[q] /\ result'[q] = result[q] /\ page'[q] = page[q]
  BY <1>0 DEF RunType, Turns, To
<1>3. Placed'
  BY <1>0, <1>2 DEF Placed, Turns
<1>4. \A q \in Request : has'[q] <=> lock' = q
  <2>1. \A q \in Request : has[q] <=> lock = q
    BY <1>0 DEF Owned
  <2>2. has[r] \in BOOLEAN /\ h \in BOOLEAN
    BY <1>0 DEF RunType, Turns
  <2> QED
    BY <1>0, <1>2, <2>1, <2>2 DEF Turns
<1>5. Owned'
  <2>1. ASSUME NEW q \in Request
        PROVE  /\ has'[q] <=> lock' = q
               /\ pspPc'[q] \in {"idle", "session"} => ~has'[q]
               /\ \A i \in 1..Len(frames'[q]) : frames'[q][i].made =>
                      has'[q] /\ \A j \in 1..Len(frames'[q]) : frames'[q][j].made => i = j
               /\ pspPc'[q] = "finally" /\ result'[q] = "ok" /\ has'[q] => saved'[q]
    <3>1. CASE q = r
      BY <1>2, <1>4, <3>1 DEF Turns, Made
    <3>2. CASE q # r
      BY <1>0, <1>2, <1>4, <3>2 DEF Owned
    <3> QED
      BY <3>1, <3>2
  <2> QED
    BY <2>1 DEF Owned
<1> QED
  BY <1>1, <1>3, <1>5

(* What has no code keeps none.                                            *)
Rests(r, x) ==
    /\ To(r, x) /\ x \notin Loads \ {"stat"}
    /\ UNCHANGED <<pspConf, pspFile, cfile, dbm, mem>>
    /\ \/ pspPc[r] \notin Coded /\ UNCHANGED <<mtime, code, hits>>
       \/ P!Dropped(r)
    /\ \A q \in Request : q # r => page'[q] = page[q]

LEMMA RestsKeeps ==
    ASSUME P!PspAssumption, PspInv, NEW r \in Request, NEW x, Rests(r, x)
    PROVE  PspType' /\ Codes'
<1>0. pspPc \in [Request -> Points] /\ PspType /\ Codes /\ 0 \in Version
  BY DEF PspInv, RunType, P!PspAssumption, Version
<1>1. PspType'
  <2>1. mtime' \in [Request -> Version] /\ code' \in [Request -> Version] /\ hits' \in [Request -> Nat]
    <3>1. mtime \in [Request -> Version] /\ code \in [Request -> Version] /\ hits \in [Request -> Nat]
      BY <1>0 DEF PspType
    <3>2. CASE UNCHANGED <<mtime, code, hits>>
      BY <3>1, <3>2
    <3>3. CASE P!Dropped(r)
      BY <1>0, <3>1, <3>3 DEF P!Dropped, P!NoCode
    <3> QED
      BY <3>2, <3>3 DEF Rests
  <2> QED
    BY <1>0, <2>1 DEF PspType, Rests
<1>2. Codes'
  <2>1. ASSUME NEW q \in Request, q # r
        PROVE  pspPc'[q] = pspPc[q] /\ code'[q] = code[q] /\ mtime'[q] = mtime[q] /\ page'[q] = page[q]
    <3>1. pspPc'[q] = pspPc[q] /\ page'[q] = page[q]
      BY <1>0, <2>1 DEF Rests, To
    <3>2. CASE UNCHANGED <<mtime, code, hits>>
      BY <3>1, <3>2
    <3>3. CASE P!Dropped(r)
      BY <1>0, <2>1, <3>1, <3>3 DEF P!Dropped, PspType
    <3> QED
      BY <3>2, <3>3 DEF Rests
  <2>2. pspPc'[r] \notin Loads \ {"stat"} /\ code'[r] = 0
    BY <1>0 DEF Rests, P!Dropped, To, PspType, Codes, P!NoCode
  <2>3. Coded \subseteq Loads \ {"stat"}
    BY DEF Coded, Loads
  <2>4. UNCHANGED <<cfile, dbm, mem, pspFile>>
    BY DEF Rests
  <2> QED
    BY <1>0, <2>1, <2>2, <2>3, <2>4 DEF Codes
<1> QED
  BY <1>1, <1>2

LEMMA TopFacts ==
    ASSUME NEW s \in Seq(RunFrame), s # <<>>
    PROVE  /\ Len(s) \in Nat \ {0} /\ Last(s) = s[Len(s)] /\ Last(s) \in RunFrame
           /\ Front(s) \in Seq(RunFrame) /\ Len(Front(s)) = Len(s) - 1
           /\ \A i \in 1..Len(s) - 1 : Front(s)[i] = s[i]
<1>1. Len(s) \in Nat \ {0}
  BY EmptySeq
<1>2. Last(s) = s[Len(s)] /\ Last(s) \in RunFrame
  BY <1>1, ElementOfSeq DEF Last
<1>3. Front(s) \in Seq(RunFrame) /\ Len(Front(s)) = Len(s) - 1 /\ \A i \in 1..Len(s) - 1 : Front(s)[i] = s[i]
  <2>1. Front(s) = SubSeq(s, 1, Len(s) - 1) /\ \A i \in 1..Len(s) - 1 : s[i] \in RunFrame
    BY <1>1, ElementOfSeq DEF Front
  <2> DEFINE t == SubSeq(s, 1, Len(s) - 1)
  <2>2. /\ t \in Seq(RunFrame)
        /\ Len(t) = IF 1 <= Len(s) - 1 THEN Len(s) - 1 - 1 + 1 ELSE 0
        /\ \A i \in 1..Len(s) - 1 - 1 + 1 : t[i] = s[1 + i - 1]
    <3> Len(s) - 1 \in Int /\ 1 \in Int
      BY <1>1
    <3> QED
      BY <2>1, SubSeqProperties
  <2>3. Front(s) = t
    BY <2>1
  <2> HIDE DEF t
  <2>4. /\ Front(s) \in Seq(RunFrame) /\ Len(Front(s)) = Len(s) - 1
        /\ \A i \in 1..Len(s) - 1 : t[i] = s[i]
    BY <1>1, <2>2, <2>3
  <2> QED
    BY <2>3, <2>4
<1> QED
  BY <1>1, <1>2, <1>3

LEMMA TopChanged ==
    ASSUME NEW s \in Seq(RunFrame), s # <<>>, NEW e \in RunFrame
    PROVE  LET t == [s EXCEPT ![Len(s)] = e]
           IN  /\ t \in Seq(RunFrame) /\ Len(t) = Len(s) /\ t[Len(s)] = e
               /\ \A i \in 1..Len(s) : i # Len(s) => t[i] = s[i]
<1> DEFINE t == [s EXCEPT ![Len(s)] = e]
<1>1. Len(s) \in Nat \ {0}
  BY EmptySeq
<1>2. s \in [1..Len(s) -> RunFrame]
  BY LenProperties
<1>3. t \in [1..Len(s) -> RunFrame] /\ DOMAIN t = 1..Len(s)
  BY <1>1, <1>2
<1>4. t \in Seq(RunFrame) /\ Len(t) = Len(s)
  <2> HIDE DEF t
  <2> QED
    BY <1>1, <1>3, SeqDef, LenProperties
<1>5. t[Len(s)] = e /\ \A i \in 1..Len(s) : i # Len(s) => t[i] = s[i]
  <2>1. DOMAIN s = 1..Len(s) /\ Len(s) \in 1..Len(s)
    BY <1>1, <1>2
  <2> QED
    BY Zenon, <2>1
<1> QED
  BY <1>4, <1>5

LEMMA StartPsp ==
    ASSUME P!PspAssumption, PspInv, NEW r \in Request, P!Start(r)
    PROVE  PspInv'
<1>0. /\ pspPc \in [Request -> Points] /\ PspType /\ RunType /\ pspPc[r] = "idle" /\ frames[r] = <<>>
      /\ frames[r] \in Seq(RunFrame) /\ Len(frames[r]) = 0 /\ ~has[r]
  BY DEF P!Start, P!At, PspInv, RunType, Placed, Owned
<1>1. PICK g \in Page : page' = [page EXCEPT ![r] = g] /\ To(r, "stat")
  BY DEF P!Start, P!Loading, P!Goes, To
<1>2. UNCHANGED <<pspConf, pspFile, cfile, dbm, mem, mtime, code, hits, frames, saved, result>>
  BY DEF P!Start, P!caches
<1>3. PICK h \in BOOLEAN : Turns(r, "stat", frames[r], h, saved[r], result[r], g)
  <2>1. /\ frames' = [frames EXCEPT ![r] = frames[r]] /\ saved' = [saved EXCEPT ![r] = saved[r]]
        /\ result' = [result EXCEPT ![r] = result[r]]
    BY <1>0, <1>2 DEF RunType
  <2>2. saved[r] \in BOOLEAN /\ result[r] \in {"ok", "raised"} /\ has[r] \in BOOLEAN
    BY <1>0 DEF RunType
  <2>3. "stat" \in Loads /\ "stat" \in Points /\ "stat" \notin Runs \cup {"idle", "end", "session", "finally"}
    BY DEF Loads, Points, Runs
  <2>4. Made(frames[r], FALSE) /\ Made(frames[r], TRUE)
    BY <1>0 DEF Made
  <2>5. CASE UNCHANGED <<lock, has>>
    <3>1. has' = [has EXCEPT ![r] = has[r]] /\ has[r] = FALSE
      BY <1>0, <2>5 DEF RunType
    <3>2. Turns(r, "stat", frames[r], FALSE, saved[r], result[r], g)
      BY <1>0, <1>1, <2>1, <2>2, <2>3, <2>4, <2>5, <3>1 DEF Turns
    <3> QED
      BY <3>2
  <2>6. CASE lock = NoRequest /\ lock' = r /\ has' = [has EXCEPT ![r] = TRUE]
    <3>1. Turns(r, "stat", frames[r], TRUE, saved[r], result[r], g)
      BY <1>0, <1>1, <2>1, <2>2, <2>3, <2>4, <2>6 DEF Turns
    <3> QED
      BY <3>1
  <2> QED
    BY <2>5, <2>6 DEF P!Start
<1>4. Rests(r, "stat")
  BY <1>0, <1>1, <1>2 DEF Rests, Loads, Coded
<1> QED
  BY <1>3, <1>4, TurnsKeeps, RestsKeeps DEF PspInv

LEMMA LoadedPsp ==
    ASSUME P!PspAssumption, PspInv, NEW r \in Request, P!Loaded(r)
    PROVE  PspInv'
<1>0. /\ pspPc \in [Request -> Points] /\ PspType /\ RunType /\ pspPc[r] = "loaded"
      /\ frames[r] \in Seq(RunFrame) /\ page[r] \in Page /\ code[r] \in Version
      /\ has[r] \in BOOLEAN /\ Made(frames[r], has[r]) /\ saved[r] \in BOOLEAN
      /\ result[r] \in {"ok", "raised"}
  BY DEF P!Loaded, P!At, PspInv, PspType, RunType, Placed, Loads, Owned, Made
<1>1. /\ UNCHANGED <<pspConf, pspFile, cfile, dbm, mem, lock, has, saved, result>>
      /\ P!Dropped(r) /\ page' = [page EXCEPT ![r] = NoPage]
  BY DEF P!Loaded, P!caches, P!Dropped
<1>2. /\ has' = [has EXCEPT ![r] = has[r]] /\ saved' = [saved EXCEPT ![r] = saved[r]]
      /\ result' = [result EXCEPT ![r] = result[r]]
  BY <1>0, <1>1 DEF RunType
<1>3. CASE frames[r] = <<>>
  <2>1. P!Run(r, page[r], code[r])
    BY <1>3 DEF P!Loaded
  <2> DEFINE e == P!Frame(page[r], code[r])
             s == Append(frames[r], e)
             x == IF P!NeedsSession(r, page[r]) THEN "session" ELSE "exec"
  <2>2. e \in RunFrame /\ ~e.made
    BY <1>0 DEF P!Frame, RunFrame, P!NoCode, Version, P!PspAssumption
  <2>3. frames' = [frames EXCEPT ![r] = s] /\ To(r, x)
    BY <2>1 DEF P!Run, P!Goes, To
  <2>4. s \in Seq(RunFrame) /\ s # <<>> /\ Len(s) = 1 /\ s[1] = e
    BY <1>0, <1>3, <2>2
  <2>5. x \in Runs /\ x \in Points /\ x \notin Loads /\ x \notin {"idle", "end", "finally"}
    BY DEF Runs, Points, Loads
  <2>6. x = "session" => ~has[r]
    BY DEF P!NeedsSession
  <2> HIDE DEF s, x, e
  <2>7. Made(s, has[r])
    BY <2>2, <2>4 DEF Made
  <2>8. Turns(r, x, s, has[r], saved[r], result[r], NoPage)
    BY <1>0, <1>1, <1>2, <2>3, <2>4, <2>5, <2>6, <2>7 DEF Turns
  <2>9. Rests(r, x)
    BY <1>1, <2>3, <2>5 DEF Rests, P!Dropped
  <2> QED
    BY <2>8, <2>9, TurnsKeeps, RestsKeeps DEF PspInv
<1>4. CASE frames[r] # <<>>
  <2> DEFINE k == Len(frames[r])
             e == [frames[r][k] EXCEPT !.error = code[r]]
             s == [frames[r] EXCEPT ![k] = e]
  <2>1. frames' = [frames EXCEPT ![r] = s] /\ To(r, "exec")
    BY <1>4 DEF P!Loaded, P!Goes, To
  <2>2. k \in Nat \ {0} /\ frames[r][k] \in RunFrame
    BY <1>0, <1>4, TopFacts
  <2>a. ErrorPage[frames[r][k].page] # NoPage
    BY <1>0, <1>4 DEF PspInv, Placed, Loads
  <2>3. e \in RunFrame /\ e.made = frames[r][k].made
    BY <1>0, <2>2, <2>a DEF RunFrame
  <2> HIDE DEF e
  <2>4. s \in Seq(RunFrame) /\ Len(s) = k /\ s[k] = e /\ \A i \in 1..k : i # k => s[i] = frames[r][i]
    BY <1>0, <1>4, <2>3, TopChanged
  <2> HIDE DEF s, k
  <2>5. Made(s, has[r]) /\ s # <<>>
    <3>1. \A i \in 1..k : s[i].made = frames[r][i].made
      BY <2>2, <2>3, <2>4
    <3>2. k = Len(frames[r])
      BY DEF k
    <3>3. s # <<>>
      BY <2>2, <2>4
    <3> QED
      BY <1>0, <2>4, <3>1, <3>2, <3>3 DEF Made
  <2>6. "exec" \in Runs /\ "exec" \in Points /\ "exec" \notin Loads /\ "exec" \notin {"idle", "end", "session", "finally"}
    BY DEF Runs, Points, Loads
  <2>7. Turns(r, "exec", s, has[r], saved[r], result[r], NoPage)
    BY <1>0, <1>1, <1>2, <2>1, <2>4, <2>5, <2>6 DEF Turns
  <2>8. Rests(r, "exec")
    BY <1>1, <2>1, <2>6 DEF Rests, P!Dropped
  <2> QED
    BY <2>7, <2>8, TurnsKeeps, RestsKeeps DEF PspInv
<1> QED
  BY <1>3, <1>4

LEMMA MakeSessionPsp ==
    ASSUME P!PspAssumption, PspInv, NEW r \in Request, P!MakeSession(r)
    PROVE  PspInv'
<1>0. /\ pspPc \in [Request -> Points] /\ PspType /\ RunType /\ pspPc[r] = "session"
      /\ frames[r] \in Seq(RunFrame) /\ frames[r] # <<>> /\ page[r] \in Page \cup {NoPage}
      /\ has[r] = FALSE /\ Made(frames[r], FALSE) /\ saved[r] \in BOOLEAN
      /\ result[r] \in {"ok", "raised"}
  BY DEF P!MakeSession, P!At, PspInv, PspType, RunType, Placed, Runs, Owned, Made
<1> DEFINE k == Len(frames[r])
           e == [frames[r][k] EXCEPT !.made = TRUE]
           s == [frames[r] EXCEPT ![k] = e]
<1>1. /\ UNCHANGED <<pspConf, pspFile, cfile, dbm, mem, mtime, code, hits, page, result>>
      /\ frames' = [frames EXCEPT ![r] = s] /\ To(r, "exec")
      /\ lock = NoRequest /\ lock' = r /\ has' = [has EXCEPT ![r] = TRUE] /\ saved' = [saved EXCEPT ![r] = FALSE]
  BY DEF P!MakeSession, P!caches, P!load, P!Goes, To
<1>2. k \in Nat \ {0} /\ frames[r][k] \in RunFrame
  BY <1>0, TopFacts
<1>3. e \in RunFrame
  BY <1>0, <1>2 DEF RunFrame
<1> HIDE DEF e
<1>4. s \in Seq(RunFrame) /\ Len(s) = k /\ s[k] = e /\ \A i \in 1..k : i # k => s[i] = frames[r][i]
  BY <1>0, <1>3, TopChanged
<1> HIDE DEF s
<1>5. Made(s, TRUE) /\ s # <<>>
  <2>1. \A i \in 1..k : i # k => ~s[i].made
    BY <1>0, <1>4 DEF Made
  <2>2. s # <<>>
    BY <1>2, <1>4
  <2> HIDE DEF k
  <2> QED
    BY <1>2, <1>4, <2>1, <2>2 DEF Made
<1> HIDE DEF k
<1>6. "exec" \in Runs /\ "exec" \in Points /\ "exec" \notin Loads /\ "exec" \notin {"idle", "end", "session", "finally"}
  BY DEF Runs, Points, Loads
<1>7. page' = [page EXCEPT ![r] = page[r]] /\ result' = [result EXCEPT ![r] = result[r]]
  BY <1>0, <1>1 DEF RunType
<1>8. Turns(r, "exec", s, TRUE, FALSE, result[r], page[r])
  BY <1>0, <1>1, <1>4, <1>5, <1>6, <1>7 DEF Turns
<1>9. Rests(r, "exec")
  BY <1>0, <1>1, <1>6 DEF Rests, Coded
<1> QED
  BY <1>8, <1>9, TurnsKeeps, RestsKeeps DEF PspInv

LEMMA SetErrorPagePsp ==
    ASSUME P!PspAssumption, PspInv, NEW r \in Request, P!SetErrorPage(r)
    PROVE  PspInv'
<1>0. /\ pspPc \in [Request -> Points] /\ RunType /\ pspPc[r] = "exec"
      /\ frames[r] \in Seq(RunFrame) /\ page[r] \in Page \cup {NoPage}
      /\ has[r] \in BOOLEAN /\ Made(frames[r], has[r]) /\ saved[r] \in BOOLEAN
      /\ result[r] \in {"ok", "raised"} /\ pspPc[r] \notin Coded
  BY DEF P!SetErrorPage, P!At, PspInv, RunType, Owned, Made, Coded
<1>a. frames[r] # <<>> /\ Len(frames[r]) \in Nat \ {0} /\ P!Top(r) = frames[r][Len(frames[r])] /\ P!Top(r) \in RunFrame
  <2>1. frames[r] # <<>>
    BY <1>0 DEF PspInv, Placed, Runs
  <2> QED
    BY <1>0, <2>1, TopFacts DEF P!Top, P!Last, Last
<1> DEFINE g == ErrorPage[P!Top(r).page]
<1>1. /\ UNCHANGED <<pspConf, pspFile, cfile, dbm, mem, lock, mtime, code, hits, frames, has, saved, result>>
      /\ page' = [page EXCEPT ![r] = g] /\ To(r, "stat") /\ g # NoPage
  BY DEF P!SetErrorPage, P!caches, P!running, P!Loading, P!Goes, To
<1>2. g \in Page
  <2>1. P!Top(r).page \in Page
    BY <1>a DEF RunFrame
  <2> QED
    BY <1>1, <2>1 DEF P!PspAssumption
<1> HIDE DEF g
<1>3. "stat" \in Points /\ "stat" \notin Runs \cup {"idle", "end", "session", "finally"}
  BY DEF Loads, Runs, Points
<1>4. /\ frames' = [frames EXCEPT ![r] = frames[r]] /\ has' = [has EXCEPT ![r] = has[r]]
      /\ saved' = [saved EXCEPT ![r] = saved[r]] /\ result' = [result EXCEPT ![r] = result[r]]
  BY <1>0, <1>1 DEF RunType
<1>5. Turns(r, "stat", frames[r], has[r], saved[r], result[r], g)
  BY <1>0, <1>a, <1>1, <1>2, <1>3, <1>4 DEF Turns, g
<1>6. Rests(r, "stat")
  BY <1>0, <1>1 DEF Rests
<1> QED
  BY <1>5, <1>6, TurnsKeeps, RestsKeeps DEF PspInv

LEMMA ExecDonePsp ==
    ASSUME P!PspAssumption, PspInv, NEW r \in Request, P!ExecDone(r)
    PROVE  PspInv'
<1>0. /\ pspPc \in [Request -> Points] /\ RunType /\ pspPc[r] = "exec"
      /\ frames[r] \in Seq(RunFrame) /\ page[r] \in Page \cup {NoPage}
      /\ has[r] \in BOOLEAN /\ Made(frames[r], has[r]) /\ saved[r] \in BOOLEAN
      /\ result[r] \in {"ok", "raised"} /\ pspPc[r] \notin Coded
  BY DEF P!ExecDone, P!At, PspInv, RunType, Owned, Made, Coded
<1>a. frames[r] # <<>> /\ Len(frames[r]) \in Nat \ {0} /\ P!Top(r) = frames[r][Len(frames[r])] /\ P!Top(r) \in RunFrame
  <2>1. frames[r] # <<>>
    BY <1>0 DEF PspInv, Placed, Runs
  <2> QED
    BY <1>0, <2>1, TopFacts DEF P!Top, P!Last, Last
<1>1. /\ UNCHANGED <<pspConf, pspFile, cfile, dbm, mem, lock, mtime, code, hits, page, frames, has>>
      /\ saved' = [saved EXCEPT ![r] = saved[r] \/ has[r]] /\ result' = [result EXCEPT ![r] = "ok"]
      /\ To(r, "finally")
  BY DEF P!ExecDone, P!caches, P!load, P!Goes, To
<1>2. "finally" \in Points /\ "finally" \notin Loads \cup {"idle", "end", "session"}
  BY DEF Loads, Points, Runs
<1>3. /\ frames' = [frames EXCEPT ![r] = frames[r]] /\ has' = [has EXCEPT ![r] = has[r]]
      /\ page' = [page EXCEPT ![r] = page[r]]
  BY <1>0, <1>1 DEF RunType
<1>4. (saved[r] \/ has[r]) \in BOOLEAN
  OBVIOUS
<1>5. Turns(r, "finally", frames[r], has[r], saved[r] \/ has[r], "ok", page[r])
  BY <1>0, <1>a, <1>1, <1>2, <1>3, <1>4 DEF Turns
<1>6. Rests(r, "finally")
  BY <1>0, <1>1, <1>2 DEF Rests
<1> QED
  BY <1>5, <1>6, TurnsKeeps, RestsKeeps DEF PspInv

LEMMA ExecRaisesPsp ==
    ASSUME P!PspAssumption, PspInv, NEW r \in Request, P!ExecRaises(r)
    PROVE  PspInv'
<1>0. /\ pspPc \in [Request -> Points] /\ RunType /\ pspPc[r] = "exec"
      /\ frames[r] \in Seq(RunFrame) /\ page[r] \in Page \cup {NoPage}
      /\ has[r] \in BOOLEAN /\ Made(frames[r], has[r]) /\ saved[r] \in BOOLEAN
      /\ result[r] \in {"ok", "raised"} /\ pspPc[r] \notin Coded
  BY DEF P!ExecRaises, P!At, PspInv, RunType, Owned, Made, Coded
<1>a. frames[r] # <<>> /\ Len(frames[r]) \in Nat \ {0} /\ P!Top(r) = frames[r][Len(frames[r])] /\ P!Top(r) \in RunFrame
  <2>1. frames[r] # <<>>
    BY <1>0 DEF PspInv, Placed, Runs
  <2> QED
    BY <1>0, <2>1, TopFacts DEF P!Top, P!Last, Last
<1>1. /\ UNCHANGED <<pspConf, pspFile, cfile, dbm, mem, lock, mtime, code, hits, page, frames, has, saved, result>>
      /\ To(r, "raised")
  BY DEF P!ExecRaises, P!caches, P!load, P!running, P!Goes, To
<1>2. "raised" \in Points /\ "raised" \notin Loads \cup {"idle", "end", "session", "finally"}
  BY DEF Loads, Points, Runs
<1>3. /\ frames' = [frames EXCEPT ![r] = frames[r]] /\ has' = [has EXCEPT ![r] = has[r]]
      /\ page' = [page EXCEPT ![r] = page[r]] /\ saved' = [saved EXCEPT ![r] = saved[r]]
      /\ result' = [result EXCEPT ![r] = result[r]]
  BY <1>0, <1>1 DEF RunType
<1>4. Turns(r, "raised", frames[r], has[r], saved[r], result[r], page[r])
  BY <1>0, <1>a, <1>1, <1>2, <1>3 DEF Turns
<1>5. Rests(r, "raised")
  BY <1>0, <1>1, <1>2 DEF Rests
<1> QED
  BY <1>4, <1>5, TurnsKeeps, RestsKeeps DEF PspInv

LEMMA RaisedPsp ==
    ASSUME P!PspAssumption, PspInv, NEW r \in Request, P!Raised(r)
    PROVE  PspInv'
<1>0. /\ pspPc \in [Request -> Points] /\ RunType /\ pspPc[r] = "raised"
      /\ frames[r] \in Seq(RunFrame) /\ page[r] \in Page \cup {NoPage}
      /\ has[r] \in BOOLEAN /\ Made(frames[r], has[r]) /\ saved[r] \in BOOLEAN
      /\ result[r] \in {"ok", "raised"} /\ pspPc[r] \notin Coded
  BY DEF P!Raised, P!At, PspInv, RunType, Owned, Made, Coded
<1>a. frames[r] # <<>> /\ Len(frames[r]) \in Nat \ {0} /\ P!Top(r) = frames[r][Len(frames[r])] /\ P!Top(r) \in RunFrame
  <2>1. frames[r] # <<>>
    BY <1>0 DEF PspInv, Placed, Runs
  <2> QED
    BY <1>0, <2>1, TopFacts DEF P!Top, P!Last, Last
<1>1. UNCHANGED <<pspConf, pspFile, cfile, dbm, mem, lock, mtime, code, hits, page, has, saved>>
  BY DEF P!Raised, P!caches, P!load
<1>2. /\ has' = [has EXCEPT ![r] = has[r]] /\ page' = [page EXCEPT ![r] = page[r]]
      /\ saved' = [saved EXCEPT ![r] = saved[r]]
  BY <1>0, <1>1 DEF RunType
<1>3. CASE P!Top(r).error # P!NoCode
  <2> DEFINE p == ErrorPage[P!Top(r).page]
             e == P!Frame(p, P!Top(r).error)
             s == Append(frames[r], e)
             x == IF P!NeedsSession(r, p) THEN "session" ELSE "exec"
             n == Len(frames[r])
  <2>1. frames' = [frames EXCEPT ![r] = s] /\ To(r, x) /\ result' = [result EXCEPT ![r] = result[r]]
    BY <1>0, <1>3 DEF P!Raised, P!Run, P!Goes, To, RunType
  <2>2. e \in [page : Page \cup {NoPage}, code : Version, made : BOOLEAN, error : Version] /\ ~e.made
    BY <1>a DEF P!Frame, RunFrame, P!NoCode, Version, P!PspAssumption
  <2>3. e \in RunFrame
    <3>1. p \in Page
      BY <1>a, <1>3 DEF RunFrame, P!NoCode, P!PspAssumption
    <3> QED
      BY <1>a, <2>2, <3>1 DEF RunFrame, P!Frame, P!NoCode
  <2>4. /\ s \in Seq(RunFrame) /\ Len(s) = n + 1 /\ s[n + 1] = e /\ \A i \in 1..n : s[i] = frames[r][i]
    <3> HIDE DEF e
    <3> QED
      BY <1>0, <2>3, AppendProperties
  <2>5. x \in Runs /\ x \in Points /\ x \notin Loads /\ x \notin {"idle", "end", "finally"}
    BY DEF Runs, Points, Loads
  <2>6. x = "session" => ~has[r]
    BY DEF P!NeedsSession
  <2> HIDE DEF s, x, e
  <2>7. Made(s, has[r]) /\ s # <<>>
    <3>1. n \in Nat /\ n = Len(frames[r])
      BY <1>0
    <3>2. \A i \in 1..n + 1 : s[i].made => i \in 1..n
      BY <2>2, <2>4, <3>1
    <3> HIDE DEF n
    <3>3. s # <<>>
      BY <2>4, <3>1
    <3> QED
      BY <1>0, <2>4, <3>1, <3>2, <3>3 DEF Made
  <2>8. Turns(r, x, s, has[r], saved[r], result[r], page[r])
    BY <1>0, <1>1, <1>2, <2>1, <2>4, <2>5, <2>6, <2>7 DEF Turns
  <2>9. Rests(r, x)
    BY <1>0, <1>1, <2>1, <2>5 DEF Rests
  <2> QED
    BY <2>8, <2>9, TurnsKeeps, RestsKeeps DEF PspInv
<1>4. CASE P!Top(r).error = P!NoCode
  <2>1. /\ frames' = [frames EXCEPT ![r] = frames[r]] /\ To(r, "finally")
        /\ result' = [result EXCEPT ![r] = "raised"]
    BY <1>0, <1>4 DEF P!Raised, P!Goes, To, RunType
  <2>2. "finally" \in Points /\ "finally" \notin Loads \cup {"idle", "end", "session"}
    BY DEF Loads, Points, Runs
  <2>3. Turns(r, "finally", frames[r], has[r], saved[r], "raised", page[r])
    BY <1>0, <1>a, <1>1, <1>2, <2>1, <2>2 DEF Turns
  <2>4. Rests(r, "finally")
    BY <1>0, <1>1, <2>1, <2>2 DEF Rests
  <2> QED
    BY <2>3, <2>4, TurnsKeeps, RestsKeeps DEF PspInv
<1> QED
  BY <1>3, <1>4

LEMMA FinallyPsp ==
    ASSUME P!PspAssumption, PspInv, NEW r \in Request, P!Finally(r)
    PROVE  PspInv'
<1>0. /\ pspPc \in [Request -> Points] /\ RunType /\ pspPc[r] = "finally"
      /\ frames[r] \in Seq(RunFrame) /\ page[r] \in Page \cup {NoPage}
      /\ has[r] \in BOOLEAN /\ Made(frames[r], has[r]) /\ saved[r] \in BOOLEAN
      /\ result[r] \in {"ok", "raised"} /\ pspPc[r] \notin Coded
  BY DEF P!Finally, P!At, PspInv, RunType, Owned, Made, Coded
<1>a. frames[r] # <<>> /\ Len(frames[r]) \in Nat \ {0} /\ P!Top(r) = frames[r][Len(frames[r])] /\ P!Top(r) \in RunFrame
  <2>1. frames[r] # <<>>
    BY <1>0 DEF PspInv, Placed, Runs
  <2> QED
    BY <1>0, <2>1, TopFacts DEF P!Top, P!Last, Last
<1> DEFINE k == Len(frames[r])
           s == Front(frames[r])
           x == IF k = 1 THEN "end" ELSE "finally"
           h == IF P!Top(r).made THEN FALSE ELSE has[r]
<1>1. /\ UNCHANGED <<pspConf, pspFile, cfile, dbm, mem, mtime, code, hits, page, saved, result>>
      /\ frames' = [frames EXCEPT ![r] = s] /\ To(r, x)
  BY DEF P!Finally, P!caches, P!load, P!Goes, To, P!Front, Front
<1>2. /\ page' = [page EXCEPT ![r] = page[r]] /\ saved' = [saved EXCEPT ![r] = saved[r]]
      /\ result' = [result EXCEPT ![r] = result[r]]
  BY <1>0, <1>1 DEF RunType
<1>3. s \in Seq(RunFrame) /\ Len(s) = k - 1 /\ \A i \in 1..k - 1 : s[i] = frames[r][i]
  BY <1>0, <1>a, TopFacts
<1>4. P!Top(r).made => has[r]
  BY <1>0, <1>a DEF Made
<1>5. /\ has' = [has EXCEPT ![r] = h]
      /\ \/ h = has[r] /\ lock' = lock
         \/ ~h /\ has[r] /\ lock' = NoRequest
  BY <1>0, <1>4 DEF P!Finally, RunType
<1>6. h \in BOOLEAN /\ (h => has[r])
  BY <1>0
<1> HIDE DEF s
<1>7. Made(s, h)
  <2>1. k \in Nat \ {0} /\ P!Top(r) = frames[r][k]
    BY <1>a
  <2>2. \A i \in 1..k : frames[r][i].made => has[r] /\ \A j \in 1..k : frames[r][j].made => i = j
    BY <1>0 DEF Made
  <2> HIDE DEF k
  <2>3. ASSUME NEW i \in 1..Len(s), s[i].made PROVE h /\ \A j \in 1..Len(s) : s[j].made => i = j
    <3>1. i \in 1..k - 1 /\ i \in 1..k /\ i # k /\ frames[r][i].made
      BY <1>3, <2>1, <2>3
    <3>2. ~frames[r][k].made
      BY <2>1, <2>2, <3>1
    <3>3. h
      BY <2>1, <2>2, <3>1, <3>2
    <3>4. \A j \in 1..Len(s) : j \in 1..k /\ s[j] = frames[r][j]
      BY <1>3, <2>1
    <3> QED
      BY <2>2, <3>1, <3>3, <3>4
  <2> QED
    BY <2>3 DEF Made
<1>8. /\ x = "end" => s = <<>>
      /\ x # "end" => s # <<>>
      /\ x \in {"end", "finally"}
  <2>1. k \in Nat \ {0}
    BY <1>a
  <2> HIDE DEF k
  <2> QED
    BY <1>3, <2>1, EmptySeq
<1> HIDE DEF x, h
<1>9. /\ x \in Points /\ x \notin Loads \cup {"idle", "session"}
      /\ x \in Runs => x # "end"
  BY <1>8 DEF Loads, Points, Runs
<1>10. result[r] = "ok" /\ has[r] => saved[r]
  BY <1>0 DEF PspInv, Owned
<1>11. Turns(r, x, s, h, saved[r], result[r], page[r])
  BY <1>0, <1>1, <1>2, <1>3, <1>5, <1>6, <1>7, <1>8, <1>9, <1>10 DEF Turns
<1>12. Rests(r, x)
  BY <1>0, <1>1, <1>9 DEF Rests
<1> QED
  BY <1>11, <1>12, TurnsKeeps, RestsKeeps DEF PspInv

LEMMA EndPsp ==
    ASSUME P!PspAssumption, PspInv, NEW r \in Request, P!End(r)
    PROVE  PspInv'
<1>0. /\ pspPc \in [Request -> Points] /\ RunType /\ pspPc[r] = "end"
      /\ frames[r] \in Seq(RunFrame) /\ page[r] \in Page \cup {NoPage}
      /\ has[r] \in BOOLEAN /\ Made(frames[r], has[r]) /\ saved[r] \in BOOLEAN
      /\ result[r] \in {"ok", "raised"} /\ pspPc[r] \notin Coded
  BY DEF P!End, P!At, PspInv, RunType, Owned, Made, Coded
<1>1. /\ UNCHANGED <<pspConf, pspFile, cfile, dbm, mem, mtime, code, hits, page, frames>>
      /\ To(r, "idle") /\ has' = [has EXCEPT ![r] = FALSE] /\ saved' = [saved EXCEPT ![r] = FALSE]
      /\ result' = [result EXCEPT ![r] = "ok"] /\ lock' = IF has[r] THEN NoRequest ELSE lock
  BY DEF P!End, P!caches, P!load, P!Goes, To
<1>2. /\ page' = [page EXCEPT ![r] = page[r]] /\ frames' = [frames EXCEPT ![r] = frames[r]]
  BY <1>0, <1>1 DEF RunType
<1>3. "idle" \in Points /\ "idle" \notin Loads \cup Runs
  BY DEF Loads, Points, Runs
<1>4. frames[r] = <<>> /\ Len(frames[r]) = 0
  BY <1>0 DEF PspInv, Placed
<1>5. Made(frames[r], FALSE)
  BY <1>4 DEF Made
<1>6. Turns(r, "idle", frames[r], FALSE, FALSE, "ok", page[r])
  BY <1>0, <1>1, <1>2, <1>3, <1>4, <1>5 DEF Turns, Runs
<1>7. Rests(r, "idle")
  BY <1>0, <1>1, <1>3 DEF Rests
<1> QED
  BY <1>6, <1>7, TurnsKeeps, RestsKeeps DEF PspInv

LEMMA ModifyPsp ==
    ASSUME P!PspAssumption, PspInv, NEW p \in Page, P!Modify(p)
    PROVE  PspInv'
<1>1. /\ UNCHANGED <<pspConf, cfile, dbm, mem, lock, mtime, code, hits, pspPc, page, frames, has, saved, result>>
      /\ pspFile' = [pspFile EXCEPT ![p] = pspFile[p] + 1] /\ pspFile[p] < MaxVersion
  BY DEF P!Modify, P!caches, P!load, P!running
<1>2. PspType /\ RunType /\ Placed /\ Codes /\ Owned
  BY DEF PspInv
<1>3. RunType' /\ Placed' /\ Owned'
  BY <1>1, <1>2 DEF RunType, Placed, Owned
<1>4. PspType'
  BY <1>1, <1>2 DEF PspType, P!PspAssumption
<1>5. \A q \in Page : pspFile'[q] >= pspFile[q] /\ pspFile[q] \in Int /\ pspFile'[q] \in Int
  BY <1>1, <1>2 DEF PspType
<1>6. \A q \in Request : mtime[q] \in Int /\ (pspPc[q] \in Loads => page[q] \in Page)
  BY <1>2 DEF PspType, Placed, Version
<1>7. Codes'
  BY <1>1, <1>2, <1>5, <1>6 DEF Codes
<1> QED
  BY <1>3, <1>4, <1>7 DEF PspInv

LEMMA PrecompilePsp ==
    ASSUME P!PspAssumption, PspInv, NEW p \in Page, P!Precompile(p)
    PROVE  PspInv'
<1>1. /\ UNCHANGED <<pspConf, pspFile, dbm, mem, lock, mtime, code, hits, pspPc, page, frames, has, saved, result>>
      /\ cfile' = [cfile EXCEPT ![p] = [mtime |-> pspFile[p], code |-> pspFile[p]]]
  BY DEF P!Precompile, P!load, P!running
<1>2. PspType /\ RunType /\ Placed /\ Codes /\ Owned
  BY DEF PspInv
<1>3. RunType' /\ Placed' /\ Owned'
  BY <1>1, <1>2 DEF RunType, Placed, Owned
<1>4. pspFile[p] \in Version /\ pspFile[p] >= pspFile[p]
  BY <1>2 DEF PspType, Version, P!PspAssumption
<1>5. PspType'
  BY <1>1, <1>2, <1>4 DEF PspType
<1>6. Codes'
  BY <1>1, <1>2, <1>4 DEF Codes, PspType
<1> QED
  BY <1>3, <1>5, <1>6 DEF PspInv

LEMMA PspStep == P!PspAssumption /\ PspInv /\ [P!Next]_(P!vars) => PspInv'
<1> SUFFICES ASSUME P!PspAssumption, PspInv, [P!Next]_(P!vars) PROVE PspInv'
  OBVIOUS
<1>1. ASSUME NEW r \in Request, P!Start(r) PROVE PspInv'
  BY <1>1, StartPsp
<1>2. ASSUME NEW r \in Request, LoadStep(r), PspType', Codes' PROVE PspInv'
  BY <1>2, LoadStepKeeps DEF PspInv
<1>3. ASSUME NEW r \in Request,
             \/ P!Stat(r) \/ P!NotFound(r) \/ P!DbmLock(r) \/ P!DbmRead(r) \/ P!DbmWrite(r)
             \/ P!DbmFails(r) \/ P!Look(r) \/ P!ForgetOld(r) \/ P!CountHit(r) \/ P!CfileGet(r)
             \/ P!Parse(r) \/ P!Store(r) \/ P!Clean(r) \/ P!DeleteLeastHit(r)
      PROVE  PspInv'
  BY <1>2, <1>3, StatPsp, NotFoundPsp, DbmLockPsp, DbmReadPsp, DbmWritePsp, DbmFailsPsp, LookPsp, ForgetOldPsp, CountHitPsp, CfileGetPsp, ParsePsp, StorePsp, CleanPsp, DeleteLeastHitPsp
<1>4. ASSUME NEW r \in Request,
             \/ P!Loaded(r) \/ P!MakeSession(r) \/ P!SetErrorPage(r) \/ P!ExecDone(r) \/ P!ExecRaises(r)
             \/ P!Raised(r) \/ P!Finally(r) \/ P!End(r)
      PROVE  PspInv'
  BY <1>4, LoadedPsp, MakeSessionPsp, SetErrorPagePsp, ExecDonePsp, ExecRaisesPsp, RaisedPsp, FinallyPsp, EndPsp
<1>5. ASSUME NEW p \in Page, P!Modify(p) \/ P!Precompile(p) PROVE PspInv'
  BY <1>5, ModifyPsp, PrecompilePsp
<1>6. ASSUME UNCHANGED P!vars PROVE PspInv'
  <2>1. UNCHANGED <<pspConf, pspFile, cfile, dbm, mem, lock, mtime, code, hits, pspPc, page, frames, has, saved, result>>
    BY <1>6 DEF P!vars, P!caches, P!load, P!running
  <2>2. PspType' /\ RunType' /\ Placed'
    BY <2>1 DEF PspInv, PspType, RunType, Placed
  <2>3. Codes' /\ Owned'
    BY <2>1 DEF PspInv, Codes, Owned
  <2> QED
    BY <2>2, <2>3 DEF PspInv
<1> QED
  BY <1>1, <1>3, <1>4, <1>5, <1>6 DEF P!Next, P!Step

(* The invariant holds: a request that loads a page has a time and a code  *)
(* that go together, whatever other threads do to the caches meanwhile,    *)
(* and the session of a request is that of one of its run()s at most, or   *)
(* of its handler.                                                         *)
THEOREM PspInvariantHolds == P!PspAssumption => (P!Spec => []PspInv)
<1> SUFFICES ASSUME P!PspAssumption PROVE P!Spec => []PspInv
  OBVIOUS
<1>1. P!Init => PspInv
  BY PspInit
<1>2. PspInv /\ [P!Next]_(P!vars) => PspInv'
  BY PspStep
<1> QED
  BY <1>1, <1>2, PTL DEF P!Spec

(* For any requests, pages and caches: the code that a page runs with is   *)
(* not older than its file was when the request looked; a run() that ends  *)
(* well, with its error page or without, has saved the session it made;    *)
(* and no request waits for the session it has itself, nor ends with the   *)
(* session locked.                                                         *)
THEOREM PagesRunRight == P!PspAssumption => (P!Spec => []PagesRun)
<1> SUFFICES ASSUME P!PspAssumption PROVE P!Spec => []PagesRun
  OBVIOUS
<1>1. PspInv => P!CodeFresh
  <2> SUFFICES ASSUME PspInv, NEW r \in Request, code[r] # P!NoCode PROVE code[r] >= mtime[r]
    BY DEF P!CodeFresh
  <2> QED
    BY DEF PspInv, Codes, P!NoCode
<1>2. PspInv => P!SessionSaved
  <2> SUFFICES ASSUME PspInv, NEW r \in Request, pspPc[r] = "finally", result[r] = "ok", P!Top(r).made
               PROVE  saved[r]
    BY DEF P!SessionSaved, P!At
  <2>1. frames[r] \in Seq(RunFrame) /\ frames[r] # <<>>
    BY DEF PspInv, RunType, Placed, Runs
  <2>2. Len(frames[r]) \in 1..Len(frames[r]) /\ P!Top(r) = frames[r][Len(frames[r])]
    BY <2>1, TopFacts DEF P!Top, P!Last, Last
  <2>3. has[r]
    BY <2>2 DEF PspInv, Owned
  <2> QED
    BY <2>3 DEF PspInv, Owned
<1>3. PspInv => P!NoSelfWait
  BY DEF PspInv, Owned, P!NoSelfWait, P!At
<1> QED
  BY <1>1, <1>2, <1>3, PspInvariantHolds, PTL DEF PagesRun
=============================================================================
