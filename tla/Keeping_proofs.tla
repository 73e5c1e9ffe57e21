--------------------------- MODULE Keeping_proofs ---------------------------
(***************************************************************************)
(* What Keep returns, for every sequence.  The theorems on induction of    *)
(* the library are about operators, and cannot be used here; the one on    *)
(* well-founded orders is about sets, and everything is built on that one: *)
(* a set of numbers that has 0 and with n also n + 1 has all numbers, so   *)
(* that a recursive function exists and its values are known.              *)
(***************************************************************************)
EXTENDS Keeping, FiniteSetTheorems, SequenceTheorems, WellFoundedInduction, TLAPS

-----------------------------------------------------------------------------
(* Induction and recursion.                                                *)

LEMMA Induction ==
    ASSUME NEW T \in SUBSET Nat, 0 \in T, \A n \in T : n + 1 \in T
    PROVE  T = Nat
<1> DEFINE R == OpToRel(<, Nat)
<1>1. SUFFICES ASSUME Nat \ T # {} PROVE FALSE
  OBVIOUS
<1>2. IsWellFoundedOn(R, Nat)
  BY NatLessThanWellFounded
<1>3. PICK x \in Nat \ T : \A y \in Nat \ T : <<y, x>> \notin R
  <2> HIDE DEF R
  <2> QED
    BY <1>1, <1>2, WFMin
<1>4. x - 1 \in Nat /\ x - 1 \in T
  <2>1. x # 0
    OBVIOUS
  <2>2. x - 1 \in Nat /\ x - 1 < x
    BY <2>1
  <2>3. <<x - 1, x>> \in R
    BY <2>2 DEF OpToRel
  <2> QED
    BY <1>3, <2>2, <2>3
<1> QED
  BY <1>4

(* Induction up to a number.                                               *)
LEMMA InductionUpTo ==
    ASSUME NEW N \in Nat, NEW T, 0 \in T, \A n \in 0..N - 1 : n \in T => n + 1 \in T
    PROVE  \A n \in 0..N : n \in T
<1> DEFINE U == {n \in Nat : n <= N => n \in T}
<1>1. 0 \in U
  OBVIOUS
<1>2. ASSUME NEW n \in U PROVE n + 1 \in U
  <2>1. SUFFICES ASSUME n + 1 <= N PROVE n + 1 \in T
    OBVIOUS
  <2>2. n \in Nat /\ n <= N /\ n \in 0..N - 1
    BY <2>1
  <2>3. n \in T
    BY <2>2
  <2> QED
    BY <2>2, <2>3
<1>3. U \in SUBSET Nat
  OBVIOUS
<1>4. U = Nat
  <2> HIDE DEF U
  <2> QED
    BY <1>1, <1>2, <1>3, Induction
<1> QED
  BY <1>4

(* f is computed from a by the steps G.                                    *)
Computes(f, N, a, G) == f[0] = a /\ \A n \in 0..N - 1 : f[n + 1] = G[n][f[n]]

LEMMA Recursion ==
    ASSUME NEW D, NEW N \in Nat, NEW a \in D, NEW G \in [0..N - 1 -> [D -> D]]
    PROVE  \E f \in [0..N -> D] : Computes(f, N, a, G)
<1> DEFINE T == {m \in Nat : \E f \in [0..m -> D] : Computes(f, m, a, G)}
<1>1. 0 \in T
  <2>1. [i \in 0..0 |-> a] \in [0..0 -> D] /\ Computes([i \in 0..0 |-> a], 0, a, G)
    BY DEF Computes
  <2> QED
    BY <2>1
<1>2. ASSUME NEW m \in 0..N - 1, m \in T PROVE m + 1 \in T
  <2>1. PICK f \in [0..m -> D] : Computes(f, m, a, G)
    BY <1>2
  <2> DEFINE g == [i \in 0..m + 1 |-> IF i = m + 1 THEN G[m][f[m]] ELSE f[i]]
  <2>2. m \in Nat /\ m + 1 \in Nat /\ f[m] \in D /\ G[m][f[m]] \in D
    OBVIOUS
  <2>3. g \in [0..m + 1 -> D]
    BY <2>2
  <2>4. g[0] = a
    BY <2>1, <2>2 DEF Computes
  <2>5. ASSUME NEW n \in 0..(m + 1) - 1 PROVE g[n + 1] = G[n][g[n]]
    <3>1. CASE n = m
      <4>1. g[n + 1] = G[m][f[m]] /\ g[n] = f[m]
        BY <2>2, <3>1
      <4> QED
        BY <3>1, <4>1
    <3>2. CASE n # m
      <4>1. n \in 0..m - 1 /\ n \in 0..m + 1 /\ n + 1 \in 0..m + 1 /\ n + 1 # m + 1 /\ n # m + 1
        BY <2>2, <3>2
      <4>2. g[n + 1] = f[n + 1] /\ g[n] = f[n]
        BY <4>1
      <4> QED
        BY <2>1, <4>1, <4>2 DEF Computes
    <3> QED
      BY <3>1, <3>2
  <2> HIDE DEF g
  <2>6. Computes(g, m + 1, a, G)
    BY <2>4, <2>5 DEF Computes
  <2> QED
    BY <2>2, <2>3, <2>6
<1>3. N \in 0..N
  OBVIOUS
<1> HIDE DEF T
<1>4. N \in T
  BY <1>1, <1>2, <1>3, InductionUpTo
<1> QED
  BY <1>4 DEF T

-----------------------------------------------------------------------------
(* What Keep returns, step by step.                                        *)

\* f is what Keep computes for the beginnings of s.
KeepsBy(f, s, S) ==
    /\ f[0] = <<>>
    /\ \A n \in 0..Len(s) - 1 : f[n + 1] = IF s[n + 1] \in S THEN Append(f[n], s[n + 1]) ELSE f[n]

LEMMA KeepIsComputed ==
    ASSUME NEW V, NEW s \in Seq(V), NEW S
    PROVE  \E f \in [0..Len(s) -> Seq(V)] : KeepsBy(f, s, S) /\ Keep(s, S) = f[Len(s)]
<1> DEFINE D == Seq(V)
           e == <<>>
           Step(n, d) == IF s[n + 1] \in S THEN Append(d, s[n + 1]) ELSE d
           G == [n \in 0..Len(s) - 1 |-> [d \in D |-> Step(n, d)]]
           Rec(f, n) == IF n = 0 THEN <<>> ELSE IF s[n] \in S THEN Append(f[n - 1], s[n]) ELSE f[n - 1]
           Is(f) == f = [n \in 0..Len(s) |-> Rec(f, n)]
<1>1. e \in D /\ Len(s) \in Nat
  OBVIOUS
<1>2. G \in [0..Len(s) - 1 -> [D -> D]]
  <2>1. ASSUME NEW n \in 0..Len(s) - 1, NEW d \in D PROVE Step(n, d) \in D
    <3>1. s[n + 1] \in V
      OBVIOUS
    <3> QED
      BY <3>1
  <2> HIDE DEF Step, D
  <2> QED
    BY <2>1
<1>3. PICK g \in [0..Len(s) -> D] : Computes(g, Len(s), e, G)
  <2> HIDE DEF G, D, e
  <2> QED
    BY <1>1, <1>2, Recursion
<1>4. g[0] = <<>> /\ \A n \in 0..Len(s) - 1 : g[n + 1] = Step(n, g[n])
  <2>1. ASSUME NEW n \in 0..Len(s) - 1 PROVE G[n][g[n]] = Step(n, g[n])
    <3>1. n \in 0..Len(s)
      BY <1>1
    <3>2. g[n] \in D
      BY <3>1
    <3> HIDE DEF Step, D
    <3> QED
      BY <3>2
  <2>2. g[0] = e /\ \A n \in 0..Len(s) - 1 : g[n + 1] = G[n][g[n]]
    <3> HIDE DEF G, e
    <3> QED
      BY <1>3 DEF Computes
  <2> HIDE DEF G, Step
  <2> QED
    BY <2>1, <2>2
<1>5. Is(g)
  <2>1. ASSUME NEW n \in 0..Len(s) PROVE g[n] = Rec(g, n)
    <3>1. CASE n = 0
      BY <1>4, <3>1
    <3>2. CASE n # 0
      <4> DEFINE k == n - 1
      <4>1. k \in 0..Len(s) - 1 /\ k + 1 = n
        BY <1>1, <3>2
      <4> HIDE DEF k
      <4>2. g[k + 1] = Step(k, g[k])
        BY <1>4, <4>1
      <4>3. k = n - 1
        BY DEF k
      <4> QED
        BY <3>2, <4>1, <4>2, <4>3
    <3> QED
      BY <3>1, <3>2
  <2>2. g = [n \in 0..Len(s) |-> g[n]]
    OBVIOUS
  <2> HIDE DEF Rec
  <2> QED
    BY <2>1, <2>2
<1> DEFINE f == CHOOSE c : Is(c)
<1>6. Is(f) /\ Keep(s, S) = f[Len(s)]
  <2>1. Is(f)
    <3> HIDE DEF Is
    <3> QED
      BY <1>5
  <2>2. Keep(s, S) = f[Len(s)]
    BY DEF Keep
  <2> QED
    BY <2>1, <2>2
<1> HIDE DEF f
<1>7. ASSUME NEW n \in 0..Len(s) PROVE f[n] = Rec(f, n)
  BY <1>6
<1>8. f[0] = <<>> /\ \A n \in 0..Len(s) - 1 : f[n + 1] = Step(n, f[n])
  <2>1. f[0] = Rec(f, 0)
    BY <1>1, <1>7
  <2>2. ASSUME NEW n \in 0..Len(s) - 1 PROVE f[n + 1] = Step(n, f[n])
    <3>1. n + 1 \in 0..Len(s) /\ n + 1 # 0 /\ (n + 1) - 1 = n
      BY <1>1
    <3>2. f[n + 1] = Rec(f, n + 1)
      BY <1>7, <3>1
    <3> QED
      BY <3>1, <3>2
  <2> QED
    BY <2>1, <2>2
<1>9. ASSUME NEW n \in 0..Len(s) PROVE f[n] = g[n]
  <2> DEFINE T == {i \in 0..Len(s) : f[i] = g[i]}
  <2>1. 0 \in T
    BY <1>1, <1>4, <1>8
  <2>2. ASSUME NEW i \in 0..Len(s) - 1, i \in T PROVE i + 1 \in T
    <3>1. i + 1 \in 0..Len(s) /\ f[i] = g[i]
      BY <1>1, <2>2
    <3> HIDE DEF Step
    <3> QED
      BY <1>4, <1>8, <3>1
  <2>3. n \in T
    <3> HIDE DEF T
    <3> QED
      BY <1>1, <2>1, <2>2, InductionUpTo
  <2> QED
    BY <2>3
<1>10. f \in [0..Len(s) -> D]
  <2>1. \A n \in 0..Len(s) : f[n] \in D
    <3> HIDE DEF D
    <3> QED
      BY <1>9
  <2>2. f = [n \in 0..Len(s) |-> Rec(f, n)]
    BY <1>6
  <2>3. f = [n \in 0..Len(s) |-> f[n]]
    <3> HIDE DEF Rec
    <3> QED
      BY <2>2
  <2> HIDE DEF D
  <2> QED
    BY <2>1, <2>3
<1> QED
  BY <1>6, <1>8, <1>10 DEF KeepsBy

LEMMA KeepType == ASSUME NEW V, NEW s \in Seq(V), NEW S PROVE Keep(s, S) \in Seq(V)
<1>1. PICK f \in [0..Len(s) -> Seq(V)] : Keep(s, S) = f[Len(s)]
  BY KeepIsComputed
<1>2. Len(s) \in 0..Len(s)
  OBVIOUS
<1> QED
  BY <1>1, <1>2

LEMMA KeepEmpty == ASSUME NEW S PROVE Keep(<<>>, S) = <<>>
<1> DEFINE e == <<>>
<1>1. e \in Seq({}) /\ Len(e) = 0
  OBVIOUS
<1>2. PICK f \in [0..Len(e) -> Seq({})] : KeepsBy(f, e, S) /\ Keep(e, S) = f[Len(e)]
  <2> HIDE DEF e
  <2> QED
    BY <1>1, KeepIsComputed
<1> QED
  BY <1>1, <1>2 DEF KeepsBy

LEMMA KeepAppend ==
    ASSUME NEW V, NEW s \in Seq(V), NEW x \in V, NEW S
    PROVE  Keep(Append(s, x), S) = IF x \in S THEN Append(Keep(s, S), x) ELSE Keep(s, S)
<1> DEFINE t == Append(s, x)
<1>1. t \in Seq(V) /\ Len(t) = Len(s) + 1 /\ t[Len(s) + 1] = x /\ Len(s) \in Nat /\ \A n \in 1..Len(s) : t[n] = s[n]
  OBVIOUS
<1>2. PICK f \in [0..Len(s) -> Seq(V)] : KeepsBy(f, s, S) /\ Keep(s, S) = f[Len(s)]
  BY KeepIsComputed
<1>3. PICK g \in [0..Len(t) -> Seq(V)] : KeepsBy(g, t, S) /\ Keep(t, S) = g[Len(t)]
  <2> HIDE DEF t
  <2> QED
    BY <1>1, KeepIsComputed
<1> HIDE DEF t
<1> DEFINE T == {n \in 0..Len(s) : f[n] = g[n]}
<1>4. Len(s) \in T
  <2>1. 0 \in T
    BY <1>1, <1>2, <1>3 DEF KeepsBy
  <2>2. ASSUME NEW n \in 0..Len(s) - 1, n \in T PROVE n + 1 \in T
    <3>1. n + 1 \in 0..Len(s) /\ n \in 0..Len(t) - 1 /\ f[n] = g[n] /\ t[n + 1] = s[n + 1]
      BY <1>1, <2>2
    <3>2. f[n + 1] = IF s[n + 1] \in S THEN Append(f[n], s[n + 1]) ELSE f[n]
      BY <1>2 DEF KeepsBy
    <3>3. g[n + 1] = IF t[n + 1] \in S THEN Append(g[n], t[n + 1]) ELSE g[n]
      BY <1>3, <3>1 DEF KeepsBy
    <3> QED
      BY <3>1, <3>2, <3>3
  <2>3. Len(s) \in 0..Len(s)
    BY <1>1
  <2> HIDE DEF T
  <2> QED
    BY <1>1, <2>1, <2>2, <2>3, InductionUpTo
<1>5. f[Len(s)] = g[Len(s)]
  BY <1>4
<1>6. g[Len(s) + 1] = IF t[Len(s) + 1] \in S THEN Append(g[Len(s)], t[Len(s) + 1]) ELSE g[Len(s)]
  <2>1. Len(s) \in 0..Len(t) - 1
    BY <1>1
  <2> QED
    BY <1>3, <2>1 DEF KeepsBy
<1>7. Keep(t, S) = IF x \in S THEN Append(Keep(s, S), x) ELSE Keep(s, S)
  BY <1>1, <1>2, <1>3, <1>5, <1>6
<1> QED
  BY <1>7 DEF t

-----------------------------------------------------------------------------
(* What Keep does with a whole sequence, by induction on the sequence.     *)

LEMMA SequenceInduction ==
    ASSUME NEW V, NEW T, <<>> \in T, \A s \in Seq(V), x \in V : s \in T => Append(s, x) \in T
    PROVE  \A s \in Seq(V) : s \in T
<1> DEFINE U == {n \in Nat : \A s \in Seq(V) : Len(s) = n => s \in T}
<1>1. 0 \in U
  <2>1. \A s \in Seq(V) : Len(s) = 0 => s = <<>>
    OBVIOUS
  <2> QED
    BY <2>1
<1>2. ASSUME NEW n \in U PROVE n + 1 \in U
  <2>1. n \in Nat /\ n + 1 \in Nat /\ \A s \in Seq(V) : Len(s) = n => s \in T
    OBVIOUS
  <2>2. ASSUME NEW s \in Seq(V), Len(s) = n + 1 PROVE s \in T
    <3>1. s # <<>>
      BY <2>1, <2>2
    <3>2. PICK r \in Seq(V), x \in V : s = Append(r, x)
      BY <3>1, SequenceEmptyOrAppend
    <3>3. Len(r) = n
      BY <2>1, <2>2, <3>2
    <3> QED
      BY <2>1, <3>2, <3>3
  <2> QED
    BY <2>1, <2>2
<1>3. U \in SUBSET Nat
  OBVIOUS
<1>4. U = Nat
  <2> HIDE DEF U
  <2> QED
    BY <1>1, <1>2, <1>3, Induction
<1>5. ASSUME NEW s \in Seq(V) PROVE s \in T
  <2>1. Len(s) \in U
    <3>1. Len(s) \in Nat
      OBVIOUS
    <3> HIDE DEF U
    <3> QED
      BY <1>4, <3>1
  <2> QED
    BY <2>1
<1> QED
  BY <1>5

(* Joining and appending.                                                  *)
LEMMA AppendJoined ==
    ASSUME NEW V, NEW a \in Seq(V), NEW b \in Seq(V), NEW x \in V
    PROVE  Append(a \o b, x) = a \o Append(b, x)
<1>1. <<x>> \in Seq(V) /\ a \o b \in Seq(V)
  <2>1. a \o b \in Seq(V)
    BY ConcatProperties
  <2> QED
    BY <2>1
<1>2. Append(b, x) = b \o <<x>> /\ Append(a \o b, x) = (a \o b) \o <<x>>
  BY <1>1, AppendIsConcat
<1>3. a \o (b \o <<x>>) = (a \o b) \o <<x>>
  BY <1>1, ConcatAssociative
<1> QED
  BY <1>2, <1>3

(* Selecting from two sequences that are joined.                           *)
LEMMA KeepConcat ==
    ASSUME NEW V, NEW s \in Seq(V), NEW t \in Seq(V), NEW S
    PROVE  Keep(s \o t, S) = Keep(s, S) \o Keep(t, S)
<1> DEFINE T == {u \in Seq(V) : Keep(s \o u, S) = Keep(s, S) \o Keep(u, S)}
<1>1. <<>> \in T
  <2>1. s \o <<>> = s /\ Keep(<<>>, S) = <<>> /\ <<>> \in Seq(V)
    BY KeepEmpty
  <2>2. Keep(s, S) \o <<>> = Keep(s, S)
    BY KeepType, ConcatEmptySeq
  <2> QED
    BY <2>1, <2>2
<1>2. ASSUME NEW r \in Seq(V), NEW x \in V, r \in T PROVE Append(r, x) \in T
  <2> DEFINE w == s \o r
             a == Keep(s, S)
             b == Keep(r, S)
  <2>1. w \in Seq(V) /\ s \o Append(r, x) = Append(w, x)
    BY ConcatProperties, AppendJoined
  <2>2. a \in Seq(V) /\ b \in Seq(V)
    BY KeepType
  <2>3. Append(a \o b, x) = a \o Append(b, x)
    <3> HIDE DEF a, b
    <3>1. <<x>> \in Seq(V) /\ a \o b \in Seq(V)
      BY <2>2
    <3>2. Append(b, x) = b \o <<x>> /\ Append(a \o b, x) = (a \o b) \o <<x>>
      BY <2>2, <3>1, AppendIsConcat
    <3>3. a \o (b \o <<x>>) = (a \o b) \o <<x>>
      BY <2>2, <3>1, ConcatAssociative
    <3> QED
      BY <3>2, <3>3
  <2>4. Keep(w, S) = a \o b
    BY <1>2
  <2>5. Keep(Append(w, x), S) = IF x \in S THEN Append(Keep(w, S), x) ELSE Keep(w, S)
    <3> HIDE DEF w
    <3> QED
      BY <2>1, KeepAppend
  <2>6. Keep(Append(r, x), S) = IF x \in S THEN Append(b, x) ELSE b
    BY KeepAppend
  <2> HIDE DEF w, a, b
  <2>7. Keep(s \o Append(r, x), S) = a \o Keep(Append(r, x), S)
    BY <2>1, <2>3, <2>4, <2>5, <2>6
  <2>8. Append(r, x) \in Seq(V)
    OBVIOUS
  <2> QED
    BY <2>7, <2>8 DEF a
<1>3. t \in T
  <2> HIDE DEF T
  <2> QED
    BY <1>1, <1>2, SequenceInduction
<1> QED
  BY <1>3

(* What is selected is in the set, and was in the sequence.                *)
LEMMA KeepMembers ==
    ASSUME NEW V, NEW s \in Seq(V), NEW S
    PROVE  Keep(s, S) \in Seq(V \cap S)
<1> DEFINE T == {u \in Seq(V) : Keep(u, S) \in Seq(V \cap S)}
<1>1. <<>> \in T
  <2>1. Keep(<<>>, S) = <<>>
    BY KeepEmpty
  <2>2. <<>> \in Seq(V) /\ <<>> \in Seq(V \cap S)
    OBVIOUS
  <2> QED
    BY <2>1, <2>2
<1>2. ASSUME NEW r \in Seq(V), NEW x \in V, r \in T PROVE Append(r, x) \in T
  <2>1. Keep(Append(r, x), S) = IF x \in S THEN Append(Keep(r, S), x) ELSE Keep(r, S)
    BY KeepAppend
  <2>2. Append(r, x) \in Seq(V)
    OBVIOUS
  <2>3. Keep(r, S) \in Seq(V \cap S)
    BY <1>2
  <2>4. Keep(Append(r, x), S) \in Seq(V \cap S)
    <3>1. CASE x \in S
      <4>1. x \in V \cap S
        BY <3>1
      <4> QED
        BY <2>1, <2>3, <3>1, <4>1, AppendProperties
    <3>2. CASE x \notin S
      BY <2>1, <2>3, <3>2
    <3> QED
      BY <3>1, <3>2
  <2> QED
    BY <2>2, <2>4
<1>3. s \in T
  <2> HIDE DEF T
  <2> QED
    BY <1>1, <1>2, SequenceInduction
<1> QED
  BY <1>3

(* Selecting twice.                                                        *)
LEMMA KeepTwice ==
    ASSUME NEW V, NEW s \in Seq(V), NEW A, NEW B
    PROVE  Keep(Keep(s, A), B) = Keep(s, A \cap B)
<1> DEFINE T == {u \in Seq(V) : Keep(Keep(u, A), B) = Keep(u, A \cap B)}
<1>1. <<>> \in T
  BY KeepEmpty
<1>2. ASSUME NEW r \in Seq(V), NEW x \in V, r \in T PROVE Append(r, x) \in T
  <2> DEFINE k == Keep(r, A)
  <2>1. k \in Seq(V) /\ Keep(k, B) = Keep(r, A \cap B)
    BY <1>2, KeepType
  <2>2. Keep(Append(r, x), A) = IF x \in A THEN Append(k, x) ELSE k
    BY KeepAppend
  <2>3. Keep(Append(r, x), A \cap B)
            = IF x \in A \cap B THEN Append(Keep(r, A \cap B), x) ELSE Keep(r, A \cap B)
    BY KeepAppend
  <2>4. Keep(Append(k, x), B) = IF x \in B THEN Append(Keep(k, B), x) ELSE Keep(k, B)
    <3> HIDE DEF k
    <3> QED
      BY <2>1, KeepAppend
  <2>5. Append(r, x) \in Seq(V)
    OBVIOUS
  <2> HIDE DEF k
  <2>6. Keep(Keep(Append(r, x), A), B) = Keep(Append(r, x), A \cap B)
    <3>1. CASE x \in A
      <4>1. Keep(Append(r, x), A) = Append(k, x)
        BY <2>2, <3>1
      <4>2. Keep(Keep(Append(r, x), A), B) = IF x \in B THEN Append(Keep(k, B), x) ELSE Keep(k, B)
        BY <2>4, <4>1
      <4>3. x \in A \cap B <=> x \in B
        BY <3>1
      <4> QED
        BY <2>1, <2>3, <4>2, <4>3
    <3>2. CASE x \notin A
      BY <2>1, <2>2, <2>3, <3>2
    <3> QED
      BY <3>1, <3>2
  <2> QED
    BY <2>5, <2>6
<1>3. s \in T
  <2> HIDE DEF T
  <2> QED
    BY <1>1, <1>2, SequenceInduction
<1> QED
  BY <1>3

(* Selecting by two sets that agree on what may be in the sequence.        *)
LEMMA KeepSame ==
    ASSUME NEW V, NEW s \in Seq(V), NEW A, NEW B, V \cap A = V \cap B
    PROVE  Keep(s, A) = Keep(s, B)
<1> DEFINE T == {u \in Seq(V) : Keep(u, A) = Keep(u, B)}
<1>1. <<>> \in T
  BY KeepEmpty
<1>2. ASSUME NEW r \in Seq(V), NEW x \in V, r \in T PROVE Append(r, x) \in T
  <2>1. Keep(Append(r, x), A) = IF x \in A THEN Append(Keep(r, A), x) ELSE Keep(r, A)
    BY KeepAppend
  <2>2. Keep(Append(r, x), B) = IF x \in B THEN Append(Keep(r, B), x) ELSE Keep(r, B)
    BY KeepAppend
  <2>3. x \in A <=> x \in B
    OBVIOUS
  <2>4. Append(r, x) \in Seq(V) /\ Keep(r, A) = Keep(r, B)
    BY <1>2
  <2> QED
    BY <2>1, <2>2, <2>3, <2>4
<1>3. s \in T
  <2> HIDE DEF T
  <2> QED
    BY <1>1, <1>2, SequenceInduction
<1> QED
  BY <1>3

LEMMA KeepAll == ASSUME NEW V, NEW s \in Seq(V) PROVE Keep(s, V) = s
<1> DEFINE T == {u \in Seq(V) : Keep(u, V) = u}
<1>1. <<>> \in T
  BY KeepEmpty
<1>2. ASSUME NEW r \in Seq(V), NEW x \in V, r \in T PROVE Append(r, x) \in T
  <2>1. Keep(Append(r, x), V) = IF x \in V THEN Append(Keep(r, V), x) ELSE Keep(r, V)
    BY KeepAppend
  <2>2. Append(r, x) \in Seq(V) /\ Keep(r, V) = r
    BY <1>2
  <2> QED
    BY <2>1, <2>2
<1>3. s \in T
  <2> HIDE DEF T
  <2> QED
    BY <1>1, <1>2, SequenceInduction
<1> QED
  BY <1>3

LEMMA KeepNothing == ASSUME NEW V, NEW s \in Seq(V), NEW S, V \cap S = {} PROVE Keep(s, S) = <<>>
<1>1. Keep(s, S) \in Seq({})
  BY KeepMembers
<1> QED
  BY <1>1

\* The values of h at the elements of s.
Image(h, s) == [i \in DOMAIN s |-> h[s[i]]]

\* The elements of V that h maps into S.
Preimage(h, V, S) == {x \in V : h[x] \in S}

(* Selecting from a sequence that is the image of another.                 *)
LEMMA KeepImage ==
    ASSUME NEW V, NEW s \in Seq(V), NEW h, NEW S
    PROVE  Keep(Image(h, s), S) = Image(h, Keep(s, Preimage(h, V, S)))
<1> DEFINE W == {h[x] : x \in V}
           X == {x \in V : h[x] \in S}
           Of(u) == [i \in DOMAIN u |-> h[u[i]]]
           T == {u \in Seq(V) : Keep(Of(u), S) = Of(Keep(u, X))}
<1>1. ASSUME NEW u \in Seq(V) PROVE Of(u) \in Seq(W)
  <2>1. Len(u) \in Nat /\ DOMAIN u = 1..Len(u) /\ \A i \in 1..Len(u) : h[u[i]] \in W
    OBVIOUS
  <2> QED
    BY <2>1, IsASeq
<1>2. ASSUME NEW u \in Seq(V), NEW x \in V PROVE Of(Append(u, x)) = Append(Of(u), h[x])
  <2>1. Of(u) \in Seq(W) /\ Len(Of(u)) = Len(u) /\ Append(u, x) \in Seq(V)
    BY <1>1
  <2>2. Of(Append(u, x)) \in Seq(W) /\ Append(Of(u), h[x]) \in Seq(W)
    <3> DEFINE y == h[x]
               o == Of(u)
    <3>1. y \in W /\ o \in Seq(W)
      <4> HIDE DEF Of
      <4> QED
        BY <2>1
    <3>2. Append(o, y) \in Seq(W)
      <4> HIDE DEF o, y
      <4> QED
        BY <3>1, AppendProperties
    <3> HIDE DEF Of
    <3> QED
      BY <1>1, <2>1, <3>2
  <2>3. Len(Of(Append(u, x))) = Len(u) + 1 /\ Len(Append(Of(u), h[x])) = Len(u) + 1
    <3>1. Len(Append(Of(u), h[x])) = Len(u) + 1
      <4> HIDE DEF Of
      <4> QED
        BY <2>1
    <3>2. DOMAIN Of(Append(u, x)) = 1..Len(u) + 1
      OBVIOUS
    <3>3. Len(Of(Append(u, x))) = Len(u) + 1
      <4>1. Len(u) + 1 \in Nat
        OBVIOUS
      <4> HIDE DEF Of
      <4> QED
        BY <2>2, <3>2, <4>1, LenProperties
    <3> QED
      BY <3>1, <3>3
  <2>4. ASSUME NEW i \in 1..Len(u) + 1 PROVE Of(Append(u, x))[i] = Append(Of(u), h[x])[i]
    <3>1. CASE i = Len(u) + 1
      BY <2>1, <3>1
    <3>2. CASE i # Len(u) + 1
      <4>1. i \in 1..Len(u)
        BY <3>2
      <4>2. Of(Append(u, x))[i] = h[u[i]]
        BY <4>1
      <4>3. Of(u)[i] = h[u[i]]
        BY <4>1
      <4>4. Append(Of(u), h[x])[i] = Of(u)[i]
        <5> HIDE DEF Of
        <5> QED
          BY <2>1, <4>1
      <4> QED
        BY <4>2, <4>3, <4>4
    <3> QED
      BY <3>1, <3>2
  <2> HIDE DEF Of
  <2> QED
    BY <2>2, <2>3, <2>4, SeqEqual
<1>3. <<>> \in T
  <2>1. Of(<<>>) = <<>>
    OBVIOUS
  <2> HIDE DEF Of
  <2> QED
    BY <2>1, KeepEmpty
<1>4. ASSUME NEW r \in Seq(V), NEW x \in V, r \in T PROVE Append(r, x) \in T
  <2>1. Keep(Append(r, x), X) = IF x \in X THEN Append(Keep(r, X), x) ELSE Keep(r, X)
    <3> HIDE DEF X
    <3> QED
      BY KeepAppend
  <2>2. Keep(r, X) \in Seq(V) /\ Of(r) \in Seq(W) /\ h[x] \in W /\ Keep(Of(r), S) = Of(Keep(r, X))
    <3> HIDE DEF X, Of
    <3> QED
      BY <1>1, <1>4, KeepType
  <2>3. Keep(Append(Of(r), h[x]), S) = IF h[x] \in S THEN Append(Keep(Of(r), S), h[x]) ELSE Keep(Of(r), S)
    <3> DEFINE y == h[x]
               o == Of(r)
    <3>1. y \in W /\ o \in Seq(W)
      <4> HIDE DEF Of
      <4> QED
        BY <2>2
    <3>2. Keep(Append(o, y), S) = IF y \in S THEN Append(Keep(o, S), y) ELSE Keep(o, S)
      <4> HIDE DEF o, y, W
      <4> QED
        BY <3>1, KeepAppend
    <3> HIDE DEF Of
    <3> QED
      BY <3>2
  <2>4. x \in X <=> h[x] \in S
    OBVIOUS
  <2>5. Of(Append(r, x)) = Append(Of(r), h[x]) /\ Append(r, x) \in Seq(V)
    BY <1>2
  <2>6. Of(Append(Keep(r, X), x)) = Append(Of(Keep(r, X)), h[x])
    <3> HIDE DEF X, Of
    <3> QED
      BY <1>2, <2>2
  <2> HIDE DEF X, Of
  <2>7. Keep(Of(Append(r, x)), S) = Of(Keep(Append(r, x), X))
    BY <2>1, <2>2, <2>3, <2>4, <2>5, <2>6
  <2> QED
    BY <2>5, <2>7
<1>5. s \in T
  <2> HIDE DEF T
  <2> QED
    BY <1>3, <1>4, SequenceInduction
<1>6. Keep(Of(s), S) = Of(Keep(s, X))
  <2> HIDE DEF Of, X
  <2> QED
    BY <1>5
<1> QED
  BY <1>6 DEF Image, Preimage

-----------------------------------------------------------------------------
(* The places that are selected.                                           *)

LEMMA UpToFacts ==
    ASSUME NEW n \in Nat
    PROVE  /\ UpTo(n) \in Seq(1..n) /\ Len(UpTo(n)) = n /\ DOMAIN UpTo(n) = 1..n
           /\ UpTo(0) = <<>>
           /\ UpTo(n + 1) = Append(UpTo(n), n + 1)
<1>1. ASSUME NEW m \in Nat PROVE UpTo(m) \in Seq(1..m) /\ Len(UpTo(m)) = m /\ DOMAIN UpTo(m) = 1..m
  BY DEF UpTo
<1>2. UpTo(0) = <<>>
  BY DEF UpTo
<1>3. UpTo(n + 1) = Append(UpTo(n), n + 1)
  BY DEF UpTo
<1> QED
  BY <1>1, <1>2, <1>3

\* Which elements of a sequence are in a set.
Places(s, S) == {j \in 1..Len(s) : s[j] \in S}

(* What is selected are the elements at the places selected.               *)
LEMMA KeepPlaces ==
    ASSUME NEW V, NEW s \in Seq(V), NEW S
    PROVE  /\ Keep(UpTo(Len(s)), Places(s, S)) \in Seq(1..Len(s))
           /\ Keep(s, S) = Image(s, Keep(UpTo(Len(s)), Places(s, S)))
<1> DEFINE u == UpTo(Len(s))
           D == 1..Len(s)
<1>1. s \in [D -> V]
  OBVIOUS
<1>2. u \in Seq(D) /\ DOMAIN u = D
  BY UpToFacts
<1>3. Image(s, u) = s
  <2>1. \A i \in D : u[i] = i
    BY DEF UpTo
  <2> HIDE DEF u, D
  <2> QED
    BY <1>1, <1>2, <2>1 DEF Image
<1>4. Keep(Image(s, u), S) = Image(s, Keep(u, Preimage(s, D, S)))
  <2> HIDE DEF u, D
  <2> QED
    BY <1>1, <1>2, KeepImage
<1>5. Keep(u, Places(s, S)) \in Seq(D)
  <2> HIDE DEF u, D
  <2> QED
    BY <1>2, KeepType
<1>6. Places(s, S) = Preimage(s, D, S)
  BY DEF Places, Preimage
<1> QED
  BY <1>3, <1>4, <1>5, <1>6

(* The first place selected is the least, and all are selected.            *)
LEMMA KeepUpTo ==
    ASSUME NEW n \in Nat, NEW A
    PROVE  LET k == Keep(UpTo(n), A)
           IN  /\ k \in Seq(1..n \cap A)
               /\ \A j \in 1..n \cap A : \E i \in DOMAIN k : k[i] = j
               /\ 1..n \cap A # {} => k # <<>> /\ \A j \in 1..n \cap A : k[1] <= j
               /\ Len(k) = Cardinality(1..n \cap A)
<1> DEFINE K(m) == Keep(UpTo(m), A)
           B(m) == 1..m \cap A
           P(m) == /\ \A j \in B(m) : \E i \in DOMAIN K(m) : K(m)[i] = j
                   /\ B(m) # {} => K(m) # <<>> /\ \A j \in B(m) : K(m)[1] <= j
                   /\ Len(K(m)) = Cardinality(B(m))
           T == {m \in 0..n : P(m)}
<1>1. ASSUME NEW m \in Nat PROVE K(m) \in Seq(B(m)) /\ UpTo(m) \in Seq(1..m)
  BY KeepMembers, UpToFacts
<1>2. K(0) = <<>> /\ B(0) = {}
  BY UpToFacts, KeepEmpty
<1>3. ASSUME NEW m \in Nat
      PROVE  /\ K(m + 1) = IF m + 1 \in A THEN Append(K(m), m + 1) ELSE K(m)
             /\ B(m + 1) = IF m + 1 \in A THEN B(m) \cup {m + 1} ELSE B(m)
  <2>1. UpTo(m) \in Seq(Nat) /\ m + 1 \in Nat /\ UpTo(m + 1) = Append(UpTo(m), m + 1)
    <3>1. UpTo(m) \in Seq(1..m) /\ 1..m \subseteq Nat
      BY UpToFacts
    <3>2. UpTo(m) \in Seq(Nat)
      BY <3>1, SeqMonotonic
    <3> QED
      BY <3>2, UpToFacts
  <2>2. Keep(Append(UpTo(m), m + 1), A) = IF m + 1 \in A THEN Append(K(m), m + 1) ELSE K(m)
    <3> DEFINE u == UpTo(m)
               y == m + 1
    <3>1. u \in Seq(Nat) /\ y \in Nat
      BY <2>1
    <3>2. Keep(Append(u, y), A) = IF y \in A THEN Append(Keep(u, A), y) ELSE Keep(u, A)
      <4> HIDE DEF u, y
      <4> QED
        BY <3>1, KeepAppend
    <3> QED
      BY <3>2
  <2>3. B(m + 1) = IF m + 1 \in A THEN B(m) \cup {m + 1} ELSE B(m)
    OBVIOUS
  <2> QED
    BY <2>1, <2>2, <2>3
<1>4. ASSUME NEW m \in Nat PROVE IsFiniteSet(B(m)) /\ Cardinality(B(m)) \in Nat
  <2>1. IsFiniteSet(1..m)
    BY FS_Interval
  <2>2. B(m) \subseteq 1..m
    OBVIOUS
  <2> QED
    BY <2>1, <2>2, FS_Subset, FS_CardinalityType
<1>5. 0 \in T
  <2>1. Cardinality({}) = 0 /\ Len(<<>>) = 0
    BY FS_EmptySet
  <2> QED
    BY <1>2, <2>1
<1>6. ASSUME NEW m \in 0..n - 1, m \in T PROVE m + 1 \in T
  <2>1. m \in Nat /\ m + 1 \in 0..n /\ P(m)
    <3> HIDE DEF K, B
    <3> QED
      BY <1>6
  <2>2. CASE m + 1 \notin A
    <3>1. K(m + 1) = K(m) /\ B(m + 1) = B(m)
      BY <1>3, <2>1, <2>2
    <3> HIDE DEF K, B
    <3> QED
      BY <2>1, <3>1
  <2>3. CASE m + 1 \in A
    <3> DEFINE k == K(m)
               b == B(m)
    <3>1. K(m + 1) = Append(k, m + 1) /\ B(m + 1) = b \cup {m + 1} /\ k \in Seq(b) /\ m + 1 \notin b
      <4>1. m + 1 \notin b
        BY <2>1
      <4> HIDE DEF K, B
      <4> QED
        BY <1>1, <1>3, <2>1, <2>3, <4>1
    <3>2. b \subseteq 1..m
      OBVIOUS
    <3>3. IsFiniteSet(b) /\ Cardinality(b) \in Nat
      BY <1>4, <2>1
    <3>4. Cardinality(b \cup {m + 1}) = Cardinality(b) + 1
      <4> HIDE DEF b
      <4> QED
        BY <3>1, <3>3, FS_AddElement
    <3>5. /\ \A j \in b : \E i \in DOMAIN k : k[i] = j
          /\ b # {} => k # <<>> /\ \A j \in b : k[1] <= j
          /\ Len(k) = Cardinality(b)
      BY <2>1
    <3> HIDE DEF k, b, K, B
    <3> DEFINE l == Append(k, m + 1)
    <3>6. /\ Len(l) = Len(k) + 1 /\ DOMAIN l = 1..Len(k) + 1 /\ l[Len(k) + 1] = m + 1
          /\ Len(k) \in Nat /\ DOMAIN k = 1..Len(k) /\ \A i \in DOMAIN k : l[i] = k[i]
      <4>1. k \in Seq(Nat)
        <5>1. b \subseteq Nat
          BY <2>1, <3>2
        <5> QED
          BY <3>1, <5>1, SeqMonotonic
      <4> QED
        BY <2>1, <4>1
    <3>7. \A j \in b \cup {m + 1} : \E i \in DOMAIN l : l[i] = j
      BY <3>5, <3>6
    <3>8. l # <<>> /\ \A j \in b \cup {m + 1} : l[1] <= j
      <4>1. CASE b = {}
        <5>1. Len(k) = 0
          BY <3>5, <4>1, FS_EmptySet
        <5> QED
          BY <2>1, <3>6, <4>1, <5>1
      <4>2. CASE b # {}
        <5>1. k # <<>> /\ \A j \in b : k[1] <= j
          BY <3>5, <4>2
        <5>2. 1 \in DOMAIN k
          BY <3>1, <3>6, <5>1
        <5>3. k[1] \in b
          BY <3>1, <5>2, ElementOfSeq, <3>6
        <5>4. k[1] \in 1..m /\ l[1] = k[1]
          BY <3>2, <3>6, <5>2, <5>3
        <5>5. l # <<>>
          BY <3>6
        <5>6. \A j \in b : l[1] <= j
          BY <5>1, <5>4
        <5>7. l[1] <= m + 1
          BY <2>1, <5>4
        <5> QED
          BY <5>5, <5>6, <5>7
      <4> QED
        BY <4>1, <4>2
    <3>9. Len(l) = Cardinality(b \cup {m + 1})
      BY <3>4, <3>5, <3>6
    <3> HIDE DEF l
    <3>10. K(m + 1) = l /\ B(m + 1) = b \cup {m + 1}
      BY <3>1 DEF l
    <3> QED
      BY <2>1, <3>7, <3>8, <3>9, <3>10
  <2> QED
    BY <2>2, <2>3
<1>7. n \in T
  <2>1. n \in 0..n
    OBVIOUS
  <2> HIDE DEF T
  <2> QED
    BY <1>5, <1>6, <2>1, InductionUpTo
<1>8. P(n)
  BY <1>7
<1> QED
  BY <1>1, <1>8

LEMMA KeepUpToOne ==
    ASSUME NEW n \in Nat, NEW m \in 1..n
    PROVE  Keep(UpTo(n), {m}) = <<m>>
<1> DEFINE k == Keep(UpTo(n), {m})
<1>1. 1..n \cap {m} = {m}
  OBVIOUS
<1>2. k \in Seq({m}) /\ Len(k) = Cardinality({m})
  BY <1>1, KeepUpTo
<1>3. Cardinality({m}) = 1
  BY FS_Singleton
<1> HIDE DEF k
<1>4. k = <<m>>
  BY <1>2, <1>3
<1> QED
  BY <1>4 DEF k

(* What is in the sequence and in the set is selected.                     *)
LEMMA KeepsEach ==
    ASSUME NEW V, NEW s \in Seq(V), NEW S, NEW j \in 1..Len(s), s[j] \in S
    PROVE  \E i \in 1..Len(Keep(s, S)) : Keep(s, S)[i] = s[j]
<1> DEFINE k == Keep(UpTo(Len(s)), Places(s, S))
<1>1. k \in Seq(1..Len(s)) /\ Keep(s, S) = [i \in DOMAIN k |-> s[k[i]]]
  BY KeepPlaces DEF Image
<1>2. Len(s) \in Nat /\ j \in 1..Len(s) \cap Places(s, S)
  BY DEF Places
<1>3. PICK i \in DOMAIN k : k[i] = j
  BY <1>2, KeepUpTo
<1>4. Keep(s, S) \in Seq(V)
  BY KeepType
<1> HIDE DEF k
<1>5. DOMAIN Keep(s, S) = DOMAIN k /\ DOMAIN Keep(s, S) = 1..Len(Keep(s, S))
  BY <1>1, <1>4
<1> QED
  BY <1>1, <1>3, <1>5

-----------------------------------------------------------------------------
(* The elements at chosen places.                                          *)
Picked(s, A) == Image(s, Keep(UpTo(Len(s)), A))

LEMMA KeepPicked ==
    ASSUME NEW V, NEW s \in Seq(V), NEW S PROVE Keep(s, S) = Picked(s, Places(s, S))
BY KeepPlaces DEF Picked

LEMMA PickedType ==
    ASSUME NEW V, NEW s \in Seq(V), NEW A
    PROVE  Picked(s, A) \in Seq(V) /\ Len(Picked(s, A)) = Cardinality(1..Len(s) \cap A)
<1> DEFINE k == Keep(UpTo(Len(s)), A)
<1>1. k \in Seq(1..Len(s) \cap A) /\ Len(k) = Cardinality(1..Len(s) \cap A)
  <2>1. Len(s) \in Nat
    OBVIOUS
  <2> HIDE DEF k
  <2> QED
    BY <2>1, KeepUpTo DEF k
<1>2. k \in Seq(1..Len(s))
  <2>1. 1..Len(s) \cap A \subseteq 1..Len(s)
    OBVIOUS
  <2> HIDE DEF k
  <2> QED
    BY <1>1, <2>1, SeqMonotonic
<1> HIDE DEF k
<1>3. \A i \in 1..Len(k) : k[i] \in 1..Len(s) /\ s[k[i]] \in V
  BY <1>2
<1>4. Len(k) \in Nat /\ DOMAIN k = 1..Len(k)
  BY <1>2
<1>5. Image(s, k) = [i \in 1..Len(k) |-> s[k[i]]]
  BY <1>4 DEF Image
<1>6. Image(s, k) \in Seq(V) /\ Len(Image(s, k)) = Len(k)
  BY <1>3, <1>4, <1>5, IsASeq
<1> QED
  BY <1>1, <1>6 DEF Picked, k

LEMMA PickedKept ==
    ASSUME NEW V, NEW s \in Seq(V), NEW A, NEW S
    PROVE  Keep(Picked(s, A), S) = Picked(s, A \cap Places(s, S))
<1> DEFINE u == UpTo(Len(s))
           D == 1..Len(s)
           k == Keep(u, A)
<1>1. u \in Seq(D)
  BY UpToFacts
<1>2. k \in Seq(D)
  <2> HIDE DEF u, D
  <2> QED
    BY <1>1, KeepType
<1>3. Keep(Image(s, k), S) = Image(s, Keep(k, Preimage(s, D, S)))
  <2> HIDE DEF u, D, k
  <2> QED
    BY <1>2, KeepImage
<1>4. Preimage(s, D, S) = Places(s, S)
  BY DEF Preimage, Places
<1>5. Keep(Keep(u, A), Places(s, S)) = Keep(u, A \cap Places(s, S))
  <2> HIDE DEF u, D
  <2> QED
    BY <1>1, KeepTwice
<1> QED
  BY <1>3, <1>4, <1>5 DEF Picked

LEMMA PickedSame ==
    ASSUME NEW V, NEW s \in Seq(V), NEW W, NEW t \in Seq(W), Len(s) = Len(t),
           NEW A, NEW B, 1..Len(s) \cap A = 1..Len(s) \cap B,
           \A i \in 1..Len(s) \cap A : s[i] = t[i]
    PROVE  Picked(s, A) = Picked(t, B)
<1> DEFINE u == UpTo(Len(s))
           D == 1..Len(s)
           k == Keep(u, A)
<1>1. u \in Seq(D)
  BY UpToFacts
<1>2. Keep(u, B) = k
  <2> HIDE DEF u, D
  <2>1. D \cap A = D \cap B
    BY DEF D
  <2> QED
    BY <1>1, <2>1, KeepSame
<1>3. k \in Seq(D \cap A)
  <2> HIDE DEF u, D
  <2> QED
    BY <1>1, KeepMembers
<1>4. \A i \in DOMAIN k : s[k[i]] = t[k[i]]
  <2> HIDE DEF k
  <2> QED
    BY <1>3
<1>5. Image(s, k) = Image(t, k)
  BY <1>4 DEF Image
<1> QED
  BY <1>2, <1>5 DEF Picked

LEMMA PickedAll == ASSUME NEW V, NEW s \in Seq(V) PROVE Picked(s, 1..Len(s)) = s
<1> DEFINE u == UpTo(Len(s))
           D == 1..Len(s)
<1>1. u \in Seq(D) /\ DOMAIN u = D /\ DOMAIN s = D
  BY UpToFacts
<1>2. Keep(u, D) = u
  <2> HIDE DEF u, D
  <2> QED
    BY <1>1, KeepAll
<1>3. \A i \in D : u[i] = i
  BY DEF UpTo
<1>4. s = [i \in D |-> s[i]]
  BY <1>1
<1>5. Image(s, u) = s
  <2> HIDE DEF u, D
  <2> QED
    BY <1>1, <1>3, <1>4 DEF Image
<1> QED
  BY <1>2, <1>5 DEF Picked

LEMMA PickedOne == ASSUME NEW V, NEW s \in Seq(V), NEW m \in 1..Len(s) PROVE Picked(s, {m}) = <<s[m]>>
<1>1. Len(s) \in Nat
  OBVIOUS
<1>2. Keep(UpTo(Len(s)), {m}) = <<m>>
  BY <1>1, KeepUpToOne
<1>3. Image(s, <<m>>) = <<s[m]>>
  BY DEF Image
<1> QED
  BY <1>2, <1>3 DEF Picked

LEMMA PickedNone == ASSUME NEW V, NEW s \in Seq(V) PROVE Picked(s, {}) = <<>>
<1> DEFINE u == UpTo(Len(s))
           D == 1..Len(s)
<1>1. u \in Seq(D)
  BY UpToFacts
<1>2. Keep(u, {}) = <<>>
  <2> HIDE DEF u, D
  <2> QED
    BY <1>1, KeepNothing
<1>3. Image(s, <<>>) = <<>>
  BY DEF Image
<1> QED
  BY <1>2, <1>3 DEF Picked
==============================================================================
