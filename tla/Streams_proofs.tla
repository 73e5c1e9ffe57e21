--------------------------- MODULE Streams_proofs ---------------------------
(***************************************************************************)
(* Proofs about ReqBody, for bodies of any length, any HUGE_STRING_LEN and *)
(* any lengths that a handler asks for; and about Filter, for streams of   *)
(* any length, cut into buckets and brigades in any way.                   *)
(*                                                                         *)
(* Of a body, two things have to be followed through the loops over        *)
(* blocks: how much is still wanted, of a length that for -1 was made up   *)
(* from what Apache and rbuff have left; and that readline() only asks for *)
(* blocks when it has emptied rbuff, so that what it collects there stands *)
(* behind what it has taken.                                               *)
(*                                                                         *)
(* Of a filter, the sequences are followed: what was written is what was   *)
(* passed and, behind it, what waits in bb_out; and for a handler that     *)
(* copies, what it has written, what it has in hand and what it has not    *)
(* read are together the bytes given so far.  And whatever fails, a byte   *)
(* that was given is in one of these places at most.                       *)
(***************************************************************************)
EXTENDS Streams, Keeping_proofs, SequenceTheorems, FiniteSetTheorems, WellFoundedInduction, TLAPS

-----------------------------------------------------------------------------
(* Sequences.                                                              *)

(* A set of numbers has a least one.                                       *)
LEMMA LeastExists ==
    ASSUME NEW n \in Nat, NEW T \in SUBSET (1..n), T # {}
    PROVE  \E k \in T : \A j \in T : k <= j
<1> DEFINE S == 1..n
           R == StrictSubsetOrdering(S)
           I == {1..k : k \in T}
<1>1. IsWellFoundedOn(R, SUBSET S)
  <2>1. IsFiniteSet(S)
    BY FS_Interval
  <2> QED
    BY <2>1, FS_FiniteSubsetsOfFinite, FS_StrictSubsetOrderingWellFounded
<1>2. I \subseteq SUBSET S /\ I # {}
  <2>1. \A k \in T : 1..k \subseteq S
    OBVIOUS
  <2>2. PICK k \in T : TRUE
    OBVIOUS
  <2> QED
    BY <2>1, <2>2
<1>3. PICK x \in I : \A y \in I : <<y, x>> \notin R
  BY <1>1, <1>2, WFMin
<1>4. PICK k \in T : x = 1..k
  OBVIOUS
<1>5. ASSUME NEW j \in T, j < k PROVE FALSE
  <2>1. 1..j \subseteq 1..k /\ k \in 1..k /\ k \notin 1..j /\ 1..j \in SUBSET S /\ 1..k \in SUBSET S
    BY <1>5
  <2>2. <<1..j, x>> \in R
    BY <1>4, <2>1 DEF StrictSubsetOrdering
  <2> QED
    BY <1>3, <2>2
<1> QED
  BY <1>5

(* A sequence cut in two.                                                  *)
LEMMA Cut ==
    ASSUME NEW S, NEW s \in Seq(S), NEW k \in 0..Len(s)
    PROVE  /\ SubSeq(s, 1, k) \in Seq(S) /\ Len(SubSeq(s, 1, k)) = k
           /\ SubSeq(s, k + 1, Len(s)) \in Seq(S) /\ Len(SubSeq(s, k + 1, Len(s))) = Len(s) - k
           /\ \A i \in 1..k : SubSeq(s, 1, k)[i] = s[i]
           /\ SubSeq(s, 1, k) \o SubSeq(s, k + 1, Len(s)) = s
           /\ k = Len(s) => SubSeq(s, 1, k) = s /\ SubSeq(s, k + 1, Len(s)) = <<>>
<1>1. /\ SubSeq(s, 1, k) \in Seq(S) /\ Len(SubSeq(s, 1, k)) = k
      /\ \A i \in 1..k : SubSeq(s, 1, k)[i] = s[i]
  BY SubSeqProperties
<1>2. /\ SubSeq(s, k + 1, Len(s)) \in Seq(S) /\ Len(SubSeq(s, k + 1, Len(s))) = Len(s) - k
  BY SubSeqProperties
<1>3. SubSeq(s, 1, k) \o SubSeq(s, k + 1, Len(s)) = SubSeq(s, 1, Len(s))
  <2>1. 1 \in 1..Len(s) + 1 /\ k \in 1 - 1..Len(s) /\ Len(s) \in k..Len(s)
    OBVIOUS
  <2> QED
    BY <2>1, ConcatAdjacentSubSeq
<1>4. SubSeq(s, 1, Len(s)) = s
  BY SubSeqFull
<1>5. k = Len(s) => SubSeq(s, k + 1, Len(s)) = <<>>
  BY SubSeqEmpty
<1> QED
  BY <1>1, <1>2, <1>3, <1>4, <1>5

LEMMA NoBytes == ASSUME NEW s \in Seq({}) PROVE s = <<>>
OBVIOUS

(* Joining sequences, without regard to how.                               *)
LEMMA Joined ==
    ASSUME NEW S, NEW a \in Seq(S), NEW b \in Seq(S), NEW c \in Seq(S)
    PROVE  (a \o b) \o c = a \o (b \o c) /\ a \o b \in Seq(S) /\ (a \o b) \o c \in Seq(S)
BY ConcatAssociative

\* The first n bytes of the body.
Ident(n) == [k \in 1..n |-> k]

LEMMA IdentMore ==
    ASSUME NEW n \in Nat, NEW S, NEW b \in Seq(S), Ident(n) \in Seq(S), \A k \in 1..Len(b) : b[k] = n + k
    PROVE  Ident(n) \o b = Ident(n + Len(b))
BY DEF Ident

-----------------------------------------------------------------------------
(* The operators of the model.                                             *)

(* A line is not longer than wanted, and ends where it has to.             *)
LEMMA LineLenFacts ==
    ASSUME NEW S, NEW s \in Seq(S), NEW n \in Int
    PROVE  /\ LineLen(s, n) \in 0..Len(s)
           /\ s # <<>> => LineLen(s, n) >= 1
           /\ \A j \in 1..LineLen(s, n) - 1 : s[j] \notin newlines
           /\ n >= 1 => LineLen(s, n) <= n
           /\ LineLen(s, n) < Len(s) => s[LineLen(s, n)] \in newlines \/ LineLen(s, n) = n
           /\ LineLen(s, n) = Len(s) /\ 1 <= n /\ n <= Len(s) => s[Len(s)] \in newlines \/ n = Len(s)
<1> DEFINE ends == {k \in 1..Len(s) : s[k] \in newlines \/ k = n}
<1>1. LineLen(s, n) = IF ends = {} THEN Len(s) ELSE CHOOSE k \in ends : \A j \in ends : k <= j
  BY DEF LineLen
<1>2. CASE ends = {}
  BY <1>1, <1>2
<1>3. CASE ends # {}
  <2>1. \E k \in ends : \A j \in ends : k <= j
    <3>1. ends \in SUBSET (1..Len(s)) /\ Len(s) \in Nat
      OBVIOUS
    <3> HIDE DEF ends
    <3> QED
      BY <1>3, <3>1, LeastExists
  <2>2. LineLen(s, n) \in ends /\ \A j \in ends : LineLen(s, n) <= j
    BY <1>1, <1>3, <2>1
  <2> HIDE DEF LineLen
  <2> QED
    BY <2>2
<1> QED
  BY <1>2, <1>3

(* What Apache gives out are the next bytes of the body, and nothing only  *)
(* at its end.                                                             *)
LEMMA BlockFacts ==
    ASSUME length \in Nat, net \in 0..length, NEW size \in Int, NEW block \in Blocks(size)
    PROVE  /\ block \in Seq(1..length) /\ Len(block) \in Nat /\ net + Len(block) \in 0..length
           /\ \A k \in 1..Len(block) : block[k] = net + k
           /\ Len(block) = 0 <=> net = length
           /\ Len(block) # 0 => Len(block) <= size
<1>1. CASE net = length
  BY <1>1 DEF Blocks
<1>2. CASE net # length
  <2>1. PICK m \in 1..MinOf(size, length - net) : block = [k \in 1..m |-> net + k]
    BY <1>2 DEF Blocks
  <2>2. m \in Nat /\ m >= 1 /\ m <= size /\ m <= length - net
    BY <2>1 DEF MinOf
  <2>3. block \in Seq(1..length) /\ Len(block) = m
    BY <2>1, <2>2
  <2> QED
    BY <1>2, <2>1, <2>2, <2>3
<1> QED
  BY <1>1, <1>2

(* The block stands at its offset, and behind the buffer it lengthens it.  *)
LEMMA WrittenFacts ==
    ASSUME NEW S, NEW b \in Seq(S), NEW at \in 0..Len(b), NEW block \in Seq(S)
    PROVE  /\ Written(b, at, block) \in Seq(S)
           /\ Len(Written(b, at, block)) = MaxOf(Len(b), at + Len(block))
           /\ at = Len(b) => Written(b, at, block) = b \o block
<1>1. MaxOf(Len(b), at + Len(block)) \in Nat
  BY DEF MaxOf
<1>2. \A k \in 1..MaxOf(Len(b), at + Len(block)) :
        (IF k > at /\ k <= at + Len(block) THEN block[k - at] ELSE b[k]) \in S
  BY DEF MaxOf
<1>3. /\ Written(b, at, block) \in Seq(S)
      /\ Len(Written(b, at, block)) = MaxOf(Len(b), at + Len(block))
  BY <1>1, <1>2 DEF Written
<1>4. ASSUME at = Len(b) PROVE Written(b, at, block) = b \o block
  <2>1. Len(Written(b, at, block)) = Len(b) + Len(block)
    BY <1>3, <1>4 DEF MaxOf
  <2>2. b \o block \in Seq(S) /\ Len(b \o block) = Len(b) + Len(block)
    OBVIOUS
  <2>3. ASSUME NEW k \in 1..Len(b) + Len(block) PROVE Written(b, at, block)[k] = (b \o block)[k]
    <3>1. Written(b, at, block)[k] = IF k > at /\ k <= at + Len(block) THEN block[k - at] ELSE b[k]
      BY <1>4 DEF Written, MaxOf
    <3>2. (b \o block)[k] = IF k <= Len(b) THEN b[k] ELSE block[k - Len(b)]
      BY ConcatProperties
    <3> QED
      BY <1>4, <3>1, <3>2
  <2> QED
    BY <1>3, <2>1, <2>2, <2>3, SeqEqual
<1> QED
  BY <1>3, <1>4

-----------------------------------------------------------------------------
(* The inductive invariant.                                                *)

\* What a call returns that has returned s, the body and rbuff being empty or not.
Fits(s, empty) ==
    /\ call.len # 0 /\ s = <<>> => empty
    /\ call.op = "read" /\ call.len > 0 => Len(s) = call.len \/ empty
    /\ call.op = "line" /\ s # <<>> =>
         /\ \A k \in 1..Len(s) - 1 : s[k] \notin newlines
         /\ s[Len(s)] \in newlines \/ Len(s) = call.len \/ empty
    /\ call.want > 0 => Len(s) <= call.want

LastFits == pc = "idle" => Fits(last, Ended)

\* rbuff holds no more than Apache gave out, and between calls that is all there is.
Buffers == /\ Len(left) <= net
           /\ pc \in {"idle", "begin"} => buffer = <<>>

\* readlines() calls readline() without an argument, then with its own.
Hinted == call.hint # NotLines => call.len \in {-1, call.hint}

\* What was wanted last, while nothing is.
Wants == pc \in {"idle", "begin"} => call.want = 0 \/ call.want >= length \/ call.want = call.len

ReadBounds == call.op = "read" => nread <= call.want /\ Len(buffer) <= call.want

\* In the loop of read() rbuff is empty.
ReadLoop ==
    pc \in {"first", "read"} =>
        /\ call.op = "read" /\ call.len # 0 /\ length > 0
        /\ left = <<>> /\ nread <= Len(buffer)
        /\ IF call.len > 0 THEN call.want = call.len ELSE call.want >= length

\* In the loop of readline() rbuff holds what this call has read, and the result is a piece
\* of a line, shorter than the line may get.
LineLoop ==
    pc = "line" =>
        /\ call.op = "line" /\ call.len # 0 /\ length > 0
        /\ nread = Len(left)
        /\ \A k \in 1..Len(buffer) : buffer[k] \notin newlines
        /\ IF call.len > 0 THEN call.want = call.len /\ Len(buffer) < call.want
           ELSE \/ call.want = length + Len(buffer)
                \/ call.want = 0 /\ net = length /\ left = <<>> /\ buffer = <<>>

\* A handler that does not mix the calls: the result, the piece of it, and rbuff are what
\* Apache gave out.
Stream == out \o (buffer \o left)
Follows ==
    Separate =>
        /\ pc \notin {"failed", "wild"} => Stream = Ident(net)
        /\ use = {"read"} => left = <<>>
        /\ pc # "idle" => (call.op = "read" <=> "read" \in use)
        /\ pc \in {"first", "read"} => nread = Len(buffer)

IInv == TypeOK /\ LastFits /\ Buffers /\ Hinted /\ Wants /\ ReadBounds /\ ReadLoop /\ LineLoop
        /\ Follows

-----------------------------------------------------------------------------
LEMMA InitIInv == Init => IInv
<1> SUFFICES ASSUME Init PROVE IInv
  OBVIOUS
<1>1. TypeOK
  BY SizeAssumption DEF Init, TypeOK, NoCall, RbuffLen, MaxOf, NotLines
<1>2. LastFits /\ Buffers /\ Hinted /\ Wants /\ ReadBounds /\ ReadLoop /\ LineLoop
  BY SizeAssumption
     DEF Init, LastFits, Fits, Buffers, Hinted, Wants, ReadBounds, ReadLoop, LineLoop, NoCall, NotLines
<1>3. Follows
  BY DEF Init, Follows, Stream, Ident
<1> QED
  BY <1>1, <1>2, <1>3 DEF IInv

\* What TypeOK says of one state, for the proofs about steps.
LEMMA Types ==
    ASSUME TypeOK
    PROVE  /\ length \in Nat /\ net \in 0..length /\ nread \in Nat
           /\ left \in Seq(1..length) /\ buffer \in Seq(1..length) /\ out \in Seq(1..length)
           /\ Len(left) \in Nat /\ Len(buffer) \in Nat
           /\ call.op \in {"read", "line"} /\ call.len \in Int /\ call.want \in Nat
           /\ RbuffLen \in Nat /\ RbuffLen >= call.want /\ RbuffLen >= 1
<1>1. /\ length \in Nat /\ net \in 0..length
      /\ left \in Seq(1..length) /\ buffer \in Seq(1..length) /\ out \in Seq(1..length)
      /\ call.op \in {"read", "line"} /\ call.len \in Int /\ call.want \in Nat
  <2>1. length \in 0..MaxLength /\ net \in 0..length
    BY DEF TypeOK
  <2>2. left \in Seq(1..length) /\ buffer \in Seq(1..length) /\ out \in Seq(1..length)
    BY DEF TypeOK
  <2>3. call \in [op : {"read", "line"}, len : Lens \cup {-1, 0}, want : Nat,
                  hint : Lens \cup {NotLines}, size : Nat]
    BY DEF TypeOK
  <2>4. call.op \in {"read", "line"} /\ call.len \in Int /\ call.want \in Nat
    <3>1. call.op \in {"read", "line"} /\ call.len \in Lens \cup {-1, 0} /\ call.want \in Nat
      BY <2>3
    <3>2. \A n \in Lens \cup {-1, 0} : n \in Int
      BY SizeAssumption
    <3> QED
      BY <3>1, <3>2
  <2> QED
    BY <2>1, <2>2, <2>4, SizeAssumption
<1>2. RbuffLen \in Nat /\ RbuffLen >= call.want /\ RbuffLen >= 1
  BY <1>1, SizeAssumption DEF RbuffLen, MaxOf
<1>3. nread \in Nat
  BY <1>2 DEF TypeOK
<1> QED
  BY <1>1, <1>2, <1>3

LEMMA AskIInv ==
    ASSUME IInv, NEW c \in [op : {"read", "line"}, len : Lens \cup {-1, 0}, want : Nat,
                            hint : Lens \cup {NotLines}, size : Nat],
           c.want = 0, c.hint # NotLines => c.len = -1, Separate => (c.op = "read" <=> "read" \in use),
           pc = "idle", call' = c, pc' = "begin", nread' = 0,
           UNCHANGED <<body, net, left, buffer, out, last>>
    PROVE  IInv'
<1>1. RbuffLen' \in Nat
  BY SizeAssumption DEF RbuffLen, MaxOf
<1>2. TypeOK'
  BY <1>1 DEF IInv, TypeOK, body
<1>3. buffer = <<>> /\ Len(buffer) = 0
  BY DEF IInv, Buffers
<1>4. LastFits' /\ Buffers' /\ Hinted' /\ Wants' /\ ReadBounds' /\ ReadLoop' /\ LineLoop'
  BY <1>3 DEF IInv, LastFits, Buffers, Hinted, Wants, ReadBounds, ReadLoop, LineLoop
<1>5. Follows'
  BY DEF IInv, Follows, Separate, Stream, body
<1> QED
  BY <1>2, <1>4, <1>5 DEF IInv

(* A call returns s, which fits.                                           *)
LEMMA ReturnIInv ==
    ASSUME IInv, NEW s \in Seq(1..length), Return(s), Fits(s, net' = length /\ left' = <<>>),
           UNCHANGED body, pc # "idle",
           net' \in 0..length, left' \in Seq(1..length), Len(left') <= net', nread' \in 0..RbuffLen,
           call.op = "read" => nread' <= call.want,
           call.want = 0 \/ call.want >= length \/ call.want = call.len,
           Separate => /\ (out \o s) \o left' = Ident(net')
                       /\ use = {"read"} => left' = <<>>
    PROVE  IInv'
<1>1. /\ out' = out \o s /\ last' = s /\ buffer' = <<>>
      /\ \/ pc' = "idle" /\ call' = call
         \/ /\ pc' = "begin" /\ call.hint # NotLines /\ call.hint \in Lens
            /\ call' = [call EXCEPT !.len = call.hint, !.size = call.size + Len(s)]
  BY DEF Return, IInv, TypeOK
<1>2. call'.op = call.op /\ call'.want = call.want /\ call'.hint = call.hint /\ RbuffLen' = RbuffLen
  BY <1>1 DEF RbuffLen, IInv, TypeOK
<1>3. call' \in [op : {"read", "line"}, len : Lens \cup {-1, 0}, want : Nat,
                 hint : Lens \cup {NotLines}, size : Nat]
  <2>1. call.size + Len(s) \in Nat
    BY SMTT(30) DEF IInv, TypeOK
  <2> QED
    BY <1>1, <2>1 DEF IInv, TypeOK
<1>4. TypeOK'
  <2>1. out' \in Seq(1..length) /\ last' \in Seq(1..length) /\ buffer' \in Seq(1..length)
    BY <1>1 DEF IInv, TypeOK
  <2>2. pc' \in {"idle", "begin"}
    BY <1>1
  <2>3. nread' \in 0..RbuffLen'
    BY <1>2
  <2> QED
    BY <1>3, <2>1, <2>2, <2>3 DEF IInv, TypeOK, body
<1>5. LastFits'
  BY <1>1 DEF LastFits, Fits, Ended, body
<1>6. Buffers' /\ ReadLoop' /\ LineLoop'
  BY <1>1 DEF Buffers, ReadLoop, LineLoop
<1>7. Hinted' /\ Wants'
  <2>1. pc' = "begin" => call'.len = call.hint
    BY <1>1 DEF IInv, TypeOK
  <2>2. call.want = call.len => call.len # -1
    BY DEF IInv, TypeOK
  <2> QED
    BY <1>1, <1>2, <2>1, <2>2 DEF IInv, Hinted, Wants, body
<1>8. ReadBounds'
  BY <1>1, <1>2, <1>3 DEF ReadBounds
<1>9. Follows'
  <2>1. ASSUME Separate PROVE out' \o (<<>> \o left') = Ident(net')
    BY <1>1, <2>1
  <2> QED
    BY <1>1, <1>2, <2>1 DEF IInv, Follows, Separate, Stream, body
<1> QED
  BY <1>4, <1>5, <1>6, <1>7, <1>8, <1>9 DEF IInv

LEMMA ReturnNothingIInv == IInv /\ ReturnNothing => IInv'
<1> SUFFICES ASSUME IInv, ReturnNothing PROVE IInv'
  OBVIOUS
<1>1. pc = "begin" /\ Return(<<>>) /\ UNCHANGED <<body, net, left, nread>>
  BY DEF ReturnNothing
<1>2. call.len # 0 => net = length /\ left = <<>>
  <2> SUFFICES ASSUME call.len # 0 PROVE net = length /\ left = <<>>
    OBVIOUS
  <2>1. length = 0
    BY DEF ReturnNothing, NothingToSend
  <2> QED
    BY <2>1 DEF IInv, TypeOK, Buffers
<1>3. Fits(<<>>, net' = length /\ left' = <<>>)
  BY <1>1, <1>2, Types DEF Fits, IInv
<1>4. Separate => (out \o <<>>) \o left = Ident(net)
  <2> SUFFICES ASSUME Separate PROVE (out \o <<>>) \o left = Ident(net)
    OBVIOUS
  <2>1. out \o (<<>> \o left) = Ident(net)
    BY <1>1 DEF IInv, Buffers, Follows, Stream
  <2> QED
    BY <2>1, Types DEF IInv
<1> QED
  BY <1>1, <1>3, <1>4, Types, ReturnIInv DEF IInv, TypeOK, Buffers, Wants, ReadBounds, Follows

LEMMA WantedFacts ==
    ASSUME IInv, call.len # 0, length > 0
    PROVE  /\ Wanted \in Nat
           /\ call.len > 0 => Wanted = call.len
           /\ call.len < 0 => \/ net = length /\ Wanted = Len(left)
                              \/ net # length /\ Wanted = length + Len(left)
BY Types DEF Wanted, Remaining, IInv

(* What stands in rbuff is taken, as far as it is wanted.                  *)
LEMMA TakenFacts ==
    ASSUME IInv, pc = "begin", NEW k \in 0..Len(left)
    PROVE  /\ Taken(k) \in Seq(1..length) /\ Len(Taken(k)) = k /\ \A i \in 1..k : Taken(k)[i] = left[i]
           /\ Behind(k) \in Seq(1..length) /\ Len(Behind(k)) = Len(left) - k
           /\ k = Len(left) => Taken(k) = left /\ Behind(k) = <<>>
           /\ Separate => /\ out \o (Taken(k) \o Behind(k)) = Ident(net)
                          /\ (out \o Taken(k)) \o Behind(k) = Ident(net)
                          /\ use = {"read"} => Behind(k) = <<>> /\ Taken(k) = <<>>
<1>1. left \in Seq(1..length) /\ out \in Seq(1..length)
  BY Types DEF IInv
<1>2. /\ Taken(k) \in Seq(1..length) /\ Len(Taken(k)) = k /\ \A i \in 1..k : Taken(k)[i] = left[i]
      /\ Behind(k) \in Seq(1..length) /\ Len(Behind(k)) = Len(left) - k
      /\ Taken(k) \o Behind(k) = left
      /\ k = Len(left) => Taken(k) = left /\ Behind(k) = <<>>
  <2> DEFINE S == 1..length
  <2>1. left \in Seq(S)
    BY <1>1
  <2> HIDE DEF S
  <2>2. SubSeq(left, 1, k) \in Seq(S) /\ Len(SubSeq(left, 1, k)) = k
    BY <2>1, Cut
  <2>3. /\ SubSeq(left, k + 1, Len(left)) \in Seq(S)
        /\ Len(SubSeq(left, k + 1, Len(left))) = Len(left) - k
    BY <2>1, Cut
  <2>4. \A i \in 1..k : SubSeq(left, 1, k)[i] = left[i]
    BY <2>1, Cut
  <2>5. SubSeq(left, 1, k) \o SubSeq(left, k + 1, Len(left)) = left
    BY <2>1, Cut
  <2>6. k = Len(left) => SubSeq(left, 1, k) = left /\ SubSeq(left, k + 1, Len(left)) = <<>>
    BY <2>1, Cut
  <2> QED
    BY <2>2, <2>3, <2>4, <2>5, <2>6 DEF Taken, Behind, S
<1>3. ASSUME Separate PROVE out \o left = Ident(net) /\ (use = {"read"} => left = <<>>)
  BY <1>1, <1>3 DEF IInv, Follows, Stream, Buffers
<1>4. (out \o Taken(k)) \o Behind(k) = out \o (Taken(k) \o Behind(k))
  <2> DEFINE S == 1..length
             a == Taken(k)
             b == Behind(k)
  <2>1. out \in Seq(S) /\ a \in Seq(S) /\ b \in Seq(S)
    BY <1>1, <1>2
  <2> HIDE DEF S, a, b
  <2>2. (out \o a) \o b = out \o (a \o b)
    BY <2>1, ConcatAssociative
  <2> QED
    BY <2>2 DEF a, b
<1>5. left = <<>> => k = Len(left)
  OBVIOUS
<1> QED
  BY <1>2, <1>3, <1>4, <1>5

LEMMA ReadIInv == IInv /\ Read => IInv'
<1> SUFFICES ASSUME IInv, Read PROVE IInv'
  OBVIOUS
<1>1. pc = "begin" /\ call.op = "read" /\ call.len # 0 /\ length > 0 /\ UNCHANGED <<body, net>>
  BY Types DEF Read, NothingToSend, IInv
<1>2. PICK k : k = MinOf(Wanted, Len(left))
  OBVIOUS
<1>3. /\ k \in 0..Len(left) /\ k <= Wanted /\ (k = Wanted \/ k = Len(left)) /\ Wanted \in Nat
  BY <1>1, <1>2, Types, WantedFacts DEF MinOf, IInv
<1>4. left' = Behind(k)
  BY <1>2 DEF Read
<1>5. CASE k = Wanted
  <2>1. Return(Taken(k)) /\ nread' = nread
    BY <1>2, <1>5 DEF Read
  <2>2. Fits(Taken(k), net' = length /\ left' = <<>>)
    <3>1. Len(Taken(k)) = k /\ (Taken(k) = <<>> => k = 0)
      BY <1>1, <1>3, TakenFacts
    <3>2. k = 0 => net = length /\ Len(left) = 0
      BY <1>1, <1>5, WantedFacts, Types DEF IInv
    <3>3. Len(left) = 0 => Behind(k) = <<>>
      BY <1>1, <1>3, TakenFacts
    <3>4. call.len > 0 => k = call.len
      BY <1>1, <1>5, WantedFacts
    <3>5. call.want > 0 => k <= call.want
      BY <1>1, <1>3, <3>4, Types DEF IInv, Buffers, Wants
    <3> QED
      BY <1>1, <1>4, <3>1, <3>2, <3>3, <3>4, <3>5 DEF Fits
  <2>3. /\ net' \in 0..length /\ nread' \in 0..RbuffLen
        /\ nread' <= call.want
        /\ call.want = 0 \/ call.want >= length \/ call.want = call.len
    BY <1>1, <2>1 DEF IInv, TypeOK, Wants, ReadBounds
  <2>4. /\ Taken(k) \in Seq(1..length) /\ left' \in Seq(1..length) /\ Len(left') <= net'
        /\ Separate => /\ (out \o Taken(k)) \o left' = Ident(net')
                       /\ use = {"read"} => left' = <<>>
    <3>1. /\ Taken(k) \in Seq(1..length) /\ Behind(k) \in Seq(1..length)
          /\ Len(Behind(k)) = Len(left) - k
      BY <1>1, <1>3, TakenFacts
    <3>2. Separate => /\ (out \o Taken(k)) \o Behind(k) = Ident(net)
                      /\ use = {"read"} => Behind(k) = <<>>
      BY <1>1, <1>3, TakenFacts
    <3>3. Len(left) - k <= net
      BY <1>3, Types DEF IInv, Buffers
    <3> QED
      BY <1>1, <1>4, <3>1, <3>2, <3>3
  <2> QED
    BY <1>1, <2>1, <2>2, <2>3, <2>4, ReturnIInv
<1>6. CASE k # Wanted
  <2>1. /\ buffer' = Taken(k) /\ nread' = 0 /\ call' = [call EXCEPT !.want = Wanted]
        /\ pc' = "first" /\ UNCHANGED <<out, last>>
    BY <1>2, <1>6 DEF Read
  <2>2. left' = <<>> /\ buffer' = left /\ k = Len(left) /\ k < Wanted
    BY <1>1, <1>3, <1>4, <1>6, <2>1, TakenFacts, Types DEF IInv
  <2>3. /\ call' \in [op : {"read", "line"}, len : Lens \cup {-1, 0}, want : Nat,
                      hint : Lens \cup {NotLines}, size : Nat]
        /\ call'.op = "read" /\ call'.len = call.len /\ call'.want = Wanted /\ call'.hint = call.hint
    BY <1>1, <1>3, <2>1 DEF IInv, TypeOK
  <2>4. TypeOK'
    <3>1. RbuffLen' \in Nat
      BY <1>3, <2>3, SizeAssumption DEF RbuffLen, MaxOf
    <3> QED
      BY <1>1, <2>1, <2>2, <2>3, <3>1 DEF IInv, TypeOK, body
  <2>5. LastFits' /\ Buffers' /\ Hinted' /\ Wants' /\ LineLoop'
    BY <1>1, <2>1, <2>2, <2>3, Types DEF IInv, LastFits, Buffers, Hinted, Wants, LineLoop
  <2>6. ReadBounds' /\ ReadLoop'
    BY <1>1, <1>3, <2>1, <2>2, <2>3, Types, WantedFacts DEF IInv, ReadBounds, ReadLoop, body
  <2>7. Follows'
    <3>1. ASSUME Separate PROVE left = <<>> /\ use = {"read"} /\ out \o (Taken(k) \o Behind(k)) = Ident(net)
      BY <1>1, <1>3, <3>1, TakenFacts DEF IInv, Follows, Separate
    <3> QED
      BY <1>1, <1>4, <2>1, <2>2, <2>3, <3>1 DEF IInv, Follows, Separate, Stream, body
  <2> QED
    BY <2>4, <2>5, <2>6, <2>7 DEF IInv
<1> QED
  BY <1>5, <1>6

LEMMA ReadlineIInv == IInv /\ Readline => IInv'
<1> SUFFICES ASSUME IInv, Readline PROVE IInv'
  OBVIOUS
<1>1. pc = "begin" /\ call.op = "line" /\ call.len # 0 /\ length > 0 /\ UNCHANGED <<body, net>>
  BY Types DEF Readline, NothingToSend, IInv
<1>2. PICK k : k = LineLen(left, Wanted)
  OBVIOUS
<1>3. /\ k \in 0..Len(left) /\ Wanted \in Nat
      /\ Len(left) # 0 => k >= 1
      /\ \A j \in 1..k - 1 : left[j] \notin newlines
      /\ Wanted >= 1 => k <= Wanted
      /\ k < Len(left) => left[k] \in newlines \/ k = Wanted
  <2>1. Wanted \in Nat /\ left \in Seq(1..length)
    BY <1>1, WantedFacts, Types DEF IInv
  <2>2. Len(left) # 0 => left # <<>>
    OBVIOUS
  <2> QED
    BY SMTT(30), <1>2, <2>1, <2>2, LineLenFacts
<1>4. left' = Behind(k)
  BY <1>2 DEF Readline
<1>5. CASE k > 0 /\ (left[k] \in newlines \/ k = Wanted)
  <2>1. Return(Taken(k)) /\ nread' = nread
    BY <1>2, <1>5 DEF Readline
  <2>2. /\ Taken(k) \in Seq(1..length) /\ Len(Taken(k)) = k /\ \A i \in 1..k : Taken(k)[i] = left[i]
        /\ Behind(k) \in Seq(1..length) /\ Len(Behind(k)) = Len(left) - k
        /\ k = Len(left) => Behind(k) = <<>>
    BY <1>1, <1>3, TakenFacts
  <2>3. Fits(Taken(k), net' = length /\ left' = <<>>)
    <3>1. Taken(k) # <<>>
      BY <1>5, <2>2
    <3>2. \A j \in 1..k - 1 : Taken(k)[j] \notin newlines
      BY <1>3, <2>2
    <3>3. Taken(k)[k] \in newlines \/ k = call.len \/ (net' = length /\ left' = <<>>)
      <4>1. CASE left[k] \in newlines
        BY <1>3, <1>5, <2>2, <4>1
      <4>2. CASE k = Wanted /\ call.len < 0
        <5>1. net = length /\ k = Len(left)
          BY <1>1, <1>3, <4>2, WantedFacts, Types DEF IInv
        <5> QED
          BY <1>1, <1>4, <2>2, <5>1
      <4>3. CASE k = Wanted /\ call.len > 0
        BY <1>1, <4>3, WantedFacts
      <4> QED
        BY <1>1, <1>5, <4>1, <4>2, <4>3, Types DEF IInv
    <3>4. call.want > 0 => k <= call.want
      <4>1. call.want > 0 => call.want >= length \/ call.want = call.len
        BY <1>1 DEF IInv, Wants
      <4>2. k <= length
        BY <1>3, Types DEF IInv, Buffers
      <4>3. call.len > 0 => k <= call.len
        BY <1>1, <1>3, WantedFacts
      <4> QED
        BY <1>3, <4>1, <4>2, <4>3, Types DEF IInv
    <3> QED
      BY <1>1, <2>2, <3>1, <3>2, <3>3, <3>4 DEF Fits
  <2>4. /\ net' \in 0..length /\ nread' \in 0..RbuffLen
        /\ call.want = 0 \/ call.want >= length \/ call.want = call.len
    BY <1>1, <2>1 DEF IInv, TypeOK, Wants
  <2>5. Separate => /\ (out \o Taken(k)) \o left' = Ident(net')
                    /\ use = {"read"} => left' = <<>>
    BY <1>1, <1>3, <1>4, TakenFacts
  <2>6. left' \in Seq(1..length) /\ Len(left') <= net'
    BY <1>1, <1>3, <1>4, <2>2, Types DEF IInv, Buffers
  <2> QED
    BY <1>1, <2>1, <2>2, <2>3, <2>4, <2>5, <2>6, ReturnIInv
<1>6. CASE ~(k > 0 /\ (left[k] \in newlines \/ k = Wanted))
  <2>1. /\ buffer' = Taken(k) /\ nread' = 0 /\ call' = [call EXCEPT !.want = Wanted]
        /\ pc' = "line" /\ UNCHANGED <<out, last>>
    BY <1>2, <1>6 DEF Readline
  <2>2. k = Len(left)
    BY <1>3, <1>6, Types DEF IInv
  <2>3. left' = <<>> /\ buffer' = left
    BY <1>1, <1>3, <1>4, <2>1, <2>2, TakenFacts
  <2>4. \A j \in 1..Len(left) : left[j] \notin newlines
    BY <1>3, <1>6, <2>2
  <2>5. /\ call' \in [op : {"read", "line"}, len : Lens \cup {-1, 0}, want : Nat,
                      hint : Lens \cup {NotLines}, size : Nat]
        /\ call'.op = "line" /\ call'.len = call.len /\ call'.want = Wanted /\ call'.hint = call.hint
    BY <1>1, <1>3, <2>1 DEF IInv, TypeOK
  <2>6. TypeOK'
    <3>1. RbuffLen' \in Nat
      BY <1>3, <2>5, SizeAssumption DEF RbuffLen, MaxOf
    <3> QED
      BY <1>1, <2>1, <2>3, <2>5, <3>1 DEF IInv, TypeOK, body
  <2>7. LastFits' /\ Buffers' /\ Hinted' /\ Wants' /\ ReadLoop' /\ ReadBounds'
    BY <1>1, <2>1, <2>3, <2>5, Types
       DEF IInv, LastFits, Buffers, Hinted, Wants, ReadLoop, ReadBounds
  <2>8. LineLoop'
    <3>1. call.len > 0 => Wanted = call.len /\ Len(left) < Wanted
      BY <1>1, <1>3, <1>6, <2>2, WantedFacts, Types DEF IInv
    <3>2. call.len < 0 => \/ Wanted = length + Len(left)
                          \/ Wanted = 0 /\ net = length /\ left = <<>>
      <4>1. Len(left) = 0 => left = <<>>
        BY Types DEF IInv
      <4> QED
        BY <1>1, <1>3, <1>6, <2>2, <4>1, WantedFacts, Types DEF IInv
    <3>3. call'.len # 0 /\ call'.op = "line" /\ length' > 0 /\ nread' = Len(left')
      BY <1>1, <2>1, <2>3, <2>5 DEF body
    <3>4. \A j \in 1..Len(buffer') : buffer'[j] \notin newlines'
      BY <1>1, <2>3, <2>4 DEF body
    <3> QED
      BY <1>1, <2>3, <2>5, <3>1, <3>2, <3>3, <3>4, Types DEF LineLoop, body, IInv
  <2>9. Follows'
    <3>1. ASSUME Separate PROVE /\ out \o (Taken(k) \o Behind(k)) = Ident(net)
                                /\ use = {"read"} => Behind(k) = <<>>
      BY <1>1, <1>3, <3>1, TakenFacts
    <3>2. Separate => (call.op = "read" <=> "read" \in use)
      BY <1>1 DEF IInv, Follows
    <3> QED
      BY <1>1, <1>4, <2>1, <2>5, <3>1, <3>2 DEF Follows, Separate, Stream, body
  <2> QED
    BY <2>6, <2>7, <2>8, <2>9 DEF IInv
<1> QED
  BY <1>5, <1>6

(* read() gets a block.                                                    *)
LEMMA ReadBlockIInv == IInv /\ ReadBlock => IInv'
<1> SUFFICES ASSUME IInv, ReadBlock PROVE IInv'
  OBVIOUS
<1>1. /\ length \in Nat /\ net \in 0..length /\ nread \in Nat
      /\ left \in Seq(1..length) /\ buffer \in Seq(1..length) /\ out \in Seq(1..length)
      /\ Len(left) \in Nat /\ Len(buffer) \in Nat
      /\ call.op \in {"read", "line"} /\ call.len \in Int /\ call.want \in Nat
      /\ RbuffLen \in Nat /\ RbuffLen >= call.want /\ RbuffLen >= 1
  BY Types DEF IInv
<1>2. /\ pc \in {"first", "read"} /\ call.op = "read" /\ call.len # 0 /\ length > 0
      /\ nread \in 0..Len(buffer) /\ nread <= call.want /\ Len(buffer) <= call.want
      /\ IF call.len > 0 THEN call.want = call.len ELSE call.want >= length
      /\ UNCHANGED body
  BY Types DEF ReadBlock, IInv, ReadLoop, ReadBounds
<1>3. left = <<>> /\ left' = <<>>
  BY DEF ReadBlock, IInv, ReadLoop
<1>4. PICK block \in Blocks(ReadSize) :
        LET b     == Written(buffer, nread, block)
            total == nread + Len(block) IN
          /\ net' = net + Len(block)
          /\ nread' = total
          /\ IF ReadDone(block)
             THEN Return(SubSeq(b, 1, total))
             ELSE buffer' = b /\ pc' = "read" /\ UNCHANGED <<call, out, last>>
  BY DEF ReadBlock
<1>5. ReadSize \in Int /\ ReadSize = call.want - nread
  BY <1>2, <1>1 DEF ReadSize
<1>6. /\ block \in Seq(1..length) /\ Len(block) \in Nat /\ net + Len(block) \in 0..length
      /\ \A k \in 1..Len(block) : block[k] = net + k
      /\ Len(block) = 0 <=> net = length
      /\ nread + Len(block) <= call.want
  <2>1. /\ block \in Seq(1..length) /\ Len(block) \in Nat /\ net + Len(block) \in 0..length
        /\ \A k \in 1..Len(block) : block[k] = net + k
        /\ Len(block) = 0 <=> net = length
        /\ Len(block) # 0 => Len(block) <= ReadSize
    BY <1>5, BlockFacts, <1>1
  <2>2. Len(block) <= call.want - nread
    BY <1>1, <1>2, <1>5, <2>1
  <2> QED
    BY <1>1, <2>1, <2>2
<1> DEFINE total == nread + Len(block)
<1>7. PICK b : b = Written(buffer, nread, block)
  OBVIOUS
<1>8. /\ b \in Seq(1..length) /\ total \in 0..Len(b) /\ Len(b) <= call.want
      /\ nread = Len(buffer) => b = buffer \o block /\ Len(b) = total
  <2>1. /\ b \in Seq(1..length) /\ Len(b) = MaxOf(Len(buffer), nread + Len(block))
        /\ nread = Len(buffer) => b = buffer \o block
    <3> DEFINE S == 1..length
    <3>1. buffer \in Seq(S) /\ block \in Seq(S) /\ nread \in 0..Len(buffer)
      BY <1>1, <1>2, <1>6
    <3> HIDE DEF S
    <3>2. b \in Seq(S) /\ Len(b) = MaxOf(Len(buffer), nread + Len(block))
      BY <1>7, <3>1, WrittenFacts
    <3>3. nread = Len(buffer) => b = buffer \o block
      BY ZenonT(30), <1>7, <3>1, WrittenFacts
    <3> QED
      BY <3>2, <3>3 DEF S
  <2>2. total \in 0..Len(b) /\ Len(b) <= call.want /\ (nread = Len(buffer) => Len(b) = total)
    <3>1. Len(b) = IF Len(buffer) > total THEN Len(buffer) ELSE total
      BY <2>1 DEF MaxOf
    <3>2. /\ total \in Nat /\ total <= call.want /\ total >= nread
          /\ Len(buffer) \in Nat /\ Len(buffer) <= call.want /\ call.want \in Nat
      BY <1>1, <1>2, <1>6
    <3> HIDE DEF total
    <3> QED
      BY <3>1, <3>2, <1>1
  <2> QED
    BY <2>1, <2>2
<1>9. net' = net + Len(block) /\ nread' = total
  BY <1>4
<1>10. ASSUME Separate
      PROVE  /\ use = {"read"} /\ nread = Len(buffer)
             /\ out \o b = Ident(net')
  <2>1. use = {"read"} /\ nread = Len(buffer) /\ Stream = Ident(net)
    BY <1>2, <1>10 DEF IInv, Follows, Separate
  <2>2. out \o buffer = Ident(net)
    BY <1>3, <2>1, <1>1 DEF Stream
  <2>3. (out \o buffer) \o block = Ident(net + Len(block))
    <3>1. out \o buffer \in Seq(1..length)
      BY <1>1
    <3>2. Ident(net) \in Seq(1..length) /\ net \in Nat
      BY <2>2, <3>1, <1>1
    <3> QED
      BY <1>6, <2>2, <3>2, IdentMore
  <2>4. (out \o buffer) \o block = out \o (buffer \o block)
    <3> DEFINE S == 1..length
    <3>1. out \in Seq(S) /\ buffer \in Seq(S) /\ block \in Seq(S)
      BY <1>6, <1>1
    <3> HIDE DEF S
    <3> QED
      BY <3>1, ConcatAssociative
  <2> QED
    BY <1>8, <1>9, <2>1, <2>3, <2>4
<1>11. CASE ReadDone(block)
  <2> DEFINE s == SubSeq(b, 1, total)
  <2>1. Return(s)
    BY <1>4, <1>7, <1>11
  <2>2. s \in Seq(1..length) /\ Len(s) = total /\ (total = Len(b) => s = b)
    <3> DEFINE S == 1..length
    <3>1. b \in Seq(S) /\ total \in 0..Len(b)
      BY <1>8
    <3> HIDE DEF S, total
    <3>2. s \in Seq(S) /\ Len(s) = total
      BY <3>1, Cut
    <3>3. total = Len(b) => s = b
      BY <3>1, Cut
    <3> QED
      BY <3>2, <3>3 DEF S
  <2>3. Fits(s, net' = length /\ left' = <<>>)
    <3>1. Len(block) = 0 => net' = length
      BY <1>1, <1>6, <1>9
    <3>2. s = <<>> => Len(block) = 0
      <4>1. s = <<>> => total = 0
        BY <2>2
      <4> QED
        BY <1>1, <1>6, <4>1
    <3>3. Len(block) = 0 \/ total = call.want
      <4>1. block = <<>> => Len(block) = 0
        OBVIOUS
      <4>2. block = <<>> \/ total >= call.want
        BY <1>11 DEF ReadDone
      <4>3. total \in Nat /\ total <= call.want /\ call.want \in Nat
        BY <1>1, <1>6
      <4> HIDE DEF total
      <4>4. total >= call.want => total = call.want
        BY <4>3
      <4> QED
        BY <4>1, <4>2, <4>4
    <3> HIDE DEF s
    <3> QED
      BY <1>1, <1>2, <1>6, <1>3, <2>2, <3>1, <3>2, <3>3 DEF Fits
  <2>4. /\ net' \in 0..length /\ left' \in Seq(1..length) /\ Len(left') <= net'
        /\ nread' \in 0..RbuffLen /\ nread' <= call.want
        /\ call.want = 0 \/ call.want >= length \/ call.want = call.len
    <3>1. Len(left') = 0 /\ left' \in Seq(1..length)
      BY <1>3
    <3>2. net' \in 0..length /\ nread' \in 0..RbuffLen /\ nread' <= call.want
      BY SMTT(30), <1>1, <1>2, <1>6, <1>9
    <3>3. call.want = 0 \/ call.want >= length \/ call.want = call.len
      BY <1>1, <1>2
    <3> QED
      BY <1>1, <3>1, <3>2, <3>3
  <2>5. Separate => /\ (out \o s) \o left' = Ident(net')
                    /\ use = {"read"} => left' = <<>>
    <3> SUFFICES ASSUME Separate PROVE (out \o s) \o <<>> = Ident(net')
      BY <1>3
    <3>1. s = b
      BY <1>8, <1>10, <2>2
    <3>2. out \o s \in Seq(1..length)
      BY <2>2, <1>1
    <3> QED
      <4>1. (out \o s) \o <<>> = out \o s
        BY <3>2
      <4> QED
        BY <1>10, <3>1, <4>1
  <2> HIDE DEF s
  <2> QED
    BY <1>2, <2>1, <2>2, <2>3, <2>4, <2>5, ReturnIInv
<1>12. CASE ~ReadDone(block)
  <2>1. buffer' = b /\ pc' = "read" /\ UNCHANGED <<call, out, last>>
    BY <1>4, <1>7, <1>12
  <2>2. RbuffLen' = RbuffLen
    BY <2>1 DEF RbuffLen
  <2>3. TypeOK'
    <3>1. nread' \in 0..RbuffLen'
      BY SMTT(30), <1>6, <1>2, <1>9, <2>2, <1>1
    <3> QED
      BY <1>2, <1>6, <1>8, <1>9, <1>3, <2>1, <3>1 DEF IInv, TypeOK, body
  <2>4. LastFits' /\ Hinted' /\ Wants' /\ LineLoop'
    BY <2>1 DEF IInv, LastFits, Hinted, Wants, LineLoop
  <2>5. Buffers' /\ ReadLoop' /\ ReadBounds'
    <3>1. Len(left') = 0 /\ left' = <<>>
      BY <1>3
    <3>2. Buffers'
      BY <1>1, <1>6, <1>9, <2>1, <3>1 DEF Buffers
    <3>3. ReadLoop'
      BY <1>1, <1>2, <1>8, <1>9, <2>1, <3>1 DEF ReadLoop, body
    <3>4. ReadBounds'
      BY <1>6, <1>8, <1>9, <2>1 DEF ReadBounds
    <3> QED
      BY <3>2, <3>3, <3>4
  <2>6. Follows'
    <3>1. ASSUME Separate PROVE out \o (b \o <<>>) = Ident(net') /\ nread' = Len(b)
      BY <1>8, <1>9, <1>10, <3>1
    <3>2. Separate => (call.op = "read" <=> "read" \in use)
      BY <1>2 DEF IInv, Follows
    <3> QED
      BY <1>2, <1>3, <2>1, <3>1, <3>2 DEF Follows, Separate, Stream, body
  <2> QED
    BY <2>3, <2>4, <2>5, <2>6 DEF IInv
<1> QED
  BY <1>11, <1>12

(* readline() gets a block.                                                *)
LEMMA LineBlockIInv == IInv /\ LineBlock => IInv'
<1> SUFFICES ASSUME IInv, LineBlock PROVE IInv'
  OBVIOUS
<1>1. /\ length \in Nat /\ net \in 0..length /\ nread \in Nat
      /\ left \in Seq(1..length) /\ buffer \in Seq(1..length) /\ out \in Seq(1..length)
      /\ Len(left) \in Nat /\ Len(buffer) \in Nat
      /\ call.op \in {"read", "line"} /\ call.len \in Int /\ call.want \in Nat
      /\ RbuffLen \in Nat /\ RbuffLen >= call.want /\ RbuffLen >= 1
  BY Types DEF IInv
<1>2. /\ pc = "line" /\ call.op = "line" /\ call.len # 0 /\ length > 0 /\ nread = Len(left)
      /\ \A j \in 1..Len(buffer) : buffer[j] \notin newlines
      /\ IF call.len > 0 THEN call.want = call.len /\ Len(buffer) < call.want
         ELSE \/ call.want = length + Len(buffer)
              \/ call.want = 0 /\ net = length /\ left = <<>> /\ buffer = <<>>
      /\ UNCHANGED body
  BY DEF LineBlock, IInv, LineLoop
<1>3. PICK block \in Blocks(LineSize) :
        LET filled == left \o block
            k      == LineLen(filled, call.want - Len(buffer)) IN
          /\ net' = net + Len(block)
          /\ nread' = nread + Len(block)
          /\ IF LineDone(block)
             THEN /\ Return(buffer \o SubSeq(filled, 1, k))
                  /\ left' = Kept(filled, k)
             ELSE left' = filled /\ UNCHANGED <<pc, call, buffer, out, last>>
  BY DEF LineBlock
<1>4. /\ block \in Seq(1..length) /\ Len(block) \in Nat /\ net + Len(block) \in 0..length
      /\ \A k \in 1..Len(block) : block[k] = net + k
      /\ Len(block) = 0 <=> net = length
      /\ nread + Len(block) <= RbuffLen
  <2>1. LineSize \in Int /\ LineSize = RbuffLen - nread /\ nread <= RbuffLen
    BY <1>1 DEF LineSize, IInv, TypeOK
  <2>2. /\ block \in Seq(1..length) /\ Len(block) \in Nat /\ net + Len(block) \in 0..length
        /\ \A k \in 1..Len(block) : block[k] = net + k
        /\ Len(block) = 0 <=> net = length
        /\ Len(block) # 0 => Len(block) <= LineSize
    BY <2>1, BlockFacts, <1>1
  <2>3. Len(block) <= RbuffLen - nread
    BY <2>1, <2>2, <1>1
  <2> QED
    BY <2>2, <2>3, <1>1
<1>5. PICK filled : filled = left \o block
  OBVIOUS
<1>6. filled \in Seq(1..length) /\ Len(filled) = nread + Len(block)
  BY <1>1, <1>2, <1>4, <1>5
<1>7. PICK m : m = call.want - Len(buffer)
  OBVIOUS
<1>8. /\ m \in Nat /\ (m = 0 => call.want = 0 /\ net = length /\ nread = 0)
      /\ call.len < 0 /\ m # 0 => m = length
  <2>1. (left = <<>> => Len(left) = 0) /\ (buffer = <<>> => Len(buffer) = 0)
    OBVIOUS
  <2>2. IF call.len > 0 THEN call.want = call.len /\ Len(buffer) < call.want
        ELSE \/ call.want = length + Len(buffer)
             \/ call.want = 0 /\ net = length /\ Len(left) = 0 /\ Len(buffer) = 0
    BY <1>2, <2>1
  <2>3. length > 0 /\ call.len # 0 /\ nread = Len(left)
    BY <1>2
  <2> QED
    BY SMTT(30), <1>1, <1>7, <2>2, <2>3
<1> DEFINE k == LineLen(filled, m)
<1>9. m \in Int
  BY <1>8
<1>10. k \in 0..Len(filled) /\ (m >= 1 => k <= m) /\ (Len(filled) # 0 => k >= 1)
  <2>1. Len(filled) # 0 => filled # <<>>
    OBVIOUS
  <2> DEFINE S == 1..length
  <2>2. filled \in Seq(S)
    BY <1>6
  <2> HIDE DEF S
  <2>3. k \in 0..Len(filled)
    BY <1>9, <2>2, LineLenFacts
  <2>4. m >= 1 => k <= m
    BY <1>9, <2>2, LineLenFacts
  <2>5. filled # <<>> => k >= 1
    BY <1>9, <2>2, LineLenFacts
  <2> QED
    BY <2>1, <2>3, <2>4, <2>5
<1>11. \A j \in 1..k - 1 : filled[j] \notin newlines
  <2> DEFINE S == 1..length
  <2>1. filled \in Seq(S)
    BY <1>6
  <2> HIDE DEF S
  <2> QED
    BY <1>9, <2>1, LineLenFacts
<1>12. k < Len(filled) => filled[k] \in newlines \/ k = m
  BY SMTT(30), <1>6, <1>8, LineLenFacts
<1>13. k = Len(filled) /\ 1 <= m /\ m <= Len(filled) => filled[Len(filled)] \in newlines \/ m = Len(filled)
  BY <1>6, <1>8, LineLenFacts
<1>14. net' = net + Len(block) /\ nread' = nread + Len(block) /\ Len(filled) <= net'
  BY <1>3, <1>2, <1>4, <1>6, <1>1 DEF IInv, Buffers
<1>15. ASSUME Separate
       PROVE  /\ use # {"read"}
              /\ (out \o buffer) \o filled = Ident(net')
  <2>1. use # {"read"} /\ Stream = Ident(net)
    BY <1>2, <1>15 DEF IInv, Follows, Separate
  <2> DEFINE S == 1..length
  <2>2. out \in Seq(S) /\ buffer \in Seq(S) /\ block \in Seq(S) /\ left \in Seq(S)
    BY <1>4, <1>1
  <2> HIDE DEF S
  <2>3. /\ (out \o buffer) \o left = out \o (buffer \o left)
        /\ out \o buffer \in Seq(S) /\ (out \o buffer) \o left \in Seq(S)
    BY SMTT(30), <2>2, Joined
  <2>4. ((out \o buffer) \o left) \o block = (out \o buffer) \o (left \o block)
    <3>1. PICK p : p = out \o buffer
      OBVIOUS
    <3>2. (p \o left) \o block = p \o (left \o block)
      BY SMTT(30), <2>2, <2>3, <3>1, Joined
    <3> QED
      BY <3>1, <3>2
  <2>5. Ident(net) \o block = Ident(net + Len(block))
    <3>1. Ident(net) \in Seq(S) /\ net \in Nat
      BY <2>1, <2>3, <1>1 DEF Stream
    <3> QED
      BY <1>4, <2>2, <3>1, IdentMore
  <2> QED
    BY <1>5, <1>14, <2>1, <2>3, <2>4, <2>5 DEF Stream
<1>16. /\ nread' = nread + Len(block)
       /\ LineDone(block) => Return(buffer \o SubSeq(filled, 1, k)) /\ left' = SubSeq(filled, k + 1, Len(filled))
       /\ ~LineDone(block) => left' = filled /\ UNCHANGED <<pc, call, buffer, out, last>>
  BY <1>3, <1>5, <1>7 DEF Kept
<1> HIDE DEF k
<1>17. CASE LineDone(block)
  <2> DEFINE a == SubSeq(filled, 1, k)
             z == SubSeq(filled, k + 1, Len(filled))
  <2>1. Return(buffer \o a) /\ left' = z
    BY <1>17, <1>16
  <2>2. /\ a \in Seq(1..length) /\ Len(a) = k /\ \A i \in 1..k : a[i] = filled[i]
        /\ z \in Seq(1..length) /\ Len(z) = Len(filled) - k
        /\ a \o z = filled
        /\ k = Len(filled) => z = <<>>
    <3> DEFINE S == 1..length
    <3>1. filled \in Seq(S) /\ k \in 0..Len(filled)
      BY <1>6, <1>10
    <3> HIDE DEF S
    <3>2. a \in Seq(S) /\ Len(a) = k /\ z \in Seq(S) /\ Len(z) = Len(filled) - k
      BY <3>1, Cut
    <3>3. \A i \in 1..k : a[i] = filled[i]
      BY <3>1, Cut
    <3>4. a \o z = filled
      BY <3>1, Cut
    <3>5. k = Len(filled) => z = <<>>
      BY <3>1, Cut
    <3> QED
      BY <3>2, <3>3, <3>4, <3>5 DEF S
  <2> HIDE DEF a, z
  <2>3. PICK s : s = buffer \o a
    OBVIOUS
  <2>4. /\ s \in Seq(1..length) /\ Len(s) = Len(buffer) + k
        /\ \A i \in 1..Len(buffer) : s[i] = buffer[i]
        /\ \A i \in 1..k : s[Len(buffer) + i] = filled[i]
    <3> DEFINE S == 1..length
    <3>1. buffer \in Seq(S) /\ a \in Seq(S) /\ Len(a) = k
      BY <1>1, <2>2
    <3> HIDE DEF S
    <3>2. s \in Seq(S) /\ Len(s) = Len(buffer) + k
      <4>1. s \in Seq(S)
        BY <2>3, <3>1
      <4>2. Len(s) = Len(buffer) + Len(a)
        BY <2>3, <3>1, ConcatProperties
      <4> QED
        BY <3>1, <4>1, <4>2
    <3>3. \A i \in 1..Len(buffer) : s[i] = buffer[i]
      BY <2>3, <3>1
    <3>4. /\ s \in Seq(1..length) /\ Len(s) = Len(buffer) + k
          /\ \A i \in 1..Len(buffer) : s[i] = buffer[i]
      BY <3>2, <3>3 DEF S
    <3>5. ASSUME NEW i \in 1..k PROVE s[Len(buffer) + i] = filled[i]
      <4>1. s[Len(buffer) + i] = a[i]
        BY <1>10, <2>3, <3>1
      <4> QED
        BY <2>2, <4>1
    <3> QED
      BY <3>4, <3>5
  <2>5. Len(block) = 0 \/ Len(filled) >= m
    <3>1. block = <<>> => Len(block) = 0
      OBVIOUS
    <3>2. block = <<>> \/ nread + Len(block) + Len(buffer) >= call.want
      BY <1>17 DEF LineDone
    <3>3. Len(filled) = nread + Len(block) /\ m = call.want - Len(buffer)
      BY <1>6, <1>7
    <3>4. /\ nread \in Nat /\ Len(block) \in Nat /\ Len(buffer) \in Nat
          /\ call.want \in Nat
      BY <1>1, <1>4
    <3>5. nread + Len(block) + Len(buffer) >= call.want => Len(filled) >= m
      BY <3>3, <3>4
    <3> QED
      BY <3>1, <3>2, <3>5
  <2>6. k = Len(filled) /\ (Len(block) = 0 \/ m < 1) => net' = length /\ left' = <<>>
    <3>1. k = Len(filled) => left' = <<>>
      BY <2>1, <2>2
    <3>2. Len(block) = 0 \/ m < 1 => net' = length
      BY <1>1, <1>4, <1>8, <1>14
    <3> QED
      BY <3>1, <3>2
  <2>7. Fits(s, net' = length /\ left' = <<>>)
    <3>1. k = 0 => net' = length /\ left' = <<>>
      BY <1>1, <1>4, <1>6, <1>10, <2>6
    <3>2. s = <<>> => k = 0
      <4>1. s = <<>> => Len(s) = 0
        OBVIOUS
      <4>2. Len(s) = Len(buffer) + k /\ k \in Nat /\ Len(buffer) \in Nat
        BY <1>1, <1>10, <2>4
      <4>3. \A i, j \in Nat : i + j = 0 => j = 0
        OBVIOUS
      <4> QED
        BY <4>1, <4>2, <4>3
    <3>3. ASSUME NEW j \in 1..Len(s) - 1 PROVE s[j] \notin newlines
      <4>1. CASE j <= Len(buffer)
        <5>1. j \in 1..Len(buffer)
          BY <4>1, <1>1
        <5> QED
          BY <1>2, <2>4, <5>1
      <4>2. CASE j > Len(buffer)
        <5>1. PICK i \in 1..k - 1 : j = Len(buffer) + i
          <6>1. j - Len(buffer) \in 1..k - 1 /\ j = Len(buffer) + (j - Len(buffer))
            BY <1>1, <1>10, <2>4, <4>2
          <6> QED
            BY <6>1
        <5>2. i \in 1..k
          BY <1>10
        <5>3. s[j] = filled[i]
          BY <2>4, <5>1, <5>2
        <5> QED
          BY <1>11, <5>3
      <4> QED
        BY <1>1, <4>1, <4>2
    <3>4. k # 0 => s[Len(s)] = filled[k]
      <4>1. k # 0 => k \in 1..k
        BY <1>10
      <4> QED
        BY <2>4, <4>1
    <3>5. k # 0 => \/ filled[k] \in newlines \/ Len(s) = call.len
                   \/ net' = length /\ left' = <<>>
      <4>1. CASE k = m
        <5>1. CASE call.len > 0
          BY <1>1, <1>2, <1>7, <2>4, <4>1, <5>1
        <5>2. CASE call.len < 0 /\ m # 0
          <6>1. k = Len(filled) /\ net' = length
            BY <1>1, <1>4, <1>8, <1>10, <1>14, <4>1, <5>2
          <6> QED
            BY <2>1, <2>2, <6>1
        <5> QED
          BY <1>1, <1>2, <4>1, <5>1, <5>2
      <4>2. CASE k < Len(filled) /\ k # m
        BY <1>12, <4>2
      <4>3. CASE k = Len(filled) /\ k # m
        <5>1. CASE Len(block) = 0 \/ m < 1
          BY <2>6, <4>3, <5>1
        <5>2. CASE ~(Len(block) = 0 \/ m < 1)
          BY <1>6, <1>8, <1>13, <2>5, <4>3, <5>2
        <5> QED
          BY <5>1, <5>2
      <4> QED
        BY <1>10, <4>1, <4>2, <4>3
    <3>6. call.want > 0 => Len(s) <= call.want
      <4>1. Len(s) = Len(buffer) + k /\ k \in Nat /\ Len(buffer) \in Nat /\ call.want \in Nat
        BY <1>1, <1>10, <2>4
      <4>2. m = call.want - Len(buffer) /\ m \in Nat /\ (m = 0 => call.want = 0) /\ (m >= 1 => k <= m)
        BY <1>7, <1>8, <1>10
      <4> QED
        BY <4>1, <4>2
    <3> QED
      BY <1>2, <3>1, <3>2, <3>3, <3>4, <3>5, <3>6 DEF Fits
  <2>8. /\ net' \in 0..length /\ left' \in Seq(1..length) /\ Len(left') <= net'
        /\ nread' \in 0..RbuffLen
        /\ call.want = 0 \/ call.want >= length \/ call.want = call.len
    <3>1. left' \in Seq(1..length) /\ Len(left') <= Len(filled)
      BY <1>6, <1>10, <2>1, <2>2
    <3>2. net' \in 0..length /\ nread' \in 0..RbuffLen /\ Len(filled) <= net'
      BY <1>1, <1>4, <1>14
    <3>3. call.want = 0 \/ call.want >= length \/ call.want = call.len
      <4>1. \/ call.want = call.len \/ call.want = length + Len(buffer) \/ call.want = 0
        BY <1>2
      <4> QED
        BY <1>1, <4>1
    <3> QED
      BY <1>6, <3>1, <3>2, <3>3, <1>1
  <2>9. Separate => /\ (out \o s) \o left' = Ident(net')
                    /\ use = {"read"} => left' = <<>>
    <3> DEFINE S == 1..length
    <3>1. out \in Seq(S) /\ buffer \in Seq(S) /\ a \in Seq(S) /\ z \in Seq(S)
      BY <2>2, <1>1
    <3> HIDE DEF S
    <3>2. out \o (buffer \o a) = (out \o buffer) \o a /\ out \o buffer \in Seq(S)
      <4>1. out \o buffer \in Seq(S)
        BY <3>1
      <4>2. (out \o buffer) \o a = out \o (buffer \o a)
        BY <3>1, Joined
      <4> QED
        BY <4>1, <4>2
    <3>3. ((out \o buffer) \o a) \o z = (out \o buffer) \o (a \o z)
      BY SMTT(30), <3>1, <3>2, Joined
    <3> QED
      BY <1>15, <2>1, <2>2, <2>3, <3>2, <3>3
  <2> QED
    BY <1>2, <2>1, <2>3, <2>4, <2>7, <2>8, <2>9, ReturnIInv
<1>18. CASE ~LineDone(block)
  <2>1. left' = filled /\ UNCHANGED <<pc, call, buffer, out, last>>
    BY <1>18, <1>16
  <2>2. RbuffLen' = RbuffLen
    BY <2>1 DEF RbuffLen
  <2>3. TypeOK'
    <3>1. nread' \in 0..RbuffLen'
      BY <1>4, <1>14, <2>2, <1>1
    <3> QED
      BY <1>2, <1>4, <1>6, <1>14, <2>1, <3>1 DEF IInv, TypeOK, body
  <2>4. LastFits' /\ Hinted' /\ Wants' /\ ReadLoop' /\ ReadBounds' /\ Buffers'
    BY <1>2, <1>14, <2>1 DEF IInv, LastFits, Hinted, Wants, ReadLoop, ReadBounds, Buffers
  <2>5. LineLoop'
    <3>1. Len(block) # 0
      <4>1. block # <<>>
        BY <1>18 DEF LineDone
      <4> QED
        BY <1>4, <4>1
    <3>2. net # length
      BY <1>4, <3>1
    <3> QED
      BY <1>1, <1>2, <1>6, <1>14, <2>1, <3>2 DEF LineLoop, body
  <2>6. Follows'
    <3>1. ASSUME Separate PROVE out \o (buffer \o filled) = Ident(net') /\ use # {"read"}
      <4> DEFINE S == 1..length
      <4>1. out \in Seq(S) /\ buffer \in Seq(S) /\ filled \in Seq(S)
        BY <1>6, <1>1
      <4> HIDE DEF S
      <4>2. (out \o buffer) \o filled = out \o (buffer \o filled)
        BY <4>1, ConcatAssociative
      <4> QED
        BY <1>15, <3>1, <4>2
    <3>2. Separate => (call.op = "read" <=> "read" \in use)
      BY <1>2 DEF IInv, Follows
    <3> QED
      BY <1>2, <2>1, <3>1, <3>2 DEF Follows, Separate, Stream, body
  <2> QED
    BY <2>3, <2>4, <2>5, <2>6 DEF IInv
<1> QED
  BY <1>17, <1>18

(* ap_get_client_block() fails.                                            *)
LEMMA FailsIInv == IInv /\ (ReadFailsFirst \/ BlockFails) => IInv'
<1> SUFFICES ASSUME IInv, ReadFailsFirst \/ BlockFails PROVE IInv'
  OBVIOUS
<1>1. /\ pc' \in {"failed", "wild"} /\ UNCHANGED <<body, call, net, out, last>>
      /\ left' \in {<<>>, left} /\ \/ buffer' = buffer /\ nread' = nread
                                   \/ buffer' = <<>> /\ nread' = 0
  BY DEF ReadFailsFirst, BlockFails
<1>2. length \in Nat /\ net \in 0..length /\ call.want \in Nat /\ RbuffLen \in Nat
  BY Types DEF IInv
<1>3. RbuffLen' = RbuffLen
  BY <1>1 DEF RbuffLen
<1>4. TypeOK'
  <2>1. left' \in Seq(1..length) /\ buffer' \in Seq(1..length) /\ nread' \in 0..RbuffLen
    <3>1. /\ left \in Seq(1..length) /\ buffer \in Seq(1..length) /\ <<>> \in Seq(1..length)
          /\ nread \in 0..RbuffLen /\ 0 \in 0..RbuffLen
      BY <1>2 DEF IInv, TypeOK
    <3> QED
      BY <1>1, <3>1
  <2> QED
    BY <1>1, <1>3, <2>1 DEF IInv, TypeOK, body
<1>5. LastFits' /\ Hinted' /\ Wants' /\ ReadLoop' /\ LineLoop'
  BY <1>1 DEF IInv, LastFits, Hinted, Wants, ReadLoop, LineLoop
<1>6. Buffers' /\ ReadBounds'
  <2>1. Len(<<>>) = 0
    OBVIOUS
  <2>2. Len(left') <= net'
    <3>1. CASE left' = left
      BY <1>1, <3>1 DEF IInv, Buffers
    <3>2. CASE left' = <<>>
      BY <1>1, <1>2, <2>1, <3>2
    <3> QED
      BY <1>1, <3>1, <3>2
  <2>3. call.op = "read" => nread' <= call.want /\ Len(buffer') <= call.want
    <3>1. CASE buffer' = buffer /\ nread' = nread
      BY <3>1 DEF IInv, ReadBounds
    <3>2. CASE buffer' = <<>> /\ nread' = 0
      BY <1>2, <2>1, <3>2
    <3> QED
      BY <1>1, <3>1, <3>2
  <2> QED
    BY <1>1, <2>2, <2>3 DEF Buffers, ReadBounds
<1>7. Follows'
  <2>1. Separate => (call.op = "read" <=> "read" \in use) /\ (use = {"read"} => left = <<>>)
    BY DEF IInv, Follows, ReadFailsFirst, BlockFails
  <2> QED
    BY <1>1, <2>1 DEF Follows, Separate, body
<1> QED
  BY <1>4, <1>5, <1>6, <1>7 DEF IInv

(* The handler calls read(), readline() or readlines().                    *)
LEMMA CallsIInv ==
    ASSUME IInv, \/ \E op \in {"read", "line"}, n \in Lens : Ask(op, n)
                 \/ \E hint \in Lens : AskLines(hint)
    PROVE  IInv'
<1> USE DEF NoCall, NotLines
<1>1. CASE \E op \in {"read", "line"}, n \in Lens : Ask(op, n)
  <2>1. PICK op \in {"read", "line"} : \E n \in Lens : Ask(op, n)
    BY <1>1
  <2>2. PICK n \in Lens : Ask(op, n)
    BY <2>1
  <2> DEFINE c == [NoCall EXCEPT !.op = op, !.len = n]
  <2>3. /\ c \in [op : {"read", "line"}, len : Lens \cup {-1, 0}, want : Nat,
                  hint : Lens \cup {NotLines}, size : Nat]
        /\ c.want = 0 /\ c.hint = NotLines /\ c.op = op
    OBVIOUS
  <2>4. Separate => (op = "read" <=> "read" \in use)
    BY <2>2 DEF Ask, Separate
  <2>5. /\ pc = "idle" /\ call' = c /\ pc' = "begin" /\ nread' = 0
        /\ UNCHANGED <<body, net, left, buffer, out, last>>
    BY <2>2 DEF Ask
  <2> HIDE DEF c, NoCall, NotLines
  <2> QED
    BY <2>3, <2>4, <2>5, AskIInv
<1>2. CASE \E hint \in Lens : AskLines(hint)
  <2>1. PICK hint \in Lens : AskLines(hint)
    BY <1>2
  <2> DEFINE c == [NoCall EXCEPT !.op = "line", !.len = -1, !.hint = hint]
  <2>2. /\ c \in [op : {"read", "line"}, len : Lens \cup {-1, 0}, want : Nat,
                  hint : Lens \cup {NotLines}, size : Nat]
        /\ c.want = 0 /\ c.len = -1 /\ c.op = "line"
    OBVIOUS
  <2>3. Separate => "read" \notin use
    <3>1. "lines" \in use
      BY <2>1 DEF AskLines
    <3>2. use # {"read"}
      BY <3>1
    <3> QED
      BY <3>2 DEF Separate
  <2>4. /\ pc = "idle" /\ call' = c /\ pc' = "begin" /\ nread' = 0
        /\ UNCHANGED <<body, net, left, buffer, out, last>>
    BY <2>1 DEF AskLines
  <2> HIDE DEF c, NoCall, NotLines
  <2> QED
    BY <2>2, <2>3, <2>4, AskIInv
<1> QED
  BY <1>1, <1>2

LEMMA NextIInv == IInv /\ [Next]_vars => IInv'
<1> SUFFICES ASSUME IInv, [Next]_vars PROVE IInv'
  OBVIOUS
<1>1. CASE UNCHANGED vars
  <2>1. TypeOK'
    BY <1>1 DEF vars, IInv, TypeOK, RbuffLen
  <2>2. LastFits' /\ Buffers' /\ Hinted' /\ Wants' /\ ReadBounds'
    BY <1>1 DEF vars, IInv, LastFits, Fits, Ended, Buffers, Hinted, Wants, ReadBounds
  <2>3. ReadLoop' /\ LineLoop'
    BY <1>1 DEF vars, IInv, ReadLoop, LineLoop
  <2>4. Follows'
    BY <1>1 DEF vars, IInv, Follows, Separate, Stream
  <2> QED
    BY <2>1, <2>2, <2>3, <2>4 DEF IInv
<1>2. CASE \/ \E op \in {"read", "line"}, n \in Lens : Ask(op, n)
           \/ \E hint \in Lens : AskLines(hint)
  BY <1>2, CallsIInv
<1>3. CASE ReturnNothing
  BY <1>3, ReturnNothingIInv
<1>4. CASE Read
  BY <1>4, ReadIInv
<1>5. CASE Readline
  BY <1>5, ReadlineIInv
<1>6. CASE ReadBlock
  BY <1>6, ReadBlockIInv
<1>7. CASE LineBlock
  BY <1>7, LineBlockIInv
<1>8. CASE ReadFailsFirst \/ BlockFails
  BY <1>8, FailsIInv
<1> QED
  BY <1>1, <1>2, <1>3, <1>4, <1>5, <1>6, <1>7, <1>8 DEF Next

(* The invariant above holds in every reachable state: the loops keep      *)
(* within the result and within rbuff, whatever is asked for.              *)
THEOREM InvariantHolds == Spec => []IInv
<1>1. Init => IInv
  BY InitIInv
<1>2. IInv /\ [Next]_vars => IInv'
  BY NextIInv
<1> QED
  BY <1>1, <1>2, PTL DEF Spec

(* A handler that keeps to read(), or to readline() and readlines(), gets  *)
(* every byte of the body once and in order, with any lengths, any cuts of *)
(* the body into blocks and any size of rbuff; an empty result means that  *)
(* the body has ended.                                                     *)
THEOREM BodyKept == Spec => []NothingLost
<1>1. IInv => NothingLost
  <2> SUFFICES ASSUME IInv, Separate, pc = "idle"
               PROVE  Whole /\ (call.len # 0 /\ last = <<>> => Ended)
    BY DEF NothingLost
  <2>1. out \o (<<>> \o left) = Ident(net)
    BY DEF IInv, Buffers, Follows, Stream
  <2>2. <<>> \o left = left
    BY Types DEF IInv
  <2>3. Whole
    BY <2>1, <2>2 DEF Whole, Ident
  <2>4. call.len # 0 /\ last = <<>> => Ended
    BY DEF IInv, LastFits, Fits
  <2> QED
    BY <2>3, <2>4
<1> QED
  BY <1>1, InvariantHolds, PTL

(* What a call returns is neither cut short nor too long, a line ends only *)
(* where a line has to, and nothing is written behind the result or behind *)
(* rbuff, also when the handler mixes the calls.                           *)
THEOREM Cuts == Spec => []FullResults
<1>1. IInv => FullResults
  <2> SUFFICES ASSUME IInv PROVE FullResults
    OBVIOUS
  <2>1. ReadFull
    BY DEF IInv, ReadFull, LastFits, Fits
  <2>2. WholeLines
    BY DEF IInv, WholeLines, LastFits, Fits, Last
  <2>3. InBounds
    <3>1. nread \in 0..RbuffLen
      BY DEF IInv, TypeOK
    <3>2. nread <= RbuffLen
      BY <3>1, Types DEF IInv
    <3> QED
      BY <3>2 DEF IInv, InBounds, LastFits, Fits, ReadBounds
  <2> QED
    BY <2>1, <2>2, <2>3 DEF FullResults
<1> QED
  BY <1>1, InvariantHolds, PTL

-----------------------------------------------------------------------------
(* The filter: what FlattenSeq makes of the buckets of a brigade.          *)

\* f is what FlattenSeq computes for the beginnings of s.
JoinsBy(f, s) == f[1] = s[1] /\ \A n \in 1..Len(s) - 1 : f[n + 1] = f[n] \o s[n + 1]

LEMMA FlattenIsComputed ==
    ASSUME NEW V, NEW s \in Seq(Seq(V)), s # <<>>
    PROVE  \E f \in [1..Len(s) -> Seq(V)] : JoinsBy(f, s) /\ FlattenSeq(s) = f[Len(s)]
<1> DEFINE D == Seq(V)
           N == Len(s) - 1
           a == s[1]
           G == [n \in 0..N - 1 |-> [d \in D |-> d \o s[n + 2]]]
           Rec(f, i) == IF i = 1 THEN s[i] ELSE f[i - 1] \o s[i]
           Is(f) == f = [i \in 1..Len(s) |-> Rec(f, i)]
<1>1. N \in Nat /\ Len(s) \in Nat /\ Len(s) = N + 1 /\ Len(s) # 0 /\ \A i \in 1..Len(s) : s[i] \in D
  OBVIOUS
<1>2. a \in D
  BY <1>1
<1>3. \A d \in D, e \in D : d \o e \in D
  BY ConcatProperties
<1>4. G \in [0..N - 1 -> [D -> D]]
  <2>1. \A n \in 0..N - 1 : s[n + 2] \in D
    <3> HIDE DEF N, D
    <3> QED
      BY <1>1
  <2> HIDE DEF D, N
  <2> QED
    BY <1>3, <2>1
<1>5. PICK h \in [0..N -> D] : Computes(h, N, a, G)
  <2> HIDE DEF G, D, a, N
  <2> QED
    BY <1>1, <1>2, <1>4, Recursion
<1> HIDE DEF N, D
<1>6. h[0] = s[1] /\ \A n \in 0..N - 1 : h[n + 1] = h[n] \o s[n + 2]
  <2>1. \A n \in 0..N - 1 : n \in 0..N
    BY <1>1
  <2> QED
    BY <1>5, <2>1 DEF Computes
<1> HIDE DEF G
<1> DEFINE g == [i \in 1..Len(s) |-> h[i - 1]]
<1>7. g \in [1..Len(s) -> D]
  BY <1>1
<1>8. g[1] = s[1] /\ \A n \in 1..Len(s) - 1 : g[n + 1] = g[n] \o s[n + 1]
  <2>1. g[1] = s[1]
    BY <1>1, <1>6
  <2>2. ASSUME NEW n \in 1..Len(s) - 1 PROVE g[n + 1] = g[n] \o s[n + 1]
    <3> DEFINE k == n - 1
    <3>1. k \in 0..N - 1 /\ n \in 1..Len(s) /\ n + 1 \in 1..Len(s) /\ k = n - 1 /\ k + 1 = (n + 1) - 1
          /\ k + 2 = n + 1
      BY <1>1
    <3> HIDE DEF k
    <3>2. h[k + 1] = h[k] \o s[k + 2]
      BY <1>6, <3>1
    <3>3. g[n + 1] = h[k + 1] /\ g[n] = h[k]
      BY <3>1
    <3> QED
      BY <3>1, <3>2, <3>3
  <2> QED
    BY <2>1, <2>2
<1>9. Is(g)
  <2>1. ASSUME NEW i \in 1..Len(s) PROVE g[i] = Rec(g, i)
    <3>1. CASE i = 1
      BY <1>8, <3>1
    <3>2. CASE i # 1
      <4> DEFINE k == i - 1
      <4>1. k \in 1..Len(s) - 1 /\ k + 1 = i /\ k = i - 1
        BY <1>1, <3>2
      <4> HIDE DEF k, g
      <4> QED
        BY <1>8, <3>2, <4>1
    <3> QED
      BY <3>1, <3>2
  <2>2. g = [i \in 1..Len(s) |-> g[i]]
    OBVIOUS
  <2> HIDE DEF Rec, g
  <2> QED
    BY <2>1, <2>2
<1> HIDE DEF g
<1> DEFINE f == CHOOSE c : Is(c)
<1>10. Is(f) /\ FlattenSeq(s) = f[Len(s)]
  <2>1. Is(f)
    <3> HIDE DEF Is
    <3> QED
      BY <1>9
  <2>2. FlattenSeq(s) = f[Len(s)]
    BY <1>1 DEF FlattenSeq
  <2> QED
    BY <2>1, <2>2
<1> HIDE DEF f
<1>11. ASSUME NEW i \in 1..Len(s) PROVE f[i] = Rec(f, i)
  BY <1>10
<1>12. f[1] = s[1] /\ \A n \in 1..Len(s) - 1 : f[n + 1] = f[n] \o s[n + 1]
  <2>1. f[1] = s[1]
    BY <1>1, <1>11
  <2>2. ASSUME NEW n \in 1..Len(s) - 1 PROVE f[n + 1] = f[n] \o s[n + 1]
    <3>1. n + 1 \in 1..Len(s) /\ n + 1 # 1 /\ (n + 1) - 1 = n
      BY <1>1
    <3> QED
      BY <1>11, <3>1
  <2> QED
    BY <2>1, <2>2
<1>13. ASSUME NEW i \in 1..Len(s) PROVE f[i] = g[i]
  <2> DEFINE T == {j \in Nat : j + 1 <= Len(s) => f[j + 1] = g[j + 1]}
  <2>1. 0 \in T
    BY <1>8, <1>12
  <2>2. ASSUME NEW j \in 0..N - 1, j \in T PROVE j + 1 \in T
    <3>1. j \in Nat /\ j + 1 \in Nat /\ j + 1 <= Len(s) /\ j + 1 \in 1..Len(s) - 1
      BY <1>1
    <3>2. f[j + 1] = g[j + 1]
      BY <2>2, <3>1
    <3>3. f[(j + 1) + 1] = g[(j + 1) + 1]
      BY <1>8, <1>12, <3>1, <3>2
    <3> QED
      BY <3>1, <3>3
  <2>3. i - 1 \in 0..N /\ (i - 1) + 1 = i
    BY <1>1
  <2>4. i - 1 \in T
    <3> HIDE DEF T
    <3> QED
      BY <1>1, <2>1, <2>2, <2>3, InductionUpTo
  <2> QED
    BY <2>3, <2>4
<1>14. f \in [1..Len(s) -> D]
  <2>1. \A i \in 1..Len(s) : f[i] \in D
    BY <1>7, <1>13
  <2>2. f = [i \in 1..Len(s) |-> Rec(f, i)]
    BY <1>10
  <2>3. f = [i \in 1..Len(s) |-> f[i]]
    <3> HIDE DEF Rec
    <3> QED
      BY <2>2
  <2> QED
    BY <2>1, <2>3
<1> QED
  BY <1>10, <1>12, <1>14 DEF JoinsBy, D

LEMMA FlattenEmpty == FlattenSeq(<<>>) = <<>>
BY DEF FlattenSeq

LEMMA FlattenType == ASSUME NEW V, NEW s \in Seq(Seq(V)) PROVE FlattenSeq(s) \in Seq(V)
<1>1. CASE s = <<>>
  <2>1. FlattenSeq(s) = <<>>
    BY <1>1, FlattenEmpty
  <2>2. <<>> \in Seq(V)
    OBVIOUS
  <2> QED
    BY <2>1, <2>2
<1>2. CASE s # <<>>
  <2>1. PICK f \in [1..Len(s) -> Seq(V)] : FlattenSeq(s) = f[Len(s)]
    BY <1>2, FlattenIsComputed
  <2>2. Len(s) \in 1..Len(s)
    BY <1>2
  <2> QED
    BY <2>1, <2>2
<1> QED
  BY <1>1, <1>2

LEMMA FlattenAppend ==
    ASSUME NEW V, NEW s \in Seq(Seq(V)), NEW x \in Seq(V)
    PROVE  FlattenSeq(Append(s, x)) = FlattenSeq(s) \o x
<1> DEFINE t == Append(s, x)
           W == Seq(V)
           g0 == FlattenSeq(t)
<1>1. t \in Seq(W) /\ Len(t) = Len(s) + 1 /\ t[Len(s) + 1] = x /\ Len(s) \in Nat /\ \A n \in 1..Len(s) : t[n] = s[n]
      /\ t # <<>>
  <2>1. s \in Seq(W) /\ x \in W
    OBVIOUS
  <2> HIDE DEF W
  <2> QED
    BY SMTT(30), <2>1
<1> HIDE DEF t
<1>2. PICK g \in [1..Len(t) -> Seq(V)] : JoinsBy(g, t) /\ FlattenSeq(t) = g[Len(t)]
  BY <1>1, FlattenIsComputed DEF W
<1>3. CASE s = <<>>
  <2>1. Len(s) = 0 /\ Len(t) = 1 /\ t[1] = x
    BY <1>1, <1>3
  <2>2. FlattenSeq(t) = x
    BY <1>2, <2>1 DEF JoinsBy
  <2>3. FlattenSeq(s) \o x = x
    BY <1>3, FlattenEmpty, ConcatEmptySeq
  <2> QED
    BY <2>2, <2>3 DEF t
<1>4. CASE s # <<>>
  <2>1. PICK f \in [1..Len(s) -> Seq(V)] : JoinsBy(f, s) /\ FlattenSeq(s) = f[Len(s)]
    BY <1>4, FlattenIsComputed
  <2>2. Len(s) >= 1
    BY <1>4
  <2> DEFINE T == {j \in Nat : j + 1 <= Len(s) => f[j + 1] = g[j + 1]}
             N == Len(s) - 1
  <2>3. 0 \in T
    BY <1>1, <1>2, <2>1, <2>2 DEF JoinsBy
  <2>4. ASSUME NEW j \in 0..N - 1, j \in T PROVE j + 1 \in T
    <3>1. j \in Nat /\ j + 1 \in Nat /\ j + 1 <= Len(s) /\ j + 1 \in 1..Len(s) - 1 /\ j + 1 \in 1..Len(t) - 1
          /\ (j + 1) + 1 \in 1..Len(s)
      BY <1>1
    <3>2. f[j + 1] = g[j + 1] /\ t[(j + 1) + 1] = s[(j + 1) + 1]
      BY <1>1, <2>4, <3>1
    <3>3. f[(j + 1) + 1] = g[(j + 1) + 1]
      BY <1>2, <2>1, <3>1, <3>2 DEF JoinsBy
    <3> QED
      BY <3>1, <3>3
  <2>5. N \in T
    <3>1. N \in Nat /\ N \in 0..N
      BY <1>1, <2>2
    <3> HIDE DEF T, N
    <3> QED
      BY <2>3, <2>4, <3>1, InductionUpTo
  <2>6. f[Len(s)] = g[Len(s)]
    BY <1>1, <2>2, <2>5
  <2>7. Len(s) \in 1..Len(t) - 1
    BY <1>1, <2>2
  <2>8. g[Len(s) + 1] = g[Len(s)] \o t[Len(s) + 1]
    BY <1>2, <2>7 DEF JoinsBy
  <2>9. FlattenSeq(t) = FlattenSeq(s) \o x
    BY <1>1, <1>2, <2>1, <2>6, <2>8
  <2> QED
    BY <2>9 DEF t
<1> QED
  BY <1>3, <1>4

LEMMA FlattenConcat ==
    ASSUME NEW V, NEW s \in Seq(Seq(V)), NEW t \in Seq(Seq(V))
    PROVE  FlattenSeq(s \o t) = FlattenSeq(s) \o FlattenSeq(t)
<1> DEFINE W == Seq(V)
           T == {u \in Seq(W) : FlattenSeq(s \o u) = FlattenSeq(s) \o FlattenSeq(u)}
<1>0. s \in Seq(W) /\ t \in Seq(W)
  OBVIOUS
<1>1. <<>> \in T
  <2>1. s \o <<>> = s /\ <<>> \in Seq(W)
    BY <1>0, ConcatEmptySeq
  <2>2. FlattenSeq(s) \o <<>> = FlattenSeq(s)
    BY FlattenType, ConcatEmptySeq
  <2> QED
    BY <2>1, <2>2, FlattenEmpty
<1>2. ASSUME NEW r \in Seq(W), NEW x \in W, r \in T PROVE Append(r, x) \in T
  <2> DEFINE w == s \o r
             a == FlattenSeq(s)
             b == FlattenSeq(r)
  <2>1. w \in Seq(W) /\ s \o Append(r, x) = Append(w, x)
    <3> HIDE DEF W
    <3> QED
      BY <1>0, ConcatProperties, AppendJoined
  <2>2. a \in Seq(V) /\ b \in Seq(V) /\ x \in Seq(V)
    BY FlattenType
  <2>3. FlattenSeq(Append(w, x)) = FlattenSeq(w) \o x
    <3> HIDE DEF w
    <3> QED
      BY <2>1, FlattenAppend
  <2>4. FlattenSeq(Append(r, x)) = b \o x
    BY FlattenAppend
  <2>5. FlattenSeq(w) = a \o b
    BY <1>2
  <2>6. (a \o b) \o x = a \o (b \o x)
    <3> HIDE DEF a, b
    <3> QED
      BY SMTT(30), <2>2, ConcatAssociative
  <2>7. Append(r, x) \in Seq(W)
    <3> HIDE DEF W
    <3> QED
      OBVIOUS
  <2>8. FlattenSeq(s \o Append(r, x)) = a \o FlattenSeq(Append(r, x))
    <3> HIDE DEF a, b, w, W
    <3> QED
      BY <2>1, <2>3, <2>4, <2>5, <2>6
  <2> QED
    BY <2>7, <2>8
<1>3. t \in T
  <2> HIDE DEF T, W
  <2> QED
    BY <1>0, <1>1, <1>2, SequenceInduction
<1> QED
  BY <1>3

LEMMA FlattenOne == ASSUME NEW V, NEW x \in Seq(V) PROVE FlattenSeq(<<x>>) = x
<1>1. <<x>> = Append(<<>>, x) /\ <<>> \in Seq(Seq(V))
  OBVIOUS
<1>2. FlattenSeq(<<x>>) = FlattenSeq(<<>>) \o x
  BY <1>1, FlattenAppend
<1> QED
  BY <1>2, FlattenEmpty, ConcatEmptySeq

-----------------------------------------------------------------------------
(* The filter: what holds in every state.                                  *)

Byte   == 1..FilterBytes
Bucket == Seq(Byte) \ {<<>>}
Item   == Bucket \cup {<<F!Eos>>, <<F!Flush>>}
InCall == filterPc \in {"handler", "reading", "raised"}

ConfSet == [input : BOOLEAN, copy : BOOLEAN, debug : BOOLEAN, here : BOOLEAN, newlines : FilterNewlines,
            keeps : BOOLEAN]
CtxSet  == [made : BOOLEAN, named : BOOLEAN, transparent : BOOLEAN]
RdSet   == [line : BOOLEAN, len : Int, size : Int, out : Seq(Byte)]
GotSet  == [is : {"unread", "eof", "data"}, data : Seq(Byte)]

FilterType ==
    /\ conf \in ConfSet /\ ctx \in CtxSet /\ rd \in RdSet /\ got \in GotSet
    /\ registered \in BOOLEAN /\ closed \in BOOLEAN
    /\ failed \in BOOLEAN /\ clean \in BOOLEAN /\ ended \in BOOLEAN
    /\ given \in 0..FilterBytes
    /\ filterPc \in {"open", "idle", "handler", "reading", "raised"}
    /\ rc \in {"ok", "again", "fail"} /\ ret \in {"ok", "again", "fail", "error"}
    /\ bbIn \in Seq(Item) /\ bbOut \in Seq(Int)
    /\ passed \in Seq(Int) /\ written \in Seq(Int)

\* What read() returns: as many bytes as asked for, or what fits; there is room in the loop.
Reads ==
    /\ rd.len >= 0 => rd.size = rd.len /\ Len(rd.out) <= rd.len
    /\ rd.len < 0 => Len(rd.out) <= rd.size
    /\ rd.len < 0 /\ filterPc = "reading" => Len(rd.out) < rd.size

\* A failure is the status of the filter object, and of the call when it returns.
Failing ==
    /\ (failed \/ filterPc = "raised") => ~clean
    /\ failed <=> IF InCall THEN rc = "fail" ELSE ret = "fail"

\* What was written is in bb_out or has been passed.
Giving ==
    /\ closed /\ ~conf.input => bbOut = <<>>
    /\ ~InCall => bbOut = <<>>
    /\ clean /\ conf.keeps => written = F!Data(passed) \o F!Data(bbOut)

\* The data of a brigade, two parts of a stream, and the mark at its end.
DataOf(b)  == F!Data(FlattenSeq(b))
Join(x, y) == x \o y
End(c)     == IF c THEN <<F!Eos>> ELSE <<>>

\* The bytes that a handler that copies has read and not written, and those it has not read.
InHand == IF filterPc = "reading" THEN rd.out ELSE got.data
Left   == DataOf(bbIn)

\* The marks of bb_in: data comes first; an end of stream that the source gave is there; a
\* brigade with FLUSH has no EOS.
Marks(b) ==
    /\ \A i, j \in 1..Len(b) : i < j /\ b[i] \notin Bucket => b[j] \notin Bucket
    /\ \A i, j \in 1..Len(b) : b[i] = <<F!Flush>> => b[j] # <<F!Eos>> /\ ~conf.input
HasEos(b) == \E i \in 1..Len(b) : b[i] = <<F!Eos>>

CopyCall ==
    /\ Join(written, Join(InHand, Left)) = F!Bytes(1, given)
    /\ Marks(bbIn)
    /\ got.is = "eof" => Left = <<>> /\ ended /\ got.data = <<>>
    /\ got.is # "eof" => ~closed /\ (ended <=> HasEos(bbIn))
    /\ got.is = "unread" => got.data = <<>>
    /\ got.is = "data" /\ got.data = <<>> => Left = <<>> /\ ~ended
    /\ Join(passed, F!Unmarked(bbOut)) = Join(written, End(closed))
    /\ filterPc = "reading" =>
        /\ got.is = "unread" /\ rd.len # 0 /\ rd.len >= -1
        /\ rd.out = <<>> => bbIn # <<>> /\ bbIn[1] # <<F!Eos>>

CopyIdle ==
    /\ written = F!Bytes(1, given)
    /\ passed = Join(written, End(ended))

Copying ==
    conf.copy /\ clean /\ conf.keeps /\ ~FlushInside =>
        /\ ~ctx.transparent /\ written \in Seq(Byte)
        /\ IF InCall THEN CopyCall ELSE CopyIdle

FilterInv == FilterType /\ Reads /\ Failing /\ Giving /\ Copying

-----------------------------------------------------------------------------
(* Data, marks and brigades.                                               *)

LEMMA MarksAre == F!Eos = -1 /\ F!Flush = -2 /\ F!Text = -3 /\ F!Own = -4 /\ F!Garbage = -5
BY DEF F!Eos, F!Flush, F!Text, F!Own, F!Garbage

DataSet == {i \in Int : i > 0 \/ i \in {-4, -5}}
MarkSet == Int \ {-2}

LEMMA DataIs == ASSUME NEW x PROVE F!Data(x) = Keep(x, DataSet) /\ F!Unmarked(x) = Keep(x, MarkSet)
<1>1. ASSUME NEW S PROVE F!Keep(x, S) = Keep(x, S)
  BY DEF F!Keep, Keep
<1> QED
  BY <1>1, MarksAre DEF F!Data, F!Unmarked, DataSet, MarkSet

(* What is selected from data that is joined.                              *)
LEMMA DataJoined ==
    ASSUME NEW x \in Seq(Int), NEW y \in Seq(Int)
    PROVE  /\ F!Data(x \o y) = F!Data(x) \o F!Data(y)
           /\ F!Unmarked(x \o y) = F!Unmarked(x) \o F!Unmarked(y)
<1>1. ASSUME NEW S PROVE Keep(x \o y, S) = Keep(x, S) \o Keep(y, S)
  BY KeepConcat
<1> QED
  BY <1>1, DataIs

LEMMA DataType ==
    ASSUME NEW x \in Seq(Int)
    PROVE  F!Data(x) \in Seq(Int) /\ F!Unmarked(x) \in Seq(Int) /\ F!Data(F!Unmarked(x)) = F!Data(x)
<1>1. Keep(Keep(x, MarkSet), DataSet) = Keep(x, MarkSet \cap DataSet)
  BY KeepTwice
<1>2. MarkSet \cap DataSet = DataSet
  BY DEF MarkSet, DataSet
<1>3. Keep(x, DataSet) \in Seq(Int) /\ Keep(x, MarkSet) \in Seq(Int)
  BY KeepType
<1> QED
  BY <1>1, <1>2, <1>3, DataIs

LEMMA DataBytes == ASSUME NEW x \in Seq(Byte) PROVE F!Data(x) = x /\ F!Unmarked(x) = x
<1>1. Byte \cap DataSet = Byte \cap Byte /\ Byte \cap MarkSet = Byte \cap Byte
  BY DEF Byte, DataSet, MarkSet
<1>2. Keep(x, DataSet) = Keep(x, Byte) /\ Keep(x, MarkSet) = Keep(x, Byte)
  BY <1>1, KeepSame
<1> QED
  BY <1>2, KeepAll, DataIs

LEMMA DataOne ==
    ASSUME NEW i \in Int
    PROVE  /\ F!Data(<<i>>) = IF i \in DataSet THEN <<i>> ELSE <<>>
           /\ F!Unmarked(<<i>>) = IF i \in MarkSet THEN <<i>> ELSE <<>>
<1>1. <<i>> = Append(<<>>, i) /\ <<>> \in Seq(Int)
  OBVIOUS
<1>2. ASSUME NEW S PROVE Keep(<<i>>, S) = IF i \in S THEN <<i>> ELSE <<>>
  <2>1. Keep(Append(<<>>, i), S) = IF i \in S THEN Append(Keep(<<>>, S), i) ELSE Keep(<<>>, S)
    BY <1>1, KeepAppend
  <2> QED
    BY <1>1, <2>1, KeepEmpty
<1> QED
  BY <1>2, DataIs

LEMMA DataMarks ==
    /\ F!Data(<<>>) = <<>> /\ F!Unmarked(<<>>) = <<>>
    /\ F!Data(<<F!Eos>>) = <<>> /\ F!Unmarked(<<F!Eos>>) = <<F!Eos>>
    /\ F!Data(<<F!Flush>>) = <<>> /\ F!Unmarked(<<F!Flush>>) = <<>>
    /\ F!Data(<<F!Own>>) = <<F!Own>>
<1>1. F!Data(<<>>) = <<>> /\ F!Unmarked(<<>>) = <<>>
  BY DataIs, KeepEmpty
<1>2. -1 \in Int /\ -2 \in Int /\ -4 \in Int /\ -1 \notin DataSet /\ -1 \in MarkSet /\ -2 \notin DataSet
      /\ -2 \notin MarkSet /\ -4 \in DataSet
  BY DEF DataSet, MarkSet
<1> QED
  BY <1>1, <1>2, DataOne, MarksAre

(* The end of a stream or a flush behind a brigade.                        *)
LEMMA DataMarked ==
    ASSUME NEW x \in Seq(Int)
    PROVE  /\ Append(x, F!Eos) \in Seq(Int) /\ Append(x, F!Flush) \in Seq(Int)
           /\ F!Data(Append(x, F!Eos)) = F!Data(x) /\ F!Data(Append(x, F!Flush)) = F!Data(x)
           /\ F!Unmarked(Append(x, F!Eos)) = F!Unmarked(x) \o <<F!Eos>>
           /\ F!Unmarked(Append(x, F!Flush)) = F!Unmarked(x)
<1>1. F!Eos \in Int /\ F!Flush \in Int
  BY MarksAre
<1>2. <<F!Eos>> \in Seq(Int) /\ <<F!Flush>> \in Seq(Int)
  BY <1>1
<1>3. Append(x, F!Eos) = x \o <<F!Eos>> /\ Append(x, F!Flush) = x \o <<F!Flush>>
  BY <1>1, AppendIsConcat
<1>4. F!Data(x) \o <<>> = F!Data(x) /\ F!Unmarked(x) \o <<>> = F!Unmarked(x)
  BY DataType, ConcatEmptySeq
<1>5. Append(x, F!Eos) \in Seq(Int) /\ Append(x, F!Flush) \in Seq(Int)
  BY <1>1, AppendProperties
<1>6. /\ F!Data(x \o <<F!Eos>>) = F!Data(x) \o F!Data(<<F!Eos>>)
      /\ F!Data(x \o <<F!Flush>>) = F!Data(x) \o F!Data(<<F!Flush>>)
      /\ F!Unmarked(x \o <<F!Eos>>) = F!Unmarked(x) \o F!Unmarked(<<F!Eos>>)
      /\ F!Unmarked(x \o <<F!Flush>>) = F!Unmarked(x) \o F!Unmarked(<<F!Flush>>)
  BY <1>2, DataJoined
<1> QED
  BY <1>3, <1>4, <1>5, <1>6, DataMarks

LEMMA ItemFacts ==
    /\ Item \subseteq Seq(Int) /\ Bucket \subseteq Item
    /\ <<F!Eos>> \in Item /\ <<F!Flush>> \in Item
    /\ \A b \in Item : /\ b # <<>>
                       /\ b \in Bucket <=> F!IsData(b)
                       /\ b \in Bucket => b \in Seq(Byte) /\ b # <<F!Eos>> /\ b # <<F!Flush>>
                       /\ b \notin Bucket => b = <<F!Eos>> \/ b = <<F!Flush>>
    /\ <<F!Eos>> # <<F!Flush>>
    /\ \A x \in Seq(Byte) : x \in Seq(Int)
<1>1. Byte \subseteq Int /\ \A i \in Byte : i > 0
  BY DEF Byte
<1>2. ASSUME NEW x \in Seq(Byte) PROVE x \in Seq(Int)
  BY <1>1, SeqMonotonic
<1>3. ASSUME NEW b \in Bucket PROVE b \in Seq(Byte) /\ b # <<>> /\ b[1] \in Byte
  BY DEF Bucket
<1>4. <<F!Eos>>[1] = -1 /\ <<F!Flush>>[1] = -2 /\ <<F!Eos>> # <<>> /\ <<F!Flush>> # <<>>
      /\ <<F!Eos>> \in Seq(Int) /\ <<F!Flush>> \in Seq(Int)
  BY MarksAre
<1>5. <<F!Eos>> \notin Bucket /\ <<F!Flush>> \notin Bucket
  BY <1>1, <1>3, <1>4
<1>6. ASSUME NEW b PROVE F!IsData(b) <=> b[1] > 0
  BY DEF F!IsData
<1>7. ~F!IsData(<<F!Eos>>) /\ ~F!IsData(<<F!Flush>>) /\ \A b \in Bucket : F!IsData(b)
  <2>1. ~F!IsData(<<F!Eos>>) /\ ~F!IsData(<<F!Flush>>)
    BY <1>4, <1>6
  <2> QED
    BY <1>1, <1>3, <1>6, <2>1
<1>8. \A b \in Item : b \in Bucket \/ b = <<F!Eos>> \/ b = <<F!Flush>>
  BY DEF Item
<1>9. Bucket \subseteq Item /\ <<F!Eos>> \in Item /\ <<F!Flush>> \in Item
  BY DEF Item
<1>10. Item \subseteq Seq(Int)
  BY <1>2, <1>3, <1>4, <1>8
<1> HIDE DEF Item
<1> QED
  BY <1>2, <1>3, <1>4, <1>5, <1>7, <1>8, <1>9, <1>10

LEMMA FlattenIs == ASSUME NEW s PROVE F!FlattenSeq(s) = FlattenSeq(s)
BY DEF F!FlattenSeq, FlattenSeq

(* The bytes behind those that the source has given.                       *)
More(n) == F!Bytes(given + 1, given + n)

LEMMA BytesFacts ==
    ASSUME given \in 0..FilterBytes, NEW n \in 0..(FilterBytes - given), FilterBytes \in Nat
    PROVE  /\ More(n) \in Seq(Byte) /\ F!Bytes(1, given) \in Seq(Byte)
           /\ Len(More(n)) = n /\ Len(F!Bytes(1, given)) = given
           /\ F!Bytes(1, given) \o More(n) = F!Bytes(1, given + n)
           /\ n = 0 => More(n) = <<>>
           /\ n # 0 => given + n \in Byte /\ More(n) = Append(More(n - 1), given + n)
<1> DEFINE a == F!Bytes(1, given)
           b == More(n)
           c == F!Bytes(1, given + n)
<1>1. given \in Nat /\ n \in Nat /\ given + n \in Nat /\ given + n <= FilterBytes
  OBVIOUS
<1>2. a = [k \in 1..given |-> k] /\ b = [k \in 1..n |-> given + k] /\ c = [k \in 1..given + n |-> k]
  BY <1>1 DEF F!Bytes, More
<1>3. a \in Seq(Byte) /\ b \in Seq(Byte) /\ c \in Seq(Byte) /\ Len(a) = given /\ Len(b) = n /\ Len(c) = given + n
  BY SMTT(30), <1>1, <1>2 DEF Byte
<1>4. a \o b = c
  <2> HIDE DEF a, b, c
  <2>1. a \o b \in Seq(Byte) /\ Len(a \o b) = given + n
        /\ \A i \in 1..given + n : (a \o b)[i] = IF i <= Len(a) THEN a[i] ELSE b[i - Len(a)]
    BY <1>3, ConcatProperties
  <2>2. ASSUME NEW i \in 1..given + n PROVE (a \o b)[i] = c[i]
    <3>1. CASE i <= given
      BY <1>1, <1>2, <1>3, <2>1, <3>1
    <3>2. CASE ~(i <= given)
      <4>1. i - given \in 1..n
        BY <1>1, <3>2
      <4>2. (a \o b)[i] = b[i - given]
        BY <1>3, <2>1, <3>2
      <4>3. b[i - given] = given + (i - given)
        BY <1>2, <4>1
      <4>4. c[i] = i /\ given + (i - given) = i
        BY <1>1, <1>2
      <4> QED
        BY <4>2, <4>3, <4>4
    <3> QED
      BY <3>1, <3>2
  <2> QED
    BY <1>3, <2>1, <2>2, SeqEqual
<1>5. n = 0 => b = <<>>
  BY <1>3
<1>6. ASSUME n # 0 PROVE given + n \in Byte /\ b = Append(More(n - 1), given + n)
  <2> DEFINE d == More(n - 1)
             e == Append(d, given + n)
  <2>1. given + n \in Byte /\ n - 1 \in Nat
    BY <1>1, <1>6 DEF Byte
  <2>2. d = [k \in 1..n - 1 |-> given + k] /\ d \in Seq(Byte) /\ Len(d) = n - 1
    BY <1>1, <2>1 DEF F!Bytes, More, Byte
  <2> HIDE DEF d
  <2>3. e \in Seq(Byte) /\ Len(e) = n /\ (\A i \in 1..n - 1 : e[i] = d[i]) /\ e[n] = given + n
    BY <1>1, <2>1, <2>2, AppendProperties
  <2> HIDE DEF e
  <2>4. ASSUME NEW i \in 1..n PROVE b[i] = e[i]
    <3>1. b[i] = given + i
      BY <1>2
    <3>2. CASE i = n
      BY <2>3, <3>1, <3>2
    <3>3. CASE i # n
      BY <1>1, <2>2, <2>3, <3>1, <3>3
    <3> QED
      BY <3>2, <3>3
  <2> HIDE DEF b
  <2>5. b = e
    BY <1>3, <2>3, <2>4, SeqEqual
  <2> QED
    BY <2>1, <2>5 DEF d, e
<1> QED
  BY <1>3, <1>4, <1>5, <1>6

(* A cut is a brigade of nonempty buckets with the bytes in their order.   *)
IsCut(c, m) == c \in Seq(Bucket) /\ FlattenSeq(c) = More(m)

\* The cuts of one more byte.
CutMore(m, d) ==
    {Append(c, <<given + m>>) : c \in d} \cup
    {Append(F!Front(c), Append(F!Last(c), given + m)) :
        c \in {e \in d : e # <<>> /\ Len(F!Last(e)) < FilterBucket}}

LEMMA CutMoreIs ==
    ASSUME FilterBytes \in Nat, given \in 0..FilterBytes, NEW m \in 1..(FilterBytes - given), NEW d,
           \A c \in d : IsCut(c, m - 1), NEW x \in CutMore(m, d)
    PROVE  IsCut(x, m)
<1> DEFINE b == given + m
           old == More(m - 1)
<1>1. b \in Byte /\ More(m) = Append(old, b) /\ old \in Seq(Byte) /\ Append(old, b) = old \o <<b>>
      /\ <<b>> \in Seq(Byte) /\ <<b>> \in Bucket
  <2>1. m \in 0..(FilterBytes - given) /\ m # 0 /\ m - 1 \in 0..(FilterBytes - given)
    OBVIOUS
  <2>2. b \in Byte /\ More(m) = Append(old, b) /\ old \in Seq(Byte)
    BY <2>1, BytesFacts
  <2> HIDE DEF b, old
  <2>3. Append(old, b) = old \o <<b>> /\ <<b>> \in Seq(Byte)
    BY <2>2, AppendIsConcat
  <2> QED
    BY <2>2, <2>3 DEF Bucket
<1>2. \A c : c \in Seq(Bucket) => c \in Seq(Seq(Byte))
  BY SeqMonotonic DEF Bucket
<1> HIDE DEF b, old
<1>3. ASSUME NEW c \in d, x = Append(c, <<b>>) PROVE IsCut(x, m)
  <2>1. c \in Seq(Bucket) /\ c \in Seq(Seq(Byte)) /\ FlattenSeq(c) = old
    BY <1>2 DEF IsCut, old
  <2>2. x \in Seq(Bucket)
    BY <1>1, <1>3, <2>1, AppendProperties
  <2>3. FlattenSeq(x) = FlattenSeq(c) \o <<b>>
    BY <1>1, <1>3, <2>1, FlattenAppend
  <2> QED
    BY <1>1, <2>1, <2>2, <2>3 DEF IsCut
<1>4. ASSUME NEW c \in d, c # <<>>, x = Append(F!Front(c), Append(F!Last(c), b)) PROVE IsCut(x, m)
  <2>1. c \in Seq(Bucket) /\ FlattenSeq(c) = old
    BY DEF IsCut, old
  <2>2. PICK r \in Seq(Bucket), y \in Bucket : c = Append(r, y)
    BY <1>4, <2>1, SequenceEmptyOrAppend
  <2>3. F!Front(c) = r /\ F!Last(c) = y
    <3>1. Len(c) = Len(r) + 1 /\ c[Len(c)] = y /\ Len(r) \in Nat
      BY <2>2
    <3>2. F!Last(c) = y
      BY <3>1 DEF F!Last
    <3>3. F!Front(c) = SubSeq(c, 1, Len(r))
      BY <3>1 DEF F!Front
    <3>4. SubSeq(Append(r, y), 1, Len(r)) = r
      OBVIOUS
    <3> QED
      BY <2>2, <3>2, <3>3, <3>4
  <2>4. y \in Seq(Byte) /\ r \in Seq(Seq(Byte))
    BY <1>2 DEF Bucket
  <2> DEFINE z == Append(y, b)
  <2>5. z \in Seq(Byte) /\ z # <<>> /\ z = y \o <<b>>
    BY <1>1, <2>4, AppendProperties, AppendIsConcat
  <2>6. z \in Bucket
    BY <2>5 DEF Bucket
  <2>7. x = Append(r, z)
    BY <1>4, <2>3
  <2> HIDE DEF z
  <2>8. x \in Seq(Bucket)
    BY <2>6, <2>7, AppendProperties
  <2> DEFINE f == FlattenSeq(r)
  <2>9. f \in Seq(Byte) /\ FlattenSeq(x) = f \o z /\ FlattenSeq(c) = f \o y
    BY <2>2, <2>4, <2>5, <2>7, FlattenType, FlattenAppend
  <2> HIDE DEF f
  <2>10. f \o (y \o <<b>>) = (f \o y) \o <<b>>
    BY SMTT(30), <1>1, <2>4, <2>9, ConcatAssociative
  <2> QED
    BY <1>1, <2>1, <2>5, <2>8, <2>9, <2>10 DEF IsCut
<1>5. (\E c \in d : x = Append(c, <<b>>)) \/ (\E c \in d : c # <<>> /\ x = Append(F!Front(c), Append(F!Last(c), b)))
  BY DEF CutMore, b
<1> QED
  BY <1>3, <1>4, <1>5

LEMMA CutsAre ==
    ASSUME FilterBytes \in Nat, given \in 0..FilterBytes, NEW n \in 0..(FilterBytes - given),
           NEW c \in F!Cuts(n)
    PROVE  IsCut(c, n)
<1> DEFINE D == SUBSET {e \in Seq(Bucket) : \E m \in 0..n : IsCut(e, m)}
           a == {<<>>}
           Step(k, d) == CutMore(k + 1, d)
           OfCut(m, d) == {e \in d : IsCut(e, m)}
           G == [k \in 0..n - 1 |-> [d \in D |-> CutMore(k + 1, OfCut(k, d))]]
           Rec(f, m) == IF m = 0 THEN {<<>>} ELSE CutMore(m, f[m - 1])
           Is(f) == f = [m \in 0..n |-> Rec(f, m)]
<1>1. n \in Nat /\ IsCut(<<>>, 0)
  <2>1. 0 \in 0..(FilterBytes - given)
    OBVIOUS
  <2>2. More(0) = <<>>
    BY <2>1, BytesFacts
  <2> QED
    BY <2>2, FlattenEmpty DEF IsCut
<1>2. a \in D
  BY <1>1
<1>3. ASSUME NEW m \in 1..n, NEW d, \A e \in d : IsCut(e, m - 1)
      PROVE  \A e \in CutMore(m, d) : IsCut(e, m)
  <2>1. m \in 1..(FilterBytes - given)
    BY <1>1
  <2> QED
    BY <1>3, <2>1, CutMoreIs
<1>4. G \in [0..n - 1 -> [D -> D]]
  <2>1. ASSUME NEW k \in 0..n - 1, NEW d \in D PROVE CutMore(k + 1, OfCut(k, d)) \in D
    <3>1. k + 1 \in 1..n /\ (k + 1) - 1 = k /\ k + 1 \in 0..n
      BY <1>1
    <3>2. \A e \in CutMore(k + 1, OfCut(k, d)) : IsCut(e, k + 1)
      BY <1>3, <3>1
    <3>3. \A e : IsCut(e, k + 1) => e \in Seq(Bucket)
      BY DEF IsCut
    <3> QED
      BY <3>1, <3>2, <3>3
  <2> HIDE DEF D, Cut
  <2> QED
    BY <2>1
<1>5. PICK g \in [0..n -> D] : Computes(g, n, a, G)
  <2> HIDE DEF G, D, a
  <2> QED
    BY <1>1, <1>2, <1>4, Recursion
<1>6. g[0] = a /\ \A k \in 0..n - 1 : g[k + 1] = CutMore(k + 1, OfCut(k, g[k]))
  <2>1. ASSUME NEW k \in 0..n - 1 PROVE G[k][g[k]] = CutMore(k + 1, OfCut(k, g[k]))
    <3>1. k \in 0..n
      BY <1>1
    <3>2. g[k] \in D
      BY <3>1
    <3> HIDE DEF D, Cut
    <3> QED
      BY <3>2
  <2>2. g[0] = a /\ \A k \in 0..n - 1 : g[k + 1] = G[k][g[k]]
    <3> HIDE DEF G, a
    <3> QED
      BY <1>5 DEF Computes
  <2> HIDE DEF G, Cut
  <2> QED
    BY <2>1, <2>2
<1> HIDE DEF G
<1>7. ASSUME NEW m \in 0..n PROVE \A e \in g[m] : IsCut(e, m)
  <2> DEFINE T == {i \in 0..n : \A e \in g[i] : IsCut(e, i)}
  <2>1. 0 \in T
    BY <1>1, <1>6
  <2>2. ASSUME NEW i \in 0..n - 1, i \in T PROVE i + 1 \in T
    <3>1. i + 1 \in 1..n /\ i + 1 \in 0..n /\ (i + 1) - 1 = i
      BY <1>1
    <3>2. \A e \in OfCut(i, g[i]) : IsCut(e, i)
      OBVIOUS
    <3>3. g[i + 1] = CutMore(i + 1, OfCut(i, g[i]))
      BY <1>6
    <3> HIDE DEF Cut
    <3> QED
      BY <1>3, <3>1, <3>2, <3>3
  <2> HIDE DEF T
  <2>3. m \in T
    BY <1>1, <2>1, <2>2, InductionUpTo
  <2> QED
    BY <2>3 DEF T
<1>8. Is(g)
  <2>1. ASSUME NEW m \in 0..n PROVE g[m] = Rec(g, m)
    <3>1. CASE m = 0
      BY <1>6, <3>1
    <3>2. CASE m # 0
      <4> DEFINE k == m - 1
      <4>1. k \in 0..n - 1 /\ k \in 0..n /\ k + 1 = m /\ k = m - 1
        BY <1>1, <3>2
      <4> HIDE DEF k
      <4>2. g[k + 1] = CutMore(k + 1, OfCut(k, g[k]))
        BY <1>6, <4>1
      <4>3. OfCut(k, g[k]) = g[k]
        BY <1>7, <4>1
      <4> HIDE DEF Cut
      <4> QED
        BY <3>2, <4>1, <4>2, <4>3
    <3> QED
      BY <3>1, <3>2
  <2>2. g = [m \in 0..n |-> g[m]]
    OBVIOUS
  <2> HIDE DEF Rec
  <2> QED
    BY <2>1, <2>2
<1> DEFINE f == CHOOSE x : Is(x)
<1>9. Is(f) /\ F!Cuts(n) = f[n]
  <2>1. Is(f)
    <3> HIDE DEF Is
    <3> QED
      BY <1>8
  <2>2. F!Cuts(n) = f[n]
    BY DEF F!Cuts, CutMore
  <2> QED
    BY <2>1, <2>2
<1> HIDE DEF f
<1>10. ASSUME NEW m \in 0..n PROVE f[m] = Rec(f, m)
  BY <1>9
<1>11. ASSUME NEW m \in 0..n PROVE \A e \in f[m] : IsCut(e, m)
  <2> DEFINE T == {i \in 0..n : \A e \in f[i] : IsCut(e, i)}
  <2>1. 0 \in T
    BY <1>1, <1>10
  <2>2. ASSUME NEW i \in 0..n - 1, i \in T PROVE i + 1 \in T
    <3>1. i + 1 \in 1..n /\ i + 1 \in 0..n /\ (i + 1) - 1 = i /\ i + 1 # 0
      BY <1>1
    <3>2. \A e \in f[i] : IsCut(e, i)
      BY <2>2
    <3>3. f[i + 1] = CutMore(i + 1, f[i])
      BY <1>10, <3>1
    <3> QED
      BY <1>3, <3>1, <3>2, <3>3
  <2> HIDE DEF T
  <2>3. m \in T
    BY <1>1, <2>1, <2>2, InductionUpTo
  <2> QED
    BY <2>3 DEF T
<1> QED
  BY <1>1, <1>9, <1>11

(* The data of the buckets of a brigade.                                   *)

LEMMA ItemSeqs == ASSUME NEW b \in Seq(Item) PROVE b \in Seq(Seq(Int))
BY ItemFacts, SeqMonotonic

LEMMA FlattenItems ==
    ASSUME NEW a \in Seq(Item)
    PROVE  FlattenSeq(a) \in Seq(Int) /\ DataOf(a) \in Seq(Int)
BY ItemSeqs, FlattenType, DataType DEF DataOf

LEMMA DataOfJoined ==
    ASSUME NEW a \in Seq(Item), NEW b \in Seq(Item)
    PROVE  DataOf(a \o b) = DataOf(a) \o DataOf(b) /\ a \o b \in Seq(Item)
<1>1. FlattenSeq(a \o b) = FlattenSeq(a) \o FlattenSeq(b)
  BY ItemSeqs, FlattenConcat
<1>2. F!Data(FlattenSeq(a) \o FlattenSeq(b)) = F!Data(FlattenSeq(a)) \o F!Data(FlattenSeq(b))
  BY FlattenItems, DataJoined
<1>3. a \o b \in Seq(Item)
  BY ConcatProperties
<1> QED
  BY <1>1, <1>2, <1>3 DEF DataOf

LEMMA DataOfOne == ASSUME NEW x \in Item PROVE DataOf(<<x>>) = F!Data(x) /\ <<x>> \in Seq(Item)
<1>1. x \in Seq(Int)
  BY ItemFacts
<1>2. FlattenSeq(<<x>>) = x
  BY <1>1, FlattenOne
<1>3. <<x>> \in Seq(Item)
  OBVIOUS
<1> QED
  BY <1>2, <1>3 DEF DataOf

LEMMA DataOfMarks ==
    /\ DataOf(<<>>) = <<>>
    /\ \A x \in {<<F!Eos>>, <<F!Flush>>} : DataOf(<<x>>) = <<>> /\ x \in Item /\ <<x>> \in Seq(Item)
<1>1. DataOf(<<>>) = <<>>
  BY FlattenEmpty, DataMarks DEF DataOf
<1>2. ASSUME NEW x \in {<<F!Eos>>, <<F!Flush>>} PROVE DataOf(<<x>>) = <<>> /\ x \in Item /\ <<x>> \in Seq(Item)
  <2>1. x \in Item /\ F!Data(x) = <<>>
    BY ItemFacts, DataMarks
  <2> QED
    BY <2>1, DataOfOne
<1> QED
  BY <1>1, <1>2

\* A brigade with the next n bytes.
Carries(b, n) == b \in Seq(Item) /\ DataOf(b) = More(n)

LEMMA CarriesMarked ==
    ASSUME NEW b, NEW n, Carries(b, n), NEW x \in {<<F!Eos>>, <<F!Flush>>}
    PROVE  Carries(Append(b, x), n) /\ Carries(<<x>> \o b, n)
<1>1. b \in Seq(Item) /\ DataOf(b) = More(n) /\ DataOf(b) \in Seq(Int)
  BY FlattenItems DEF Carries
<1>2. DataOf(<<x>>) = <<>> /\ x \in Item /\ <<x>> \in Seq(Item)
  BY DataOfMarks
<1>3. Append(b, x) = b \o <<x>>
  BY <1>1, <1>2, AppendIsConcat
<1>4. DataOf(b \o <<x>>) = DataOf(b) \o <<>> /\ DataOf(<<x>> \o b) = <<>> \o DataOf(b)
      /\ b \o <<x>> \in Seq(Item) /\ <<x>> \o b \in Seq(Item)
  BY <1>1, <1>2, DataOfJoined
<1>5. DataOf(b) \o <<>> = DataOf(b) /\ <<>> \o DataOf(b) = DataOf(b)
  BY <1>1, ConcatEmptySeq
<1> QED
  BY <1>1, <1>3, <1>4, <1>5 DEF Carries

LEMMA CutCarries ==
    ASSUME FilterBytes \in Nat, given \in 0..FilterBytes, NEW n \in 0..(FilterBytes - given),
           NEW c \in F!Cuts(n)
    PROVE  c \in Seq(Bucket) /\ Carries(c, n)
<1>1. c \in Seq(Bucket) /\ FlattenSeq(c) = More(n)
  BY CutsAre DEF IsCut
<1>2. c \in Seq(Item)
  BY <1>1, ItemFacts, SeqMonotonic
<1>3. F!Data(More(n)) = More(n)
  BY BytesFacts, DataBytes
<1> QED
  BY <1>1, <1>2, <1>3 DEF Carries, DataOf

LEMMA WithFlushCarries ==
    ASSUME NEW c, NEW n, Carries(c, n), NEW b \in F!WithFlush(c)
    PROVE  Carries(b, n) /\ (~FlushInside => b = c \/ (b = Append(c, <<F!Flush>>) /\ ~conf.input))
<1> DEFINE x == <<F!Flush>>
<1> DEFINE y == <<x>> \o c
           z == Append(c, x)
<1>1. b = c \/ b = z \/ b = y
  <2>1. /\ ~conf.input \/ FlushInside => F!WithFlush(c) = {c} \cup {z} \cup (IF FlushInside THEN {y} ELSE {})
        /\ ~(~conf.input \/ FlushInside) => F!WithFlush(c) = {c} \cup {} \cup (IF FlushInside THEN {y} ELSE {})
    BY DEF F!WithFlush
  <2> HIDE DEF y, z
  <2> QED
    BY <2>1
<1>2. ~FlushInside => b = c \/ (b = Append(c, x) /\ ~conf.input)
  BY DEF F!WithFlush
<1>3. Carries(Append(c, x), n) /\ Carries(<<x>> \o c, n)
  BY CarriesMarked
<1> HIDE DEF x
<1>4. Carries(b, n)
  BY <1>1, <1>3
<1> QED
  BY <1>2, <1>4 DEF x

LEMMA BrigadeCarries ==
    ASSUME FilterBytes \in Nat, given \in 0..FilterBytes, NEW n \in 0..(FilterBytes - given),
           NEW eos \in BOOLEAN, NEW b \in F!Brigade(n, eos)
    PROVE  /\ Carries(b, n)
           /\ ~FlushInside => \E c \in Seq(Bucket) :
                IF eos THEN b = Append(c, <<F!Eos>>) ELSE b = c \/ (b = Append(c, <<F!Flush>>) /\ ~conf.input)
<1>1. PICK c \in F!Cuts(n) :
        b \in IF eos THEN {Append(f, <<F!Eos>>) : f \in IF FlushInside THEN F!WithFlush(c) ELSE {c}}
              ELSE F!WithFlush(c)
  BY DEF F!Brigade
<1>2. c \in Seq(Bucket) /\ Carries(c, n)
  BY CutCarries
<1>3. CASE eos
  <2>1. PICK f \in IF FlushInside THEN F!WithFlush(c) ELSE {c} : b = Append(f, <<F!Eos>>)
    BY <1>1, <1>3
  <2>2. Carries(f, n) /\ (~FlushInside => f = c)
    BY <1>2, <2>1, WithFlushCarries
  <2>3. Carries(b, n)
    BY <2>1, <2>2, CarriesMarked
  <2> QED
    BY <1>2, <1>3, <2>1, <2>2, <2>3
<1>4. CASE ~eos
  <2>1. b \in F!WithFlush(c)
    BY <1>1, <1>4
  <2>2. Carries(b, n) /\ (~FlushInside => b = c \/ (b = Append(c, <<F!Flush>>) /\ ~conf.input))
    BY <1>2, <2>1, WithFlushCarries
  <2> QED
    BY <1>2, <1>4, <2>2
<1> QED
  BY <1>3, <1>4

(* The marks of a brigade.                                                 *)
LEMMA BrigadeMarks ==
    ASSUME NEW c \in Seq(Bucket), NEW b, NEW eos \in BOOLEAN,
           IF eos THEN b = Append(c, <<F!Eos>>) ELSE b = c \/ (b = Append(c, <<F!Flush>>) /\ ~conf.input)
    PROVE  Marks(b) /\ (HasEos(b) <=> eos)
<1>1. Len(c) \in Nat /\ \A i \in 1..Len(c) : c[i] \in Bucket /\ c[i] # <<F!Eos>> /\ c[i] # <<F!Flush>>
  <2>1. Len(c) \in Nat /\ \A i \in 1..Len(c) : c[i] \in Bucket
    OBVIOUS
  <2> QED
    BY <2>1, ItemFacts
<1>2. <<F!Eos>> # <<F!Flush>>
  BY ItemFacts
<1>3. CASE b = c
  <2>1. ~eos
    <3>1. \A x : Len(Append(c, x)) # Len(c)
      BY <1>1
    <3> QED
      BY <1>3, <3>1
  <2> QED
    BY <1>1, <1>3, <2>1 DEF Marks, HasEos
<1>4. ASSUME NEW x, b = Append(c, x), (x = <<F!Eos>> /\ eos) \/ (x = <<F!Flush>> /\ ~eos /\ ~conf.input)
      PROVE  Marks(b) /\ (HasEos(b) <=> eos)
  <2>1. Len(b) = Len(c) + 1 /\ b[Len(c) + 1] = x /\ \A i \in 1..Len(c) : b[i] = c[i]
    BY <1>4
  <2>2. \A i \in 1..Len(b) : i \in 1..Len(c) \/ i = Len(c) + 1
    BY <1>1, <2>1
  <2>3. ASSUME NEW i \in 1..Len(b), NEW j \in 1..Len(b), i < j, b[i] \notin Bucket PROVE b[j] \notin Bucket
    <3>1. i \in 1..Len(c)
      BY <1>1, <2>1, <2>3
    <3> QED
      BY <1>1, <2>1, <2>3, <3>1
  <2>4. ASSUME NEW i \in 1..Len(b), NEW j \in 1..Len(b), b[i] = <<F!Flush>>
        PROVE  b[j] # <<F!Eos>> /\ ~conf.input
    <3>1. i = Len(c) + 1
      BY <1>1, <2>1, <2>2, <2>4
    <3>2. x = <<F!Flush>> /\ ~eos /\ ~conf.input
      BY <1>2, <1>4, <2>1, <2>4, <3>1
    <3>3. b[j] # <<F!Eos>>
      BY <1>1, <1>2, <2>1, <2>2, <3>2
    <3> QED
      BY <3>2, <3>3
  <2>5. HasEos(b) <=> eos
    <3>1. CASE eos
      <4>1. Len(c) + 1 \in 1..Len(b)
        BY <1>1, <2>1
      <4> QED
        BY <1>2, <1>4, <2>1, <3>1, <4>1 DEF HasEos
    <3>2. CASE ~eos
      BY <1>1, <1>2, <1>4, <2>1, <2>2, <3>2 DEF HasEos
    <3> QED
      BY <3>1, <3>2
  <2> QED
    BY <2>3, <2>4, <2>5 DEF Marks
<1>5. CASE eos
  <2>1. \E x : b = Append(c, x) /\ x = <<F!Eos>> /\ eos
    BY <1>5
  <2> QED
    BY <1>4, <2>1
<1>6. CASE ~eos /\ b # c
  <2>1. \E x : b = Append(c, x) /\ x = <<F!Flush>> /\ ~eos /\ ~conf.input
    BY <1>6
  <2> QED
    BY <1>4, <2>1
<1> QED
  BY <1>3, <1>5, <1>6

(* What a step of the source gives.                                        *)
LEMMA GivesFacts ==
    ASSUME FilterBytes \in Nat, given \in 0..FilterBytes, ended \in BOOLEAN, NEW b, F!Gives(b)
    PROVE  /\ b \in Seq(Item) /\ given' \in 0..FilterBytes /\ ended' \in BOOLEAN
           /\ DataOf(b) \in Seq(Byte) /\ F!Bytes(1, given) \in Seq(Byte)
           /\ F!Bytes(1, given') = F!Bytes(1, given) \o DataOf(b)
           /\ ended => ended' /\ conf.input /\ DataOf(b) = <<>> /\ b = <<<<F!Eos>>>>
           /\ ~FlushInside => Marks(b) /\ (HasEos(b) <=> ended')
<1>1. CASE ~ended
  <2>1. PICK n \in 0..(FilterBytes - given), eos \in BOOLEAN :
          b \in F!Brigade(n, eos) /\ given' = given + n /\ ended' = eos
    <3>1. \E n \in 0..(FilterBytes - given), eos \in BOOLEAN :
            b \in F!Brigade(n, eos) /\ given' = given + n /\ ended' = eos
      BY <1>1 DEF F!Gives
    <3> QED
      BY <3>1
  <2>2. Carries(b, n)
    BY <2>1, BrigadeCarries
  <2>3. ~FlushInside => Marks(b) /\ (HasEos(b) <=> ended')
    <3>1. SUFFICES ASSUME ~FlushInside PROVE Marks(b) /\ (HasEos(b) <=> eos)
      BY <2>1
    <3>2. PICK c \in Seq(Bucket) :
            IF eos THEN b = Append(c, <<F!Eos>>) ELSE b = c \/ (b = Append(c, <<F!Flush>>) /\ ~conf.input)
      BY <2>1, <3>1, BrigadeCarries
    <3> QED
      BY <3>2, BrigadeMarks
  <2>4. More(n) \in Seq(Byte) /\ F!Bytes(1, given) \in Seq(Byte)
        /\ F!Bytes(1, given) \o More(n) = F!Bytes(1, given + n)
    BY BytesFacts
  <2>5. given + n \in 0..FilterBytes
    OBVIOUS
  <2> QED
    BY <1>1, <2>1, <2>2, <2>3, <2>4, <2>5 DEF Carries
<1>2. CASE ended
  <2>1. conf.input /\ b = <<<<F!Eos>>>> /\ given' = given /\ ended' = ended
    BY <1>2 DEF F!Gives, F!source
  <2> DEFINE x == <<F!Eos>>
  <2>2. DataOf(<<x>>) = <<>> /\ <<x>> \in Seq(Item)
    BY DataOfMarks
  <2>3. 0 \in 0..(FilterBytes - given)
    OBVIOUS
  <2>4. F!Bytes(1, given) \in Seq(Byte)
    BY <2>3, BytesFacts
  <2>5. F!Bytes(1, given) \o <<>> = F!Bytes(1, given) /\ <<>> \in Seq(Byte)
    BY <2>4, ConcatEmptySeq
  <2>6. Marks(b) /\ (HasEos(b) <=> TRUE)
    <3> DEFINE c == <<>>
    <3>1. c \in Seq(Bucket) /\ b = Append(c, <<F!Eos>>)
      BY <2>1
    <3> HIDE DEF c
    <3> QED
      BY <3>1, BrigadeMarks
  <2> QED
    BY <1>2, <2>1, <2>2, <2>4, <2>5, <2>6
<1> QED
  BY <1>1, <1>2

-----------------------------------------------------------------------------
(* The steps the actions of the filter are made of.                        *)

LEMMA Records ==
    /\ F!NoRead \in RdSet /\ F!NoRead.len = 0 /\ F!NoRead.size = 0 /\ Len(F!NoRead.out) = 0
    /\ F!Unread \in GotSet /\ F!Eof \in GotSet
    /\ F!Unread.is = "unread" /\ F!Unread.data = <<>> /\ F!Eof.is = "eof" /\ F!Eof.data = <<>>
    /\ \A d \in Seq(Byte) : F!Got(d) \in GotSet /\ F!Got(d).is = "data" /\ F!Got(d).data = d
    /\ \A c \in CtxSet, x \in BOOLEAN :
          /\ [c EXCEPT !.made = x] \in CtxSet /\ [c EXCEPT !.transparent = x] \in CtxSet
          /\ [c EXCEPT !.named = x] \in CtxSet
          /\ [c EXCEPT !.made = x].transparent = c.transparent /\ [c EXCEPT !.made = x].named = c.named
          /\ [c EXCEPT !.transparent = x].transparent = x /\ [c EXCEPT !.transparent = x].named = c.named
          /\ [c EXCEPT !.named = x].transparent = c.transparent
    /\ \A r \in RdSet : r.line \in BOOLEAN /\ r.len \in Int /\ r.size \in Int /\ r.out \in Seq(Byte)
    /\ \A g \in GotSet : g.is \in {"unread", "eof", "data"} /\ g.data \in Seq(Byte)
    /\ \A c \in ConfSet : c.input \in BOOLEAN /\ c.copy \in BOOLEAN /\ c.debug \in BOOLEAN /\ c.here \in BOOLEAN
                        /\ c.keeps \in BOOLEAN
    /\ \A c \in CtxSet : c.named \in BOOLEAN /\ c.transparent \in BOOLEAN
<1>1. /\ F!NoRead \in RdSet /\ F!NoRead.len = 0 /\ F!NoRead.size = 0 /\ Len(F!NoRead.out) = 0
      /\ F!Unread \in GotSet /\ F!Eof \in GotSet
      /\ F!Unread.is = "unread" /\ F!Unread.data = <<>> /\ F!Eof.is = "eof" /\ F!Eof.data = <<>>
  BY DEF F!NoRead, F!Unread, F!Eof, RdSet, GotSet
<1>2. \A d \in Seq(Byte) : F!Got(d) \in GotSet /\ F!Got(d).is = "data" /\ F!Got(d).data = d
  BY DEF F!Got, GotSet
<1>3. ASSUME NEW c \in CtxSet, NEW x \in BOOLEAN
      PROVE  /\ [c EXCEPT !.made = x] \in CtxSet /\ [c EXCEPT !.transparent = x] \in CtxSet
             /\ [c EXCEPT !.named = x] \in CtxSet
             /\ [c EXCEPT !.made = x].transparent = c.transparent /\ [c EXCEPT !.made = x].named = c.named
             /\ [c EXCEPT !.transparent = x].transparent = x /\ [c EXCEPT !.transparent = x].named = c.named
             /\ [c EXCEPT !.named = x].transparent = c.transparent
  BY DEF CtxSet
<1>4. /\ \A r \in RdSet : r.line \in BOOLEAN /\ r.len \in Int /\ r.size \in Int /\ r.out \in Seq(Byte)
      /\ \A g \in GotSet : g.is \in {"unread", "eof", "data"} /\ g.data \in Seq(Byte)
      /\ \A c \in ConfSet : c.input \in BOOLEAN /\ c.copy \in BOOLEAN /\ c.debug \in BOOLEAN /\ c.here \in BOOLEAN
                        /\ c.keeps \in BOOLEAN
      /\ \A c \in CtxSet : c.named \in BOOLEAN /\ c.transparent \in BOOLEAN
  BY DEF RdSet, GotSet, ConfSet, CtxSet
<1> QED
  BY <1>1, <1>2, <1>3, <1>4

\* What the next filter had of items when it failed; and what passing items to it leaves.
PassedPart(items) == \E part \in F!Begun(F!Unmarked(items)) : passed' = passed \o part
PassedOn(items) ==
    \/ rc' = "ok" /\ failed' = FALSE /\ passed' = passed \o F!Unmarked(items)
    \/ rc' = "fail" /\ failed' = TRUE /\ PassedPart(items)

LEMMA BegunFacts ==
    ASSUME NEW x \in Seq(Int), NEW part \in F!Begun(x)
    PROVE  part \in Seq(Int) /\ \E rest \in Seq(Int) : x = part \o rest
<1>1. PICK n \in 0..Len(x) : part = SubSeq(x, 1, n)
  BY DEF F!Begun
<1>2. SubSeq(x, 1, n) \in Seq(Int) /\ SubSeq(x, n + 1, Len(x)) \in Seq(Int)
      /\ SubSeq(x, 1, n) \o SubSeq(x, n + 1, Len(x)) = x
  BY <1>1, Cut
<1> QED
  BY <1>1, <1>2

LEMMA PassedPartType ==
    ASSUME passed \in Seq(Int), NEW items \in Seq(Int), PassedPart(items)
    PROVE  passed' \in Seq(Int)
<1> DEFINE u == F!Unmarked(items)
<1>1. u \in Seq(Int)
  BY DataType
<1>2. PICK part \in F!Begun(u) : passed' = passed \o part
  BY DEF PassedPart
<1> HIDE DEF u
<1>3. part \in Seq(Int)
  BY <1>1, BegunFacts
<1> QED
  BY <1>2, <1>3, ConcatProperties

LEMMA PassOutFacts ==
    ASSUME passed \in Seq(Int), NEW items \in Seq(Int), F!PassOut(items)
    PROVE  bbOut' = <<>> /\ PassedOn(items) /\ passed' \in Seq(Int)
<1>1. bbOut' = <<>> /\ PassedOn(items)
  BY DEF F!PassOut, PassedOn, PassedPart
<1>2. CASE passed' = passed \o F!Unmarked(items)
  BY <1>1, <1>2, DataType, ConcatProperties
<1>3. CASE PassedPart(items)
  BY <1>1, <1>3, PassedPartType
<1> QED
  BY <1>1, <1>2, <1>3 DEF PassedOn

LEMMA ToCallerFacts ==
    ASSUME passed \in Seq(Int), NEW items \in Seq(Int)
    PROVE  /\ F!ToCaller(items) \in Seq(Int)
           /\ F!ToCaller(items) = IF conf.input THEN passed \o F!Unmarked(items) ELSE passed
<1>1. F!Unmarked(items) \in Seq(Int)
  BY DataType
<1>2. passed \o F!Unmarked(items) \in Seq(Int)
  BY <1>1, ConcatProperties
<1> QED
  BY <1>2 DEF F!ToCaller

\* What the beginning of a read leaves.
Starts(line, len, b) ==
    \/ b = <<>> /\ got' = F!Got(<<>>) /\ bbIn' = <<>> /\ filterPc' = filterPc /\ rd' = rd
    \/ /\ b # <<>> /\ b[1] = <<F!Eos>> /\ got' = F!Eof /\ bbIn' = Tail(b) /\ filterPc' = filterPc /\ rd' = rd
    \/ /\ b # <<>> /\ b[1] # <<F!Eos>> /\ bbIn' = b /\ filterPc' = "reading" /\ got' = got
       /\ rd'.len = len /\ rd'.line = line /\ rd'.out = <<>> /\ rd'.size = IF len < 0 THEN FilterHuge ELSE len

LEMMA StartReadFacts ==
    ASSUME FilterHuge \in Nat \ {0}, NEW line \in BOOLEAN, NEW len \in Int, NEW b \in Seq(Item),
           F!StartRead(line, len, b), rd \in RdSet, got \in GotSet
    PROVE  Starts(line, len, b) /\ rd' \in RdSet /\ got' \in GotSet /\ bbIn' \in Seq(Item)
<1>1. CASE b = <<>>
  <2>1. got' = F!Got(<<>>) /\ bbIn' = <<>> /\ filterPc' = filterPc /\ rd' = rd
    BY <1>1 DEF F!StartRead
  <2>2. <<>> \in Seq(Byte)
    OBVIOUS
  <2>3. got' \in GotSet
    BY <2>1, <2>2, Records
  <2> QED
    BY <1>1, <2>1, <2>3 DEF Starts
<1>2. CASE b # <<>> /\ b[1] = <<F!Eos>>
  <2>1. got' = F!Eof /\ bbIn' = Tail(b) /\ filterPc' = filterPc /\ rd' = rd
    BY <1>2 DEF F!StartRead
  <2>2. Tail(b) \in Seq(Item)
    BY <1>2, HeadTailProperties
  <2>3. got' \in GotSet
    BY <2>1, Records
  <2> QED
    BY <1>2, <2>1, <2>2, <2>3 DEF Starts
<1>3. CASE b # <<>> /\ b[1] # <<F!Eos>>
  <2> DEFINE size == IF len < 0 THEN FilterHuge ELSE len
             e == <<>>
  <2>1. bbIn' = b /\ filterPc' = "reading" /\ got' = got
        /\ rd' = [line |-> line, len |-> len, out |-> e, size |-> size]
    BY <1>3 DEF F!StartRead
  <2>2. size \in Int /\ e \in Seq(Byte)
    OBVIOUS
  <2> HIDE DEF size, e
  <2>3. rd' \in RdSet /\ rd'.len = len /\ rd'.line = line /\ rd'.out = e /\ rd'.size = size
    BY <2>1, <2>2 DEF RdSet
  <2> QED
    BY <1>3, <2>1, <2>3 DEF Starts, size, e
<1> QED
  BY <1>1, <1>2, <1>3

LEMMA MinFacts ==
    /\ \A a \in Int, b \in Int : F!Min({a, b}) = IF a <= b THEN a ELSE b
    /\ \A n \in Nat : \A T \in SUBSET (1..n) : T # {} => F!Min(T) \in T /\ \A j \in T : F!Min(T) <= j
<1>1. ASSUME NEW S, NEW x \in S, \A y \in S : x <= y PROVE F!Min(S) \in S /\ \A y \in S : F!Min(S) <= y
  <2>1. F!Min(S) = CHOOSE z \in S : \A y \in S : z <= y
    BY DEF F!Min
  <2> QED
    BY <1>1, <2>1
<1>2. ASSUME NEW a \in Int, NEW b \in Int PROVE F!Min({a, b}) = IF a <= b THEN a ELSE b
  <2> DEFINE S == {a, b}
  <2>1. \E x \in S : \A y \in S : x <= y
    OBVIOUS
  <2>2. F!Min(S) \in S /\ \A y \in S : F!Min(S) <= y
    <3> HIDE DEF S
    <3> QED
      BY <1>1, <2>1
  <2>3. F!Min(S) \in {a, b} /\ F!Min(S) <= a /\ F!Min(S) <= b
    BY <2>2
  <2> DEFINE m == F!Min(S)
  <2> HIDE DEF m
  <2>4. m = a \/ m = b
    BY <2>3 DEF m
  <2>5. m <= a /\ m <= b
    BY <2>3 DEF m
  <2>6. m = IF a <= b THEN a ELSE b
    BY <2>4, <2>5
  <2> QED
    BY <2>6 DEF m
<1>3. ASSUME NEW n \in Nat, NEW T \in SUBSET (1..n), T # {}
      PROVE  F!Min(T) \in T /\ \A j \in T : F!Min(T) <= j
  <2>1. PICK k \in T : \A j \in T : k <= j
    BY <1>3, LeastExists
  <2> QED
    BY <1>1, <2>1
<1> QED
  BY <1>2, <1>3

(* Every round of the loop of read() copies something, and not more than   *)
(* fits.                                                                   *)
LEMMA CopySizeFacts ==
    ASSUME FilterType, Reads, filterPc = "reading", F!More
    PROVE  /\ bbIn # <<>> /\ bbIn[1] \in Bucket /\ bbIn[1] \in Seq(Byte)
           /\ F!CopySize \in 1..Len(bbIn[1]) /\ F!CopySize <= F!Room /\ F!Room > 0 /\ F!Room \in Int
<1>1. bbIn \in Seq(Item) /\ rd \in RdSet
  BY DEF FilterType
<1>2. rd.len \in Int /\ rd.size \in Int /\ rd.out \in Seq(Byte) /\ Len(rd.out) \in Nat
  <2>1. rd.len \in Int /\ rd.size \in Int /\ rd.out \in Seq(Byte)
    BY <1>1, Records
  <2> QED
    BY <2>1
<1>3. bbIn # <<>> /\ F!IsData(bbIn[1]) /\ (Len(rd.out) < rd.len \/ rd.len = -1)
  BY DEF F!More
<1>4. bbIn[1] \in Item
  BY <1>1, <1>3
<1>5. bbIn[1] \in Bucket /\ bbIn[1] \in Seq(Byte)
  BY <1>3, <1>4, ItemFacts
<1>6. bbIn[1] # <<>>
  BY <1>4, ItemFacts
<1> DEFINE b == bbIn[1]
           r == F!Room
           n == F!Min({Len(b), r})
           nl == {i \in 1..n : rd.line /\ b[i] \in conf.newlines}
<1>7. r \in Int /\ r > 0
  <2>1. r = rd.size - Len(rd.out)
    BY DEF F!Room
  <2> HIDE DEF r
  <2> QED
    BY <1>2, <1>3, <2>1 DEF Reads
<1>8. Len(b) \in Nat /\ Len(b) > 0
  <2>1. \A x \in Seq(Byte) : x # <<>> => Len(x) \in Nat /\ Len(x) > 0
    OBVIOUS
  <2> QED
    BY <1>5, <1>6, <2>1
<1> HIDE DEF b, r
<1>9. n \in 1..Len(b) /\ n <= r
  BY <1>7, <1>8, MinFacts
<1> HIDE DEF n
<1>10. F!CopySize = IF nl = {} THEN n ELSE F!Min(nl)
  BY DEF F!CopySize, n, b, r
<1>11. nl # {} => F!Min(nl) \in 1..n
  <2>1. nl \in SUBSET (1..n) /\ n \in Nat
    BY <1>8, <1>9
  <2> HIDE DEF nl
  <2> QED
    BY <2>1, MinFacts
<1> HIDE DEF nl
<1>12. F!CopySize \in 1..Len(b) /\ F!CopySize <= r
  BY <1>7, <1>8, <1>9, <1>10, <1>11
<1> QED
  BY <1>3, <1>5, <1>7, <1>12 DEF b, r

(* A round of the loop, in parts.                                          *)
Rest(b, n) == IF n < Len(b) THEN <<SubSeq(b, n + 1, Len(b))>> ELSE <<>>
LineIn(b, n) == rd.line /\ n > 0 /\ b[n] \in conf.newlines

LEMMA ReadBucketFacts ==
    ASSUME FilterType, Reads, F!ReadBucket, FilterHuge \in Nat \ {0}
    PROVE  LET b == bbIn[1]
               n == F!CopySize
               s == SubSeq(b, 1, n)
           IN  /\ filterPc = "reading" /\ bbIn # <<>> /\ b \in Bucket /\ n \in 1..Len(b)
               /\ s \in Seq(Byte) /\ s # <<>> /\ Rest(b, n) \in Seq(Item)
               /\ s \o FlattenSeq(Rest(b, n)) = b /\ (Rest(b, n) # <<>> => Len(Rest(b, n)) = 1 /\ Rest(b, n)[1] \in Bucket)
               /\ bbIn' = Rest(b, n) \o Tail(bbIn)
               /\ rd' \in RdSet /\ rd'.len = rd.len /\ rd'.line = rd.line /\ rd'.out = rd.out \o s
               /\ Len(rd'.out) = Len(rd.out) + n
               /\ rd'.size \in {rd.size, rd.size + FilterHuge}
               /\ rd'.size = rd.size + FilterHuge <=>
                      ~LineIn(b, n) /\ rd.len < 0 /\ Len(rd.out) + n = rd.size
               /\ IF LineIn(b, n) THEN filterPc' = "handler" /\ got' = F!Got(rd'.out)
                  ELSE filterPc' = filterPc /\ got' = got
<1> DEFINE b == bbIn[1]
           n == F!CopySize
           s == SubSeq(b, 1, n)
           t == SubSeq(b, n + 1, Len(b))
           longer == rd.out \o s
           size == IF ~LineIn(b, n) /\ rd.len < 0 /\ Len(longer) = rd.size THEN rd.size + FilterHuge ELSE rd.size
<1>1. filterPc = "reading" /\ F!More
  BY DEF F!ReadBucket
<1>2. bbIn # <<>> /\ b \in Bucket /\ b \in Seq(Byte) /\ n \in 1..Len(b)
  BY <1>1, CopySizeFacts
<1>3. bbIn' = Rest(b, n) \o Tail(bbIn)
      /\ rd' = [rd EXCEPT !.out = longer, !.size = size]
      /\ IF LineIn(b, n) THEN filterPc' = "handler" /\ got' = F!Got(longer) ELSE filterPc' = filterPc /\ got' = got
  BY DEF F!ReadBucket, Rest, LineIn
<1> HIDE DEF n
<1>4. /\ s \in Seq(Byte) /\ Len(s) = n /\ t \in Seq(Byte) /\ Len(t) = Len(b) - n /\ s \o t = b
      /\ n = Len(b) => s = b /\ t = <<>>
  <2> HIDE DEF b
  <2>1. n \in 0..Len(b) /\ b \in Seq(Byte)
    BY <1>2
  <2>2. SubSeq(b, 1, n) \in Seq(Byte) /\ Len(SubSeq(b, 1, n)) = n
    BY <2>1, Cut
  <2>3. SubSeq(b, n + 1, Len(b)) \in Seq(Byte)
    BY <2>1, Cut
  <2>4. Len(SubSeq(b, n + 1, Len(b))) = Len(b) - n
    BY <2>1, Cut
  <2>5. SubSeq(b, 1, n) \o SubSeq(b, n + 1, Len(b)) = b
    BY <2>1, Cut
  <2>6. n = Len(b) => SubSeq(b, 1, n) = b /\ SubSeq(b, n + 1, Len(b)) = <<>>
    BY <2>1, Cut
  <2> QED
    BY <2>2, <2>3, <2>4, <2>5, <2>6
<1>5. n \in Nat /\ n >= 1 /\ Len(b) \in Nat
  <2> HIDE DEF b
  <2> QED
    BY <1>2
<1> HIDE DEF s, t, b
<1>6. s # <<>>
  BY <1>4, <1>5
<1>7. Rest(b, n) \in Seq(Item) /\ s \o FlattenSeq(Rest(b, n)) = b
      /\ (Rest(b, n) # <<>> => Len(Rest(b, n)) = 1 /\ Rest(b, n)[1] \in Bucket)
  <2>1. CASE n < Len(b)
    <3>1. Rest(b, n) = <<t>>
      BY <2>1 DEF Rest, t
    <3>2. t # <<>>
      BY <1>4, <1>5, <2>1
    <3>3. t \in Bucket
      BY <1>4, <3>2 DEF Bucket
    <3>4. FlattenSeq(<<t>>) = t
      BY <1>4, FlattenOne
    <3>5. <<t>> \in Seq(Item)
      BY <3>3, ItemFacts
    <3> QED
      BY SMTT(30), <1>4, <3>1, <3>3, <3>4, <3>5
  <2>2. CASE ~(n < Len(b))
    <3>1. Rest(b, n) = <<>> /\ n = Len(b)
      BY <1>2, <1>5, <2>2 DEF Rest
    <3>2. s \o <<>> = b
      BY <1>4, <3>1, ConcatEmptySeq
    <3>3. <<>> \in Seq(Item)
      OBVIOUS
    <3> QED
      BY <3>1, <3>2, <3>3, FlattenEmpty
  <2> QED
    BY <2>1, <2>2
<1>8. rd \in RdSet /\ rd.len \in Int /\ rd.size \in Int /\ rd.out \in Seq(Byte) /\ Len(rd.out) \in Nat
  <2>1. rd \in RdSet
    BY DEF FilterType
  <2>2. rd.len \in Int /\ rd.size \in Int /\ rd.out \in Seq(Byte)
    BY <2>1, Records
  <2> QED
    BY <2>1, <2>2
<1>9. longer \in Seq(Byte) /\ Len(longer) = Len(rd.out) + n
  BY <1>4, <1>8, ConcatProperties
<1> HIDE DEF longer
<1>10. size \in Int /\ size \in {rd.size, rd.size + FilterHuge}
       /\ (size = rd.size + FilterHuge <=> ~LineIn(b, n) /\ rd.len < 0 /\ Len(longer) = rd.size)
  BY <1>8
<1> HIDE DEF size
<1>11. rd' \in RdSet /\ rd'.len = rd.len /\ rd'.line = rd.line /\ rd'.out = longer /\ rd'.size = size
  BY <1>3, <1>8, <1>9, <1>10 DEF RdSet
<1>12. /\ filterPc = "reading" /\ bbIn # <<>> /\ b \in Bucket /\ n \in 1..Len(b)
       /\ s \in Seq(Byte) /\ s # <<>> /\ Rest(b, n) \in Seq(Item)
       /\ s \o FlattenSeq(Rest(b, n)) = b /\ (Rest(b, n) # <<>> => Len(Rest(b, n)) = 1 /\ Rest(b, n)[1] \in Bucket)
       /\ bbIn' = Rest(b, n) \o Tail(bbIn)
       /\ rd' \in RdSet /\ rd'.len = rd.len /\ rd'.line = rd.line /\ rd'.out = rd.out \o s
       /\ Len(rd'.out) = Len(rd.out) + n
       /\ rd'.size \in {rd.size, rd.size + FilterHuge}
       /\ rd'.size = rd.size + FilterHuge <=> ~LineIn(b, n) /\ rd.len < 0 /\ Len(rd.out) + n = rd.size
       /\ IF LineIn(b, n) THEN filterPc' = "handler" /\ got' = F!Got(rd'.out)
          ELSE filterPc' = filterPc /\ got' = got
  <2>1. rd'.out = rd.out \o s
    BY <1>11 DEF longer
  <2> QED
    BY <1>1, <1>2, <1>3, <1>4, <1>6, <1>7, <1>9, <1>10, <1>11, <2>1
<1> QED
  BY <1>12 DEF b, n, s

\* What letting a brigade through leaves.
ThroughTo(b) ==
    \/ /\ ret' = "ok" /\ failed' = FALSE /\ clean' = clean
       /\ passed' = passed \o F!Unmarked(FlattenSeq(b)) /\ written' = written \o DataOf(b)
    \/ /\ ret' = "fail" /\ failed' = TRUE /\ clean' = FALSE
       /\ PassedPart(FlattenSeq(b)) /\ written' = written

LEMMA JoinedOut ==
    ASSUME passed \in Seq(Int), written \in Seq(Int), bbOut \in Seq(Int), NEW b \in Seq(Item)
    PROVE  /\ passed \o F!Unmarked(FlattenSeq(b)) \in Seq(Int) /\ written \o DataOf(b) \in Seq(Int)
           /\ bbOut \o FlattenSeq(b) \in Seq(Int)
<1>1. FlattenSeq(b) \in Seq(Int) /\ DataOf(b) \in Seq(Int)
  BY FlattenItems
<1>2. F!Unmarked(FlattenSeq(b)) \in Seq(Int)
  BY <1>1, DataType
<1> QED
  BY <1>1, <1>2, ConcatProperties

LEMMA ThroughFacts ==
    ASSUME passed \in Seq(Int), written \in Seq(Int), bbOut \in Seq(Int), NEW b \in Seq(Item), F!Through(b)
    PROVE  ThroughTo(b) /\ passed' \in Seq(Int) /\ written' \in Seq(Int)
<1>1. passed \o F!Unmarked(FlattenSeq(b)) \in Seq(Int) /\ written \o DataOf(b) \in Seq(Int)
  BY JoinedOut
<1>2. ThroughTo(b)
  BY FlattenIs DEF F!Through, ThroughTo, PassedPart, DataOf
<1>3. PassedPart(FlattenSeq(b)) => passed' \in Seq(Int)
  BY FlattenItems, PassedPartType
<1> QED
  BY <1>1, <1>2, <1>3 DEF ThroughTo

\* An exception, caught or not.
RaisedTo == filterPc' \in {"handler", "raised"} /\ (filterPc' = "handler" => ~conf.copy) /\ clean' = FALSE

LEMMA RaisesFacts == ASSUME F!Raises \/ F!Raised PROVE RaisedTo
BY DEF F!Raises, F!Raised, RaisedTo

\* What an input filter's read of more leaves.
FetchedTo(line, len) ==
    \/ /\ rc' = "ok" /\ failed' = FALSE /\ clean' = clean
       /\ \E b \in Seq(Item) : F!Gives(b) /\ bbIn \o b \in Seq(Item) /\ Starts(line, len, bbIn \o b)
    \/ /\ rc' = "again" /\ failed' = FALSE /\ clean' = clean
       /\ given' = given /\ ended' = ended /\ Starts(line, len, bbIn)
    \/ /\ rc' = "fail" /\ failed' = TRUE /\ RaisedTo
       /\ given' = given /\ ended' = ended /\ bbIn' = bbIn /\ rd' = rd /\ got' = got

LEMMA FetchedFacts ==
    ASSUME F!FilterAssumption, FilterType, NEW line \in BOOLEAN, NEW len \in FilterLens, F!Fetched(line, len)
    PROVE  FetchedTo(line, len) /\ rd' \in RdSet /\ got' \in GotSet /\ bbIn' \in Seq(Item)
           /\ given' \in 0..FilterBytes /\ ended' \in BOOLEAN
<1>1. FilterBytes \in Nat /\ FilterHuge \in Nat \ {0} /\ len \in Int
  BY DEF F!FilterAssumption
<1>2. bbIn \in Seq(Item) /\ given \in 0..FilterBytes /\ ended \in BOOLEAN /\ rd \in RdSet /\ got \in GotSet
  BY DEF FilterType
<1>3. ASSUME NEW b \in Seq(Item), F!StartRead(line, len, b)
      PROVE  Starts(line, len, b) /\ rd' \in RdSet /\ got' \in GotSet /\ bbIn' \in Seq(Item)
  BY <1>1, <1>2, <1>3, StartReadFacts
<1>4. CASE (\E b : F!Gives(b) /\ F!StartRead(line, len, bbIn \o b)) /\ rc' = "ok" /\ failed' = FALSE
           /\ UNCHANGED clean
  <2>1. PICK b : F!Gives(b) /\ F!StartRead(line, len, bbIn \o b)
    BY <1>4
  <2>2. b \in Seq(Item) /\ given' \in 0..FilterBytes /\ ended' \in BOOLEAN
    BY <1>1, <1>2, <2>1, GivesFacts
  <2>3. bbIn \o b \in Seq(Item)
    BY <1>2, <2>2, ConcatProperties
  <2> DEFINE c == bbIn \o b
  <2>4. Starts(line, len, c) /\ rd' \in RdSet /\ got' \in GotSet /\ bbIn' \in Seq(Item)
    <3> HIDE DEF c
    <3>1. c \in Seq(Item) /\ F!StartRead(line, len, c)
      BY <2>1, <2>3 DEF c
    <3> QED
      BY <1>3, <3>1
  <2> QED
    BY <1>4, <2>1, <2>2, <2>3, <2>4 DEF FetchedTo
<1>5. CASE rc' = "again" /\ failed' = FALSE /\ F!StartRead(line, len, bbIn) /\ UNCHANGED <<given, ended, clean>>
  <2>1. Starts(line, len, bbIn) /\ rd' \in RdSet /\ got' \in GotSet /\ bbIn' \in Seq(Item)
    BY <1>2, <1>3, <1>5
  <2> QED
    BY <1>2, <1>5, <2>1 DEF FetchedTo
<1>6. CASE rc' = "fail" /\ failed' = TRUE /\ F!Raises /\ UNCHANGED <<given, ended, bbIn, rd, got>>
  BY <1>2, <1>6, RaisesFacts DEF FetchedTo
<1>7. \/ (\E b : F!Gives(b) /\ F!StartRead(line, len, bbIn \o b)) /\ rc' = "ok" /\ failed' = FALSE
         /\ UNCHANGED clean
      \/ rc' = "again" /\ failed' = FALSE /\ F!StartRead(line, len, bbIn) /\ UNCHANGED <<given, ended, clean>>
      \/ rc' = "fail" /\ failed' = TRUE /\ F!Raises /\ UNCHANGED <<given, ended, bbIn, rd, got>>
  BY DEF F!Fetched, F!source
<1> QED
  BY <1>4, <1>5, <1>6, <1>7

\* What pass_on() leaves.
PassedOnTo ==
    \/ /\ conf.input /\ rc' = "ok" /\ failed' = FALSE /\ clean' = clean
       /\ passed' = passed /\ bbIn' = bbIn
       /\ \E b \in Seq(Item) : F!Gives(b) /\ bbOut' = bbOut \o FlattenSeq(b) /\ written' = written \o DataOf(b)
    \/ /\ ~conf.input /\ rc' = "ok" /\ failed' = FALSE /\ clean' = clean
       /\ bbIn' = <<>> /\ bbOut' = bbOut /\ given' = given /\ ended' = ended
       /\ passed' = passed \o F!Unmarked(FlattenSeq(bbIn)) /\ written' = written \o DataOf(bbIn)
    \/ /\ rc' = "fail" /\ failed' = TRUE /\ clean' = FALSE
       /\ bbOut' = bbOut /\ given' = given /\ ended' = ended /\ written' = written
       /\ \/ bbIn' = bbIn /\ passed' = passed
          \/ bbIn' = <<>> /\ PassedPart(FlattenSeq(bbIn))

LEMMA PassOnFacts ==
    ASSUME F!FilterAssumption, FilterType, F!PassOn
    PROVE  /\ PassedOnTo /\ bbIn' \in Seq(Item) /\ bbOut' \in Seq(Int) /\ passed' \in Seq(Int)
           /\ written' \in Seq(Int) /\ given' \in 0..FilterBytes /\ ended' \in BOOLEAN
           /\ filterPc = "handler" /\ ~conf.copy /\ (~conf.input => F!Data(bbOut) = <<>>)
<1>1. FilterBytes \in Nat
  BY DEF F!FilterAssumption
<1>2. bbIn \in Seq(Item) /\ given \in 0..FilterBytes /\ ended \in BOOLEAN /\ bbOut \in Seq(Int)
      /\ passed \in Seq(Int) /\ written \in Seq(Int)
  BY DEF FilterType
<1>3. filterPc = "handler" /\ ~conf.copy /\ (~conf.input => F!Data(bbOut) = <<>>)
  BY DEF F!PassOn, F!Calls, F!InTurn
<1>4. CASE conf.input
  <2>1. CASE (\E b : F!Gives(b) /\ bbOut' = bbOut \o F!FlattenSeq(b)
                      /\ written' = written \o F!Data(F!FlattenSeq(b)))
             /\ rc' = "ok" /\ failed' = FALSE /\ UNCHANGED <<passed, bbIn, clean>>
    <3>1. PICK b : F!Gives(b) /\ bbOut' = bbOut \o FlattenSeq(b) /\ written' = written \o DataOf(b)
      BY <2>1, FlattenIs DEF DataOf
    <3>2. b \in Seq(Item) /\ given' \in 0..FilterBytes /\ ended' \in BOOLEAN
      BY <1>1, <1>2, <3>1, GivesFacts
    <3>3. bbOut' \in Seq(Int) /\ written' \in Seq(Int)
      BY <1>2, <3>1, <3>2, JoinedOut
    <3> QED
      BY <1>2, <1>3, <1>4, <2>1, <3>1, <3>2, <3>3 DEF PassedOnTo
  <2>2. CASE rc' = "fail" /\ failed' = TRUE /\ clean' = FALSE
             /\ UNCHANGED <<given, ended, bbIn, bbOut, written, passed>>
    BY <1>2, <1>3, <2>2 DEF PassedOnTo
  <2>3. \/ (\E b : F!Gives(b) /\ bbOut' = bbOut \o F!FlattenSeq(b)
                    /\ written' = written \o F!Data(F!FlattenSeq(b)))
           /\ rc' = "ok" /\ failed' = FALSE /\ UNCHANGED <<passed, bbIn, clean>>
        \/ rc' = "fail" /\ failed' = TRUE /\ clean' = FALSE
             /\ UNCHANGED <<given, ended, bbIn, bbOut, written, passed>>
    BY <1>4 DEF F!PassOn, F!source
  <2> QED
    BY <2>1, <2>2, <2>3
<1>5. CASE ~conf.input
  <2> DEFINE x == FlattenSeq(bbIn)
             d == DataOf(bbIn)
  <2>1. x \in Seq(Int) /\ passed \o F!Unmarked(x) \in Seq(Int) /\ written \o d \in Seq(Int)
    BY <1>2, JoinedOut, FlattenItems
  <2>2. bbIn' = <<>> /\ given' = given /\ ended' = ended /\ bbOut' = bbOut
        /\ \/ /\ passed' = passed \o F!Unmarked(x) /\ written' = written \o d
              /\ rc' = "ok" /\ failed' = FALSE /\ clean' = clean
           \/ /\ PassedPart(x) /\ rc' = "fail" /\ failed' = TRUE /\ clean' = FALSE /\ written' = written
    <3>1. F!FlattenSeq(bbIn) = x
      BY FlattenIs
    <3> HIDE DEF x
    <3> QED
      BY <1>5, <3>1 DEF F!PassOn, F!source, PassedPart, DataOf, x
  <2> HIDE DEF x, d
  <2>3. <<>> \in Seq(Item)
    OBVIOUS
  <2>4. passed' \in Seq(Int) /\ written' \in Seq(Int)
    BY <1>2, <2>1, <2>2, PassedPartType
  <2>5. PassedOnTo
    BY <1>5, <2>2 DEF PassedOnTo, x, d
  <2> QED
    BY <1>2, <1>3, <2>2, <2>3, <2>4, <2>5
<1> QED
  BY <1>4, <1>5

-----------------------------------------------------------------------------
(* The types, and the bounds of what is read.                              *)

LEMMA InitFilter == F!FilterAssumption /\ F!Init => FilterInv
<1> SUFFICES ASSUME F!FilterAssumption, F!Init PROVE FilterInv
  OBVIOUS
<1>1. FilterBytes \in Nat /\ 0 \in 0..FilterBytes
  BY DEF F!FilterAssumption
<1> DEFINE c == [made |-> FALSE, named |-> FALSE, transparent |-> FALSE]
<1>2. c \in CtxSet /\ c.transparent = FALSE
  BY DEF CtxSet
<1> HIDE DEF c
<1>3. /\ conf \in ConfSet /\ registered = FALSE /\ ctx = c /\ given = 0 /\ ended = FALSE
      /\ filterPc = "open" /\ bbIn = <<>> /\ bbOut = <<>> /\ closed = FALSE /\ rc = "ok"
      /\ rd = F!NoRead /\ got = F!Unread /\ failed = FALSE /\ ret = "ok"
      /\ clean = TRUE /\ written = <<>> /\ passed = <<>>
  BY DEF F!Init, ConfSet, c
<1>4. <<>> \in Seq(Item) /\ <<>> \in Seq(Int) /\ <<>> \in Seq(Byte)
  OBVIOUS
<1>5. FilterType
  BY <1>1, <1>2, <1>3, <1>4, Records DEF FilterType
<1>6. Reads
  BY <1>3, Records DEF Reads
<1>7. Failing
  BY <1>3 DEF Failing, InCall
<1>8. Giving
  BY <1>3, <1>4, DataMarks, ConcatEmptySeq DEF Giving, InCall
<1>9. Copying
  <2>1. F!Bytes(1, 0) = <<>>
    BY DEF F!Bytes
  <2>2. <<>> \o <<>> = <<>>
    BY <1>4, ConcatEmptySeq
  <2> QED
    BY <1>2, <1>3, <1>4, <2>1, <2>2 DEF Copying, CopyIdle, InCall, Join, End
<1> QED
  BY <1>5, <1>6, <1>7, <1>8, <1>9 DEF FilterInv

\* What a new call of the handler begins with.
Begun(b) ==
    /\ filterPc' = "handler" /\ bbIn' = b /\ bbOut' = <<>> /\ closed' = FALSE /\ rc' = "ok"
    /\ rd' = F!NoRead /\ got' = F!Unread /\ failed' = FALSE
    /\ ret' = ret /\ clean' = clean /\ written' = written /\ passed' = passed

\* What a call that drops the brigade leaves.
Missed ==
    /\ ret' = "error" /\ clean' = FALSE /\ filterPc' = filterPc /\ bbIn' = bbIn /\ bbOut' = bbOut
    /\ closed' = closed /\ rc' = rc /\ rd' = rd /\ got' = got /\ failed' = FALSE
    /\ written' = written /\ passed' = passed

\* What stays when a call lets a brigade through.
Still == /\ filterPc' = filterPc /\ bbIn' = bbIn /\ bbOut' = bbOut /\ closed' = closed /\ rc' = rc
         /\ rd' = rd /\ got' = got

\* A call of python_filter(), with what the source gives or nothing.
CallTo(b) ==
    \/ ctx.transparent /\ Still /\ ThroughTo(b)
    \/ ~ctx.transparent /\ Missed
    \/ ~ctx.transparent /\ F!Found /\ Begun(b)
Called ==
    /\ filterPc = "idle" /\ conf' = conf /\ registered' = registered
    /\ ctx' = [ctx EXCEPT !.made = TRUE]
    /\ passed' \in Seq(Int) /\ written' \in Seq(Int)
    /\ \/ ~conf.input /\ ~ended /\ \E b \in Seq(Item) : F!Gives(b) /\ CallTo(b)
       \/ /\ conf.input /\ ~(ended /\ F!Eos \in F!Range(passed))
          /\ \/ ctx.transparent /\ Still /\ \E b \in Seq(Item) : F!Gives(b) /\ ThroughTo(b)
             \/ given' = given /\ ended' = ended /\ ~ctx.transparent /\ Missed
             \/ given' = given /\ ended' = ended /\ ~ctx.transparent /\ F!Found /\ Begun(<<>>)

LEMMA CallFacts ==
    ASSUME F!FilterAssumption, FilterType, F!OutputCall \/ F!InputCall
    PROVE  Called /\ given' \in 0..FilterBytes /\ ended' \in BOOLEAN
<1>1. FilterBytes \in Nat
  BY DEF F!FilterAssumption
<1>2. given \in 0..FilterBytes /\ ended \in BOOLEAN /\ passed \in Seq(Int) /\ written \in Seq(Int) /\ bbOut \in Seq(Int)
  BY DEF FilterType
<1>3. ASSUME NEW b, F!Gives(b) PROVE b \in Seq(Item) /\ given' \in 0..FilterBytes /\ ended' \in BOOLEAN
  BY <1>1, <1>2, <1>3, GivesFacts
<1>4. ASSUME NEW b, F!Through(b) PROVE Still
  BY <1>4 DEF F!Through, F!object, Still
<1>5. ASSUME F!Dropped PROVE Missed /\ passed' \in Seq(Int) /\ written' \in Seq(Int)
  BY <1>2, <1>5 DEF F!Dropped, F!object, Missed
<1>6. ASSUME NEW b, F!Dispatched(b) PROVE Begun(b) /\ passed' \in Seq(Int) /\ written' \in Seq(Int)
  BY <1>2, <1>6 DEF F!Dispatched, F!NewFilter, F!history, Begun
<1>7. CASE F!OutputCall
  <2>1. PICK b : /\ F!Gives(b)
                 /\ \/ ctx.transparent /\ F!Through(b)
                    \/ ~ctx.transparent /\ F!Dropped
                    \/ ~ctx.transparent /\ F!Found /\ F!Dispatched(b)
    BY <1>7 DEF F!OutputCall
  <2>2. filterPc = "idle" /\ ~conf.input /\ ~ended /\ ctx' = [ctx EXCEPT !.made = TRUE] /\ conf' = conf
        /\ registered' = registered
    BY <1>7 DEF F!OutputCall, F!MadeCtx, F!setup
  <2>3. b \in Seq(Item) /\ given' \in 0..FilterBytes /\ ended' \in BOOLEAN
    BY <1>3, <2>1
  <2>4. CallTo(b) /\ passed' \in Seq(Int) /\ written' \in Seq(Int)
    <3>1. CASE ctx.transparent /\ F!Through(b)
      BY <1>2, <1>4, <2>3, <3>1, ThroughFacts DEF CallTo
    <3>2. CASE ~ctx.transparent /\ F!Dropped
      BY <1>5, <3>2 DEF CallTo
    <3>3. CASE ~ctx.transparent /\ F!Found /\ F!Dispatched(b)
      BY <1>6, <3>3 DEF CallTo
    <3> QED
      BY <2>1, <3>1, <3>2, <3>3
  <2> QED
    BY <2>1, <2>2, <2>3, <2>4 DEF Called
<1>8. CASE F!InputCall
  <2>1. filterPc = "idle" /\ conf.input /\ ~(ended /\ F!Eos \in F!Range(passed))
        /\ ctx' = [ctx EXCEPT !.made = TRUE] /\ conf' = conf /\ registered' = registered
    BY <1>8 DEF F!InputCall, F!MadeCtx, F!setup
  <2>2. \/ ctx.transparent /\ (\E b : F!Gives(b) /\ F!Through(b))
        \/ ~ctx.transparent /\ F!Dropped /\ given' = given /\ ended' = ended
        \/ ~ctx.transparent /\ F!Found /\ F!Dispatched(<<>>) /\ given' = given /\ ended' = ended
    BY <1>8 DEF F!InputCall, F!source
  <2>3. CASE ctx.transparent /\ (\E b : F!Gives(b) /\ F!Through(b))
    <3>1. PICK b : F!Gives(b) /\ F!Through(b)
      BY <2>3
    <3>2. b \in Seq(Item) /\ given' \in 0..FilterBytes /\ ended' \in BOOLEAN
      BY <1>3, <3>1
    <3>3. ThroughTo(b) /\ Still /\ passed' \in Seq(Int) /\ written' \in Seq(Int)
      BY <1>2, <1>4, <3>1, <3>2, ThroughFacts
    <3> QED
      BY <2>1, <2>3, <3>1, <3>2, <3>3 DEF Called
  <2>4. CASE ~ctx.transparent /\ F!Dropped /\ given' = given /\ ended' = ended
    BY <1>2, <1>5, <2>1, <2>4 DEF Called
  <2>5. CASE ~ctx.transparent /\ F!Found /\ F!Dispatched(<<>>) /\ given' = given /\ ended' = ended
    <3> DEFINE e == <<>>
    <3>1. Begun(e) /\ passed' \in Seq(Int) /\ written' \in Seq(Int)
      <4>1. F!Dispatched(e)
        BY <2>5
      <4> HIDE DEF e
      <4> QED
        BY <1>6, <4>1
    <3> QED
      BY <1>2, <2>1, <2>5, <3>1 DEF Called
  <2> QED
    BY <2>2, <2>3, <2>4, <2>5
<1> QED
  BY <1>7, <1>8

LEMMA CalledType ==
    ASSUME F!FilterAssumption, FilterType, Reads, F!OutputCall \/ F!InputCall
    PROVE  FilterType' /\ Reads'
<1>1. Called /\ given' \in 0..FilterBytes /\ ended' \in BOOLEAN
  BY CallFacts
<1>2. conf' \in ConfSet /\ ctx' \in CtxSet /\ registered' \in BOOLEAN /\ passed' \in Seq(Int) /\ written' \in Seq(Int)
  BY <1>1, Records DEF Called, FilterType
<1>3. CASE Still /\ \E b \in Seq(Item) : ThroughTo(b)
  <2>1. failed' \in BOOLEAN /\ clean' \in BOOLEAN /\ ret' \in {"ok", "fail"}
    <3>1. PICK b \in Seq(Item) : ThroughTo(b)
      BY <1>3
    <3> QED
      BY <3>1 DEF ThroughTo, FilterType
  <2> QED
    BY <1>1, <1>2, <1>3, <2>1 DEF FilterType, Reads, Still
<1>4. CASE Missed
  BY <1>1, <1>2, <1>4 DEF FilterType, Reads, Missed
<1>5. ASSUME NEW b \in Seq(Item), Begun(b) PROVE FilterType' /\ Reads'
  <2>1. <<>> \in Seq(Int)
    OBVIOUS
  <2>2. FilterType'
    BY <1>1, <1>2, <1>5, <2>1, Records DEF FilterType, Begun
  <2>3. Reads'
    BY <1>5, Records DEF Reads, Begun
  <2> QED
    BY <2>2, <2>3
<1>6. <<>> \in Seq(Item)
  OBVIOUS
<1> QED
  BY <1>1, <1>3, <1>4, <1>5, <1>6 DEF Called, CallTo

LEMMA SmallType ==
    ASSUME FilterType, Reads, F!RegisterFilter \/ F!AddFilter \/ F!Disable \/ F!HandlerRaises \/ F!ReadFails
    PROVE  FilterType' /\ Reads'
<1>1. CASE F!RegisterFilter
  BY <1>1 DEF F!RegisterFilter, F!source, F!object, F!history, FilterType, Reads
<1>2. CASE F!AddFilter
  <2>1. ctx' \in CtxSet
    BY <1>2, Records DEF F!AddFilter, FilterType
  <2> QED
    BY <1>2, <2>1 DEF F!AddFilter, F!setup, F!source, F!object, F!history, FilterType, Reads
<1>3. CASE F!Disable
  <2>1. ctx' \in CtxSet
    BY <1>3, Records DEF F!Disable, FilterType
  <2> QED
    BY <1>3, <2>1 DEF F!Disable, F!Calls, F!setup, F!source, F!object, F!history, FilterType, Reads
<1>4. CASE F!HandlerRaises
  BY ZenonT(30), <1>4 DEF F!HandlerRaises, F!Raised, F!setup, F!source, F!object, FilterType, Reads
<1>5. CASE F!ReadFails
  <2>1. RaisedTo
    BY <1>5, RaisesFacts DEF F!ReadFails
  <2>2. filterPc' \in {"handler", "raised"} /\ clean' = FALSE
    BY <2>1 DEF RaisedTo
  <2>3. /\ conf' = conf /\ registered' = registered /\ ctx' = ctx /\ given' = given /\ ended' = ended
        /\ bbIn' = bbIn /\ bbOut' = bbOut /\ closed' = closed /\ rc' = rc /\ rd' = rd /\ got' = got
        /\ failed' = failed /\ ret' = ret /\ passed' = passed /\ written' = written
    BY <1>5 DEF F!ReadFails, F!setup, F!source, F!object
  <2> QED
    BY <2>2, <2>3 DEF FilterType, Reads
<1> QED
  BY <1>1, <1>2, <1>3, <1>4, <1>5

\* What the start of a read leaves.
Asked(line, len) ==
    /\ filterPc = "handler" /\ (conf.copy => got.is = "unread" /\ len # 0 /\ len >= -1)
    /\ conf' = conf /\ registered' = registered /\ ctx' = ctx
    /\ bbOut' = bbOut /\ closed' = closed /\ ret' = ret /\ written' = written /\ passed' = passed
    /\ \/ /\ closed /\ RaisedTo /\ given' = given /\ ended' = ended
          /\ bbIn' = bbIn /\ rc' = rc /\ rd' = rd /\ got' = got /\ failed' = failed
       \/ ~closed /\ conf.input /\ FetchedTo(line, len)
       \/ /\ ~closed /\ ~conf.input /\ Starts(line, len, bbIn) /\ given' = given /\ ended' = ended
          /\ rc' = rc /\ failed' = failed /\ clean' = clean

LEMMA ReadFacts ==
    ASSUME F!FilterAssumption, FilterType, NEW line \in BOOLEAN, NEW len \in FilterLens, F!Read(line, len)
    PROVE  Asked(line, len) /\ rd' \in RdSet /\ got' \in GotSet /\ bbIn' \in Seq(Item)
           /\ given' \in 0..FilterBytes /\ ended' \in BOOLEAN
<1>1. len \in Int /\ FilterHuge \in Nat \ {0}
  BY DEF F!FilterAssumption
<1>2. bbIn \in Seq(Item) /\ rd \in RdSet /\ got \in GotSet /\ given \in 0..FilterBytes /\ ended \in BOOLEAN
      /\ closed \in BOOLEAN /\ conf.input \in BOOLEAN
  BY Records DEF FilterType
<1>3. /\ filterPc = "handler" /\ (conf.copy => got.is = "unread" /\ len # 0 /\ len >= -1)
      /\ conf' = conf /\ registered' = registered /\ ctx' = ctx
      /\ bbOut' = bbOut /\ closed' = closed /\ ret' = ret /\ written' = written /\ passed' = passed
  BY DEF F!Read, F!Calls, F!setup
<1>4. CASE closed
  <2>1. RaisedTo /\ given' = given /\ ended' = ended
        /\ bbIn' = bbIn /\ rc' = rc /\ rd' = rd /\ got' = got /\ failed' = failed
    BY <1>4, RaisesFacts DEF F!Read, F!source
  <2> QED
    BY <1>2, <1>3, <1>4, <2>1 DEF Asked
<1>5. CASE ~closed /\ conf.input
  <2>1. F!Fetched(line, len)
    BY <1>5 DEF F!Read
  <2> QED
    BY <1>3, <1>5, <2>1, FetchedFacts DEF Asked
<1>6. CASE ~closed /\ ~conf.input
  <2>1. F!StartRead(line, len, bbIn) /\ given' = given /\ ended' = ended /\ rc' = rc
        /\ failed' = failed /\ clean' = clean
    BY <1>6 DEF F!Read, F!source
  <2>2. Starts(line, len, bbIn) /\ rd' \in RdSet /\ got' \in GotSet /\ bbIn' \in Seq(Item)
    BY <1>1, <1>2, <2>1, StartReadFacts
  <2> QED
    BY <1>2, <1>3, <1>6, <2>1, <2>2 DEF Asked
<1> QED
  BY <1>2, <1>4, <1>5, <1>6

LEMMA StartsReads ==
    ASSUME FilterHuge \in Nat \ {0}, Reads, filterPc = "handler", NEW len \in Int, NEW line, NEW b,
           Starts(line, len, b)
    PROVE  Reads' /\ filterPc' \in {"handler", "reading"}
<1>1. CASE rd' = rd /\ filterPc' = filterPc
  BY <1>1 DEF Reads
<1>2. CASE filterPc' = "reading" /\ rd'.len = len /\ rd'.out = <<>> /\ rd'.size = IF len < 0 THEN FilterHuge ELSE len
  <2>1. Len(<<>>) = 0
    OBVIOUS
  <2> QED
    BY <1>2, <2>1 DEF Reads
<1> QED
  BY <1>1, <1>2 DEF Starts

LEMMA ReadType ==
    ASSUME F!FilterAssumption, FilterType, Reads, NEW line \in BOOLEAN, NEW len \in FilterLens, F!Read(line, len)
    PROVE  FilterType' /\ Reads'
<1>1. Asked(line, len) /\ rd' \in RdSet /\ got' \in GotSet /\ bbIn' \in Seq(Item)
      /\ given' \in 0..FilterBytes /\ ended' \in BOOLEAN
  BY ReadFacts
<1>2. len \in Int /\ FilterHuge \in Nat \ {0}
  BY DEF F!FilterAssumption
<1>3. filterPc = "handler" /\ conf' = conf /\ registered' = registered /\ ctx' = ctx
      /\ bbOut' = bbOut /\ closed' = closed /\ ret' = ret /\ written' = written /\ passed' = passed
  BY <1>1 DEF Asked
<1>4. ASSUME NEW b, Starts(line, len, b) PROVE Reads' /\ filterPc' \in {"handler", "reading"}
  BY <1>2, <1>3, <1>4, StartsReads
<1>5. /\ filterPc' \in {"handler", "reading", "raised"} /\ Reads'
      /\ rc' \in {"ok", "again", "fail"} /\ failed' \in BOOLEAN /\ clean' \in BOOLEAN
  <2>1. CASE RaisedTo /\ rc' = rc /\ rd' = rd /\ failed' = failed
    BY <2>1 DEF RaisedTo, FilterType, Reads
  <2>2. CASE FetchedTo(line, len)
    <3>1. CASE rc' = "fail" /\ failed' = TRUE /\ RaisedTo /\ rd' = rd
      BY <3>1 DEF RaisedTo, Reads
    <3>2. CASE /\ rc' \in {"ok", "again"} /\ failed' = FALSE /\ clean' = clean
               /\ \E b \in Seq(Item) : Starts(line, len, b)
      BY <1>4, <3>2 DEF FilterType
    <3>3. bbIn \in Seq(Item)
      BY DEF FilterType
    <3> QED
      BY <2>2, <3>1, <3>2, <3>3 DEF FetchedTo
  <2>3. CASE Starts(line, len, bbIn) /\ rc' = rc /\ failed' = failed /\ clean' = clean
    BY <1>4, <2>3 DEF FilterType
  <2> QED
    BY <1>1, <2>1, <2>2, <2>3 DEF Asked
<1> QED
  BY <1>1, <1>3, <1>5 DEF FilterType

LEMMA ReadBucketType ==
    ASSUME F!FilterAssumption, FilterType, Reads, F!ReadBucket
    PROVE  FilterType' /\ Reads'
<1>1. FilterHuge \in Nat \ {0}
  BY DEF F!FilterAssumption
<1> DEFINE b == bbIn[1]
           n == F!CopySize
           s == SubSeq(b, 1, n)
<1>2. /\ filterPc = "reading" /\ bbIn # <<>> /\ b \in Bucket /\ n \in 1..Len(b)
      /\ Rest(b, n) \in Seq(Item) /\ bbIn' = Rest(b, n) \o Tail(bbIn)
      /\ rd' \in RdSet /\ rd'.len = rd.len
      /\ Len(rd'.out) = Len(rd.out) + n
      /\ rd'.size \in {rd.size, rd.size + FilterHuge}
      /\ rd'.size = rd.size + FilterHuge <=> ~LineIn(b, n) /\ rd.len < 0 /\ Len(rd.out) + n = rd.size
      /\ IF LineIn(b, n) THEN filterPc' = "handler" /\ got' = F!Got(rd'.out)
         ELSE filterPc' = filterPc /\ got' = got
  BY <1>1, ReadBucketFacts
<1>3. F!More
  BY DEF F!ReadBucket
<1>4. n <= F!Room /\ F!Room = rd.size - Len(rd.out)
  BY <1>2, <1>3, CopySizeFacts DEF F!Room
<1>5. Len(b) \in Nat
  BY <1>2 DEF Bucket
<1> HIDE DEF n, b
<1>6. rd.len \in Int /\ rd.size \in Int /\ Len(rd.out) \in Nat /\ n \in Nat /\ rd'.out \in Seq(Byte)
  <2>1. rd.len \in Int /\ rd.size \in Int /\ rd.out \in Seq(Byte) /\ rd'.out \in Seq(Byte)
    BY <1>2, Records DEF FilterType
  <2> QED
    BY <1>2, <1>5, <2>1
<1>7. Reads'
  <2> DEFINE k == Len(rd'.out)
             m == rd'.size
             line == LineIn(b, n)
  <2>1. k = Len(rd.out) + n /\ m \in {rd.size, rd.size + FilterHuge}
        /\ (m = rd.size + FilterHuge <=> ~line /\ rd.len < 0 /\ Len(rd.out) + n = rd.size)
        /\ rd'.len = rd.len /\ (line => filterPc' = "handler") /\ n <= rd.size - Len(rd.out)
    BY <1>2, <1>4
  <2>2. rd.len >= 0 => rd.size = rd.len
    BY DEF Reads
  <2> HIDE DEF k, m, line
  <2>3. CASE rd.len >= 0
    <3>1. m = rd.size
      BY <1>1, <1>6, <2>1, <2>3
    <3> QED
      BY <1>6, <2>1, <2>2, <2>3, <3>1 DEF Reads, k, m
  <2>4. CASE rd.len < 0
    <3>1. k <= m
      BY <1>1, <1>6, <2>1
    <3>2. line \/ k < m
      BY <1>1, <1>6, <2>1, <2>4
    <3> QED
      BY <1>6, <2>1, <2>4, <3>1, <3>2 DEF Reads, k, m
  <2> QED
    BY <1>6, <2>3, <2>4
<1>8. bbIn' \in Seq(Item)
  <2>1. bbIn \in Seq(Item)
    BY DEF FilterType
  <2>2. Tail(bbIn) \in Seq(Item)
    BY <1>2, <2>1, HeadTailProperties
  <2> QED
    BY <1>2, <2>2, ConcatProperties
<1>9. got' \in GotSet /\ filterPc' \in {"handler", "reading"}
  <2>1. CASE LineIn(b, n)
    BY <1>2, <1>6, <2>1, Records
  <2>2. CASE ~LineIn(b, n)
    BY <1>2, <2>2 DEF FilterType
  <2> QED
    BY <2>1, <2>2
<1>10. FilterType'
  BY ZenonT(30), <1>2, <1>8, <1>9 DEF F!ReadBucket, F!setup, F!source, F!history, FilterType
<1> QED
  BY <1>7, <1>10

LEMMA ReadEndsType == ASSUME FilterType, Reads, F!ReadEnds PROVE FilterType' /\ Reads'
<1>1. got' \in GotSet
  BY Records DEF F!ReadEnds, FilterType
<1> QED
  BY <1>1 DEF F!ReadEnds, F!setup, F!source, F!object, F!history, FilterType, Reads

\* What flush() and what it passes leave.
FlushedOut(items) ==
    \/ /\ conf.input /\ bbOut' = items /\ passed' = passed /\ rc' = rc /\ failed' = failed
    \/ /\ ~conf.input /\ bbOut' = <<>> /\ PassedOn(items)

LEMMA FlushOutFacts ==
    ASSUME FilterType, NEW items \in Seq(Int), F!FlushOut(items)
    PROVE  FlushedOut(items) /\ bbOut' \in Seq(Int) /\ passed' \in Seq(Int)
           /\ rc' \in {"ok", "again", "fail"} /\ failed' \in BOOLEAN
<1>1. CASE conf.input
  BY <1>1 DEF F!FlushOut, FlushedOut, FilterType
<1>2. CASE ~conf.input
  <2>1. F!PassOut(items)
    BY <1>2 DEF F!FlushOut
  <2>2. bbOut' = <<>> /\ PassedOn(items) /\ passed' \in Seq(Int)
    BY <2>1, PassOutFacts DEF FilterType
  <2>3. rc' \in {"ok", "again", "fail"} /\ failed' \in BOOLEAN
    BY <2>2 DEF PassedOn, FilterType
  <2>4. <<>> \in Seq(Int)
    OBVIOUS
  <2> QED
    BY <1>2, <2>2, <2>3, <2>4 DEF FlushedOut
<1> QED
  BY <1>1, <1>2

LEMMA ShownType == ASSUME NEW d \in Seq(Int), NEW x \in F!Shown(d) PROVE x \in Seq(Int) /\ (conf.keeps => x = d)
<1>1. CASE conf.keeps
  BY <1>1 DEF F!Shown
<1>2. CASE ~conf.keeps
  <2>1. PICK over \in SUBSET DOMAIN d : x = [i \in DOMAIN d |-> IF i \in over THEN F!Garbage ELSE d[i]]
    BY <1>2 DEF F!Shown
  <2>2. F!Garbage \in Int
    BY MarksAre
  <2>3. Len(d) \in Nat /\ DOMAIN d = 1..Len(d) /\ \A i \in DOMAIN d : d[i] \in Int
    OBVIOUS
  <2>4. x \in [1..Len(d) -> Int]
    BY <2>1, <2>2, <2>3
  <2> QED
    BY <1>2, <2>3, <2>4
<1> QED
  BY <1>1, <1>2

LEMMA WriteType == ASSUME FilterType, Reads, F!Write PROVE FilterType' /\ Reads'
<1>1. PICK d \in IF conf.copy THEN {got.data} ELSE {got.data, <<F!Own>>} :
        IF closed THEN F!Raises /\ UNCHANGED <<bbOut, got, written>>
        ELSE /\ \E shown \in F!Shown(d) : bbOut' = bbOut \o shown
             /\ written' = written \o d /\ got' = F!Unread /\ UNCHANGED <<filterPc, clean>>
  BY DEF F!Write
<1>2. d \in Seq(Int)
  <2>1. got.data \in Seq(Byte)
    BY Records DEF FilterType
  <2>2. got.data \in Seq(Int)
    BY <2>1, ItemFacts
  <2>3. <<F!Own>> \in Seq(Int)
    BY MarksAre
  <2> QED
    BY <1>1, <2>2, <2>3
<1>3. bbOut \in Seq(Int) /\ written \o d \in Seq(Int) /\ \A x \in F!Shown(d) : bbOut \o x \in Seq(Int)
  BY <1>2, ShownType, ConcatProperties DEF FilterType
<1>4. bbOut' \in Seq(Int) /\ written' \in Seq(Int) /\ got' \in GotSet /\ clean' \in BOOLEAN
      /\ filterPc' \in {"handler", "raised"}
  <2>1. CASE closed
    BY <1>1, <2>1, RaisesFacts DEF RaisedTo, FilterType
  <2>2. CASE ~closed
    <3>1. filterPc = "handler"
      BY DEF F!Write, F!Calls
    <3>2. bbOut' \in Seq(Int)
      <4>1. PICK x \in F!Shown(d) : bbOut' = bbOut \o x
        BY <1>1, <2>2
      <4>2. bbOut \o x \in Seq(Int)
        BY <1>3
      <4> QED
        BY <4>1, <4>2
    <3>3. written' \in Seq(Int)
      <4>1. written' = written \o d
        BY <1>1, <2>2
      <4> QED
        BY <1>3, <4>1
    <3>4. got' = F!Unread /\ filterPc' = filterPc /\ clean' = clean
      BY <1>1, <2>2
    <3> QED
      BY <3>1, <3>2, <3>3, <3>4, Records DEF FilterType
  <2> QED
    BY <2>1, <2>2
<1>5. /\ conf' = conf /\ registered' = registered /\ ctx' = ctx /\ given' = given /\ ended' = ended
      /\ bbIn' = bbIn /\ closed' = closed /\ rc' = rc /\ rd' = rd /\ failed' = failed
      /\ ret' = ret /\ passed' = passed
  BY DEF F!Write, F!setup, F!source
<1> QED
  BY <1>4, <1>5 DEF FilterType, Reads

LEMMA FlushType == ASSUME FilterType, Reads, F!FlushCall PROVE FilterType' /\ Reads'
<1> DEFINE items == Append(bbOut, F!Flush)
<1>1. items \in Seq(Int)
  BY DataMarked DEF FilterType
<1>2. F!FlushOut(items)
  BY DEF F!FlushCall
<1> HIDE DEF items
<1>3. bbOut' \in Seq(Int) /\ passed' \in Seq(Int)
      /\ rc' \in {"ok", "again", "fail"} /\ failed' \in BOOLEAN
  BY <1>1, <1>2, FlushOutFacts
<1>4. clean' \in BOOLEAN /\ filterPc' \in {"handler", "raised"}
  BY RaisesFacts DEF F!FlushCall, F!Calls, RaisedTo, FilterType
<1>5. /\ conf' = conf /\ registered' = registered /\ ctx' = ctx /\ given' = given /\ ended' = ended
      /\ bbIn' = bbIn /\ closed' = closed /\ rd' = rd /\ got' = got /\ ret' = ret /\ written' = written
  BY DEF F!FlushCall, F!setup, F!source
<1> QED
  BY <1>3, <1>4, <1>5 DEF FilterType, Reads

\* What close() leaves.
ClosedTo ==
    /\ filterPc = "handler" /\ filterPc' = "handler" /\ closed' = TRUE /\ (conf.copy => got.is = "eof" /\ ~closed)
    /\ conf' = conf /\ registered' = registered /\ ctx' = ctx /\ given' = given /\ ended' = ended
    /\ bbIn' = bbIn /\ rd' = rd /\ got' = got /\ ret' = ret /\ written' = written
    /\ \/ /\ closed /\ bbOut' = bbOut /\ passed' = passed /\ rc' = rc /\ failed' = failed
          /\ clean' = clean
       \/ ~closed /\ FlushedOut(Append(bbOut, F!Eos)) /\ clean' = (clean /\ ~failed')

LEMMA CloseFacts ==
    ASSUME FilterType, F!Close
    PROVE  ClosedTo /\ bbOut' \in Seq(Int) /\ passed' \in Seq(Int)
           /\ rc' \in {"ok", "again", "fail"} /\ failed' \in BOOLEAN /\ clean' \in BOOLEAN
<1>1. /\ filterPc = "handler" /\ filterPc' = "handler" /\ closed' = TRUE /\ (conf.copy => got.is = "eof" /\ ~closed)
      /\ conf' = conf /\ registered' = registered /\ ctx' = ctx /\ given' = given /\ ended' = ended
      /\ bbIn' = bbIn /\ rd' = rd /\ got' = got /\ ret' = ret /\ written' = written
  BY DEF F!Close, F!Calls, F!setup, F!source
<1>2. CASE closed
  <2>1. bbOut' = bbOut /\ passed' = passed /\ rc' = rc /\ failed' = failed /\ clean' = clean
    BY <1>2 DEF F!Close
  <2> QED
    BY <1>1, <1>2, <2>1 DEF ClosedTo, FilterType
<1>3. CASE ~closed
  <2> DEFINE items == Append(bbOut, F!Eos)
  <2>1. items \in Seq(Int)
    BY DataMarked DEF FilterType
  <2>2. F!FlushOut(items) /\ clean' = (clean /\ ~failed')
    BY <1>3 DEF F!Close
  <2> HIDE DEF items
  <2>3. FlushedOut(items) /\ bbOut' \in Seq(Int) /\ passed' \in Seq(Int)
        /\ rc' \in {"ok", "again", "fail"} /\ failed' \in BOOLEAN
    BY <2>1, <2>2, FlushOutFacts
  <2>4. clean' \in BOOLEAN
    BY <2>2, <2>3 DEF FilterType
  <2> QED
    BY <1>1, <1>3, <2>2, <2>3, <2>4 DEF ClosedTo, items
<1> QED
  BY <1>2, <1>3

LEMMA CloseType == ASSUME FilterType, Reads, F!Close PROVE FilterType' /\ Reads'
<1>1. ClosedTo /\ bbOut' \in Seq(Int) /\ passed' \in Seq(Int)
      /\ rc' \in {"ok", "again", "fail"} /\ failed' \in BOOLEAN /\ clean' \in BOOLEAN
  BY CloseFacts
<1>2. /\ filterPc' = "handler" /\ closed' = TRUE
      /\ conf' = conf /\ registered' = registered /\ ctx' = ctx /\ given' = given /\ ended' = ended
      /\ bbIn' = bbIn /\ rd' = rd /\ got' = got /\ ret' = ret /\ written' = written
  BY <1>1 DEF ClosedTo
<1> QED
  BY <1>1, <1>2 DEF FilterType, Reads

LEMMA PassOnType == ASSUME F!FilterAssumption, FilterType, Reads, F!PassOn PROVE FilterType' /\ Reads'
<1>1. /\ PassedOnTo /\ bbIn' \in Seq(Item) /\ bbOut' \in Seq(Int) /\ passed' \in Seq(Int)
      /\ written' \in Seq(Int) /\ given' \in 0..FilterBytes /\ ended' \in BOOLEAN
  BY PassOnFacts
<1>2. /\ filterPc' = filterPc /\ closed' = closed /\ ctx' = ctx /\ conf' = conf /\ registered' = registered
      /\ rd' = rd /\ got' = got /\ ret' = ret
  BY DEF F!PassOn, F!setup
<1>3. rc' \in {"ok", "fail"} /\ failed' \in BOOLEAN /\ clean' \in BOOLEAN
  BY <1>1 DEF PassedOnTo, FilterType
<1> QED
  BY <1>1, <1>2, <1>3 DEF FilterType, Reads

\* What the return of python_filter() leaves.
Gone(r) ==
    /\ filterPc' = "idle" /\ ret' = r /\ rd' = F!NoRead /\ got' = F!Unread /\ bbIn' = <<>>

\* What the end of a handler leaves, and what it has added.
ReturnedTo ==
    /\ filterPc = "handler" /\ (conf.copy => closed \/ got = F!Got(<<>>)) /\ bbOut' = <<>>
    /\ conf' = conf /\ registered' = registered /\ ctx' = ctx /\ given' = given /\ ended' = ended
    /\ closed' = closed /\ written' = written
    /\ \/ /\ closed /\ passed' = F!ToCaller(bbOut) /\ Gone(rc) /\ rc' = rc /\ failed' = failed
          /\ clean' = clean
       \/ /\ ~closed /\ conf.input /\ passed' = F!ToCaller(Append(bbOut, F!Flush)) /\ Gone(rc) /\ rc' = rc
          /\ failed' = failed /\ clean' = clean
       \/ /\ ~closed /\ ~conf.input /\ PassedOn(Append(bbOut, F!Flush)) /\ rc' # "fail" /\ Gone(rc')
          /\ clean' = clean
       \/ /\ ~closed /\ ~conf.input /\ PassedOn(Append(bbOut, F!Flush)) /\ rc' = "fail"
          /\ filterPc' = "raised" /\ clean' = FALSE /\ ret' = ret /\ rd' = rd /\ got' = got /\ bbIn' = bbIn

LEMMA HandlerReturnsFacts ==
    ASSUME FilterType, F!HandlerReturns
    PROVE  ReturnedTo /\ passed' \in Seq(Int)
<1> DEFINE items == Append(bbOut, F!Flush)
<1>1. items \in Seq(Int) /\ bbOut \in Seq(Int) /\ passed \in Seq(Int)
  BY DataMarked DEF FilterType
<1>2. F!ToCaller(items) \in Seq(Int) /\ F!ToCaller(bbOut) \in Seq(Int)
  <2> HIDE DEF items
  <2> QED
    BY <1>1, ToCallerFacts
<1>3. /\ filterPc = "handler" /\ (conf.copy => closed \/ got = F!Got(<<>>))
      /\ conf' = conf /\ registered' = registered /\ ctx' = ctx /\ given' = given /\ ended' = ended
      /\ closed' = closed /\ written' = written
  BY DEF F!HandlerReturns, F!setup, F!source
<1>4. \/ /\ closed /\ passed' = F!ToCaller(bbOut) /\ bbOut' = <<>>
         /\ F!Leave(rc) /\ UNCHANGED <<rc, failed, clean>>
      \/ /\ ~closed /\ conf.input
         /\ passed' = F!ToCaller(items) /\ bbOut' = <<>>
         /\ F!Leave(rc) /\ UNCHANGED <<rc, failed, clean>>
      \/ /\ ~closed /\ ~conf.input
         /\ F!PassOut(items)
         /\ IF rc' = "fail" THEN F!Raised /\ UNCHANGED <<ret, rd, got, bbIn>>
            ELSE F!Leave(rc') /\ UNCHANGED clean
  BY DEF F!HandlerReturns
<1>5. ASSUME NEW r PROVE F!Leave(r) <=> Gone(r)
  BY DEF F!Leave, Gone
<1> HIDE DEF items
<1>6. CASE /\ closed /\ passed' = F!ToCaller(bbOut) /\ bbOut' = <<>>
           /\ F!Leave(rc) /\ UNCHANGED <<rc, failed, clean>>
  BY <1>2, <1>3, <1>5, <1>6 DEF ReturnedTo
<1>7. CASE /\ ~closed /\ conf.input
           /\ passed' = F!ToCaller(items) /\ bbOut' = <<>>
           /\ F!Leave(rc) /\ UNCHANGED <<rc, failed, clean>>
  BY <1>2, <1>3, <1>5, <1>7 DEF ReturnedTo, items
<1>8. CASE /\ ~closed /\ ~conf.input
           /\ F!PassOut(items)
           /\ IF rc' = "fail" THEN F!Raised /\ UNCHANGED <<ret, rd, got, bbIn>>
              ELSE F!Leave(rc') /\ UNCHANGED clean
  <2>1. bbOut' = <<>> /\ PassedOn(items) /\ passed' \in Seq(Int)
    BY <1>1, <1>8, PassOutFacts
  <2>2. CASE rc' = "fail"
    <3>1. filterPc' = "raised" /\ clean' = FALSE /\ ret' = ret /\ rd' = rd /\ got' = got /\ bbIn' = bbIn
      BY <1>8, <2>2 DEF F!Raised
    <3> QED
      BY <1>3, <1>8, <2>1, <2>2, <3>1 DEF ReturnedTo, items
  <2>3. CASE rc' # "fail"
    <3>1. F!Leave(rc') /\ clean' = clean
      BY <1>8, <2>3
    <3>2. Gone(rc')
      BY <3>1 DEF F!Leave, Gone
    <3> QED
      BY <1>3, <1>8, <2>1, <2>3, <3>1, <3>2 DEF ReturnedTo, items
  <2> QED
    BY <2>2, <2>3
<1> QED
  BY <1>4, <1>6, <1>7, <1>8

LEMMA GoneType ==
    ASSUME FilterType, NEW r, Gone(r), r \in {"ok", "again", "fail"}
    PROVE  /\ filterPc' = "idle" /\ ret' \in {"ok", "again", "fail"} /\ rd' \in RdSet /\ got' \in GotSet
           /\ bbIn' \in Seq(Item) /\ Reads'
<1>1. <<>> \in Seq(Item)
  OBVIOUS
<1>2. filterPc' = "idle" /\ ret' = r /\ rd' = F!NoRead /\ got' = F!Unread /\ bbIn' = <<>>
  BY DEF Gone
<1>3. Reads'
  BY <1>2, Records DEF Reads
<1> QED
  BY <1>1, <1>2, <1>3, Records

LEMMA HandlerReturnsType == ASSUME FilterType, Reads, F!HandlerReturns PROVE FilterType' /\ Reads'
<1>1. ReturnedTo /\ passed' \in Seq(Int)
  BY HandlerReturnsFacts
<1>2. /\ bbOut' = <<>>
      /\ conf' = conf /\ registered' = registered /\ ctx' = ctx /\ given' = given /\ ended' = ended
      /\ closed' = closed /\ written' = written
  BY <1>1 DEF ReturnedTo
<1>3. <<>> \in Seq(Int)
  OBVIOUS
<1>4. \/ /\ Gone(rc') /\ rc' \in {"ok", "again", "fail"}
         /\ failed' \in BOOLEAN /\ clean' = clean
      \/ /\ rc' = "fail" /\ failed' \in BOOLEAN
         /\ filterPc' = "raised" /\ clean' = FALSE /\ ret' = ret /\ rd' = rd /\ got' = got /\ bbIn' = bbIn
  <2>1. ASSUME NEW items, PassedOn(items) PROVE rc' \in {"ok", "fail"} /\ failed' \in BOOLEAN
    BY <2>1 DEF PassedOn, FilterType
  <2>2. rc \in {"ok", "again", "fail"} /\ failed \in BOOLEAN
    BY DEF FilterType
  <2> QED
    BY <1>1, <2>1, <2>2 DEF ReturnedTo
<1>5. CASE Gone(rc') /\ rc' \in {"ok", "again", "fail"} /\ failed' \in BOOLEAN /\ clean' = clean
  <2>1. /\ filterPc' = "idle" /\ ret' \in {"ok", "again", "fail"} /\ rd' \in RdSet /\ got' \in GotSet
        /\ bbIn' \in Seq(Item) /\ Reads'
    <3> DEFINE r == rc'
    <3>1. Gone(r) /\ r \in {"ok", "again", "fail"}
      BY <1>5
    <3> HIDE DEF r
    <3> QED
      BY <3>1, GoneType
  <2> QED
    BY <1>1, <1>2, <1>3, <1>5, <2>1 DEF FilterType
<1>6. CASE /\ rc' = "fail" /\ failed' \in BOOLEAN
           /\ filterPc' = "raised" /\ clean' = FALSE /\ ret' = ret /\ rd' = rd /\ got' = got /\ bbIn' = bbIn
  BY <1>1, <1>2, <1>3, <1>6 DEF FilterType, Reads
<1> QED
  BY <1>4, <1>5, <1>6

LEMMA ServerReturnType ==
    ASSUME FilterType, Reads, F!ServerReturn PROVE FilterType' /\ Reads'
<1>1. F!ToCaller(bbOut) \in Seq(Int)
  BY ToCallerFacts DEF FilterType
<1>2. Gone(rc) /\ passed' = F!ToCaller(bbOut) /\ bbOut' = <<>> /\ clean' = FALSE
      /\ conf' = conf /\ registered' = registered /\ ctx' = ctx /\ given' = given /\ ended' = ended
      /\ closed' = closed /\ rc' = rc /\ failed' = failed /\ written' = written
  BY DEF F!ServerReturn, F!Leave, Gone, F!setup, F!source
<1>3. rc \in {"ok", "again", "fail"} /\ <<>> \in Seq(Int)
  BY DEF FilterType
<1>4. /\ filterPc' = "idle" /\ ret' \in {"ok", "again", "fail"} /\ rd' \in RdSet /\ got' \in GotSet
      /\ bbIn' \in Seq(Item) /\ Reads'
  BY <1>2, <1>3, GoneType
<1> QED
  BY <1>1, <1>2, <1>3, <1>4 DEF FilterType

\* What the except clause leaves.
Reported ==
    /\ filterPc = "raised" /\ ctx' = [ctx EXCEPT !.transparent = TRUE] /\ bbOut' = <<>> /\ Gone(rc')
    /\ conf' = conf /\ registered' = registered /\ given' = given /\ ended' = ended
    /\ closed' = closed /\ clean' = clean /\ written' = written
    /\ \/ \E items \in Seq(Int) : PassedOn(items)
       \/ rc' = rc /\ failed' = failed

LEMMA ReportErrorFacts == ASSUME FilterType, F!ReportError PROVE Reported /\ passed' \in Seq(Int)
<1> DEFINE items == bbOut \o F!Report
<1>1. items \in Seq(Int)
  <2>1. F!Report \in Seq(Int)
    BY MarksAre DEF F!Report
  <2> QED
    BY <2>1, ConcatProperties DEF FilterType
<1>2. /\ filterPc = "raised" /\ ctx' = [ctx EXCEPT !.transparent = TRUE] /\ Gone(rc')
      /\ conf' = conf /\ registered' = registered /\ given' = given /\ ended' = ended
      /\ closed' = closed /\ clean' = clean /\ written' = written
  BY DEF F!ReportError, F!Leave, Gone, F!setup, F!source
<1>3. \/ F!PassOut(items)
      \/ passed' = F!ToCaller(items) /\ bbOut' = <<>> /\ UNCHANGED <<rc, failed>>
  BY DEF F!ReportError
<1> HIDE DEF items
<1>4. CASE F!PassOut(items)
  <2>1. bbOut' = <<>> /\ PassedOn(items) /\ passed' \in Seq(Int)
    BY <1>1, <1>4, PassOutFacts DEF FilterType
  <2> QED
    BY <1>1, <1>2, <2>1 DEF Reported
<1>5. CASE passed' = F!ToCaller(items) /\ bbOut' = <<>> /\ UNCHANGED <<rc, failed>>
  <2>1. passed' \in Seq(Int)
    BY <1>1, <1>5, ToCallerFacts DEF FilterType
  <2> QED
    BY <1>2, <1>5, <2>1 DEF Reported
<1> QED
  BY <1>3, <1>4, <1>5

LEMMA ReportErrorType == ASSUME FilterType, Reads, F!ReportError PROVE FilterType' /\ Reads'
<1>1. Reported /\ passed' \in Seq(Int)
  BY ReportErrorFacts
<1>2. ctx' \in CtxSet
  BY <1>1, Records DEF Reported, FilterType
<1>3. rc' \in {"ok", "again", "fail"} /\ failed' \in BOOLEAN
  BY <1>1 DEF Reported, PassedOn, FilterType
<1>4. /\ filterPc' = "idle" /\ ret' \in {"ok", "again", "fail"} /\ rd' \in RdSet /\ got' \in GotSet
      /\ bbIn' \in Seq(Item) /\ Reads'
  <2> DEFINE r == rc'
  <2>1. Gone(r) /\ r \in {"ok", "again", "fail"}
    BY <1>1, <1>3 DEF Reported
  <2> HIDE DEF r
  <2> QED
    BY <2>1, GoneType
<1>5. <<>> \in Seq(Int)
  OBVIOUS
<1>6. bbOut' = <<>> /\ conf' = conf /\ registered' = registered /\ given' = given /\ ended' = ended
      /\ closed' = closed /\ clean' = clean /\ written' = written
  BY <1>1 DEF Reported
<1> QED
  BY <1>1, <1>2, <1>3, <1>4, <1>5, <1>6 DEF FilterType

LEMMA TypeStep ==
    ASSUME F!FilterAssumption, FilterType, Reads, F!Next
    PROVE  FilterType' /\ Reads'
BY SmallType, CalledType, ReadType, ReadBucketType, ReadEndsType, WriteType, FlushType, CloseType, PassOnType,
   HandlerReturnsType, ServerReturnType, ReportErrorType DEF F!Next

-----------------------------------------------------------------------------
(* A failure is the status of the call until the next filter works.        *)

LEMMA FailingStep == ASSUME F!FilterAssumption, FilterType, Reads, Failing, F!Next PROVE Failing'
<1>0. FilterType'
  BY TypeStep
<1>1. CASE F!RegisterFilter \/ F!AddFilter
  <2>1. filterPc' \in {"open", "idle"} /\ filterPc \in {"open", "idle"} /\ failed' = failed /\ ret' = ret
        /\ clean' = clean
    BY <1>1 DEF F!RegisterFilter, F!AddFilter, F!object, F!history
  <2> QED
    BY <2>1 DEF Failing, InCall
<1>2. CASE F!OutputCall \/ F!InputCall
  <2>1. Called
    BY <1>2, CallFacts
  <2>2. filterPc = "idle"
    BY <2>1 DEF Called
  <2>3. CASE \E b \in Seq(Item) : Still /\ ThroughTo(b)
    BY <2>2, <2>3 DEF Still, ThroughTo, Failing, InCall
  <2>4. CASE Missed
    BY <2>2, <2>4 DEF Missed, Failing, InCall
  <2>5. CASE \E b : Begun(b)
    BY <2>5 DEF Begun, Failing, InCall
  <2> QED
    BY <2>1, <2>3, <2>4, <2>5 DEF Called, CallTo
<1>3. ASSUME NEW line \in BOOLEAN, NEW len \in FilterLens, F!Read(line, len) PROVE Failing'
  <2>1. Asked(line, len)
    BY <1>3, ReadFacts
  <2>2. filterPc = "handler"
    BY <2>1 DEF Asked
  <2>3. ASSUME NEW b, Starts(line, len, b) PROVE filterPc' \in {"handler", "reading"}
    BY <2>2, <2>3 DEF Starts
  <2>4. \/ /\ failed' = failed /\ clean' = FALSE /\ rc' = rc /\ filterPc' \in {"handler", "raised"}
        \/ /\ failed' = failed /\ clean' = clean /\ rc' = rc /\ filterPc' \in {"handler", "reading"}
        \/ failed' = FALSE /\ clean' = clean /\ rc' # "fail" /\ filterPc' \in {"handler", "reading"}
        \/ failed' = TRUE /\ clean' = FALSE /\ rc' = "fail" /\ filterPc' \in {"handler", "raised"}
    BY <2>1, <2>3 DEF Asked, FetchedTo, RaisedTo
  <2> QED
    BY <2>2, <2>4 DEF Failing, InCall
<1>4. CASE F!ReadBucket \/ F!ReadEnds
  <2>1. filterPc = "reading" /\ failed' = failed /\ clean' = clean /\ rc' = rc
    BY <1>4 DEF F!ReadBucket, F!ReadEnds, F!object, F!history
  <2>2. filterPc' \in {"handler", "reading"}
    BY <1>4 DEF F!ReadBucket, F!ReadEnds
  <2> QED
    BY <2>1, <2>2 DEF Failing, InCall
<1>5. CASE F!Write \/ F!HandlerRaises \/ F!ReadFails
  <2>1. filterPc \in {"handler", "reading"} /\ failed' = failed /\ rc' = rc
    BY <1>5 DEF F!Write, F!HandlerRaises, F!ReadFails, F!Calls, F!object
  <2>2. \/ filterPc' = "handler" /\ clean' = clean
        \/ filterPc' \in {"handler", "raised"} /\ clean' = FALSE
    <3>1. CASE F!Write
      <4>1. filterPc = "handler" /\ (F!Raises \/ UNCHANGED <<filterPc, clean>>)
        BY <3>1 DEF F!Write, F!Calls
      <4> QED
        BY <4>1, RaisesFacts DEF RaisedTo
    <3>2. CASE F!HandlerRaises
      BY <3>2, RaisesFacts DEF F!HandlerRaises, RaisedTo
    <3>3. CASE F!ReadFails
      BY <3>3, RaisesFacts DEF F!ReadFails, RaisedTo
    <3> QED
      BY <1>5, <3>1, <3>2, <3>3
  <2> QED
    BY <2>1, <2>2 DEF Failing, InCall
<1>6. CASE F!FlushCall
  <2> DEFINE items == Append(bbOut, F!Flush)
  <2>1. F!FlushOut(items) /\ items \in Seq(Int)
    BY <1>6, DataMarked DEF F!FlushCall, FilterType
  <2> HIDE DEF items
  <2>2. FlushedOut(items)
    BY <2>1, FlushOutFacts
  <2>3. /\ filterPc = "handler" /\ filterPc' \in {"handler", "raised"}
        /\ IF rc' = "fail" /\ ~conf.input THEN clean' = FALSE
           ELSE filterPc' = "handler" /\ clean' = clean
    BY <1>6, RaisesFacts DEF F!FlushCall, F!Calls, RaisedTo
  <2>4. \/ conf.input /\ failed' = failed /\ rc' = rc
        \/ failed' = FALSE /\ rc' = "ok"
        \/ ~conf.input /\ failed' = TRUE /\ rc' = "fail"
    BY <2>2 DEF FlushedOut, PassedOn
  <2> QED
    BY <2>3, <2>4 DEF Failing, InCall
<1>7. CASE F!Close
  <2>1. ClosedTo
    BY <1>7, CloseFacts
  <2>2. filterPc = "handler" /\ filterPc' = "handler"
    BY <2>1 DEF ClosedTo
  <2>3. ASSUME NEW items, FlushedOut(items)
        PROVE  (failed' = failed /\ rc' = rc) \/ (failed' = FALSE /\ rc' = "ok") \/ (failed' = TRUE /\ rc' = "fail")
    BY <2>3 DEF FlushedOut, PassedOn
  <2>4. /\ (failed' = failed /\ rc' = rc) \/ (failed' = FALSE /\ rc' = "ok") \/ (failed' = TRUE /\ rc' = "fail")
        /\ (clean' = clean /\ failed' = failed) \/ clean' = (clean /\ ~failed')
    BY <2>1, <2>3 DEF ClosedTo
  <2>5. failed' \in BOOLEAN /\ clean' \in BOOLEAN /\ failed \in BOOLEAN /\ clean \in BOOLEAN
    BY <1>0 DEF FilterType
  <2>6. failed' => ~clean'
    BY <2>4, <2>5 DEF Failing
  <2> QED
    BY <2>2, <2>4, <2>6 DEF Failing, InCall
<1>8. CASE F!PassOn
  <2>1. PassedOnTo /\ filterPc = "handler"
    BY <1>8, PassOnFacts
  <2>2. filterPc' = filterPc
    BY <1>8 DEF F!PassOn
  <2>3. \/ failed' = FALSE /\ rc' = "ok" /\ clean' = clean
        \/ failed' = TRUE /\ rc' = "fail" /\ clean' = FALSE
    BY <2>1 DEF PassedOnTo
  <2> QED
    BY <2>1, <2>2, <2>3 DEF Failing, InCall
<1>9. CASE F!Disable
  <2>1. filterPc' = filterPc /\ failed' = failed /\ ret' = ret /\ clean' = clean /\ rc' = rc
    BY <1>9 DEF F!Disable, F!object, F!history
  <2> QED
    BY <2>1 DEF Failing, InCall
<1>10. CASE F!HandlerReturns
  <2>1. ReturnedTo
    BY <1>10, HandlerReturnsFacts
  <2>2. filterPc = "handler"
    BY <2>1 DEF ReturnedTo
  <2>3. \/ failed' = failed /\ clean' = clean /\ rc' = rc /\ filterPc' = "idle" /\ ret' = rc'
        \/ failed' = FALSE /\ clean' = clean /\ rc' = "ok" /\ filterPc' = "idle" /\ ret' = rc'
        \/ failed' = TRUE /\ clean' = FALSE /\ rc' = "fail" /\ filterPc' = "raised"
    BY <2>1 DEF ReturnedTo, PassedOn, Gone
  <2> QED
    BY <2>2, <2>3 DEF Failing, InCall
<1>11. CASE F!ServerReturn
  <2>1. filterPc = "handler" /\ filterPc' = "idle" /\ ret' = rc /\ failed' = failed /\ clean' = FALSE
    BY <1>11 DEF F!ServerReturn, F!Leave
  <2> QED
    BY <2>1 DEF Failing, InCall
<1>12. CASE F!ReportError
  <2>1. Reported
    BY <1>12, ReportErrorFacts
  <2>2. filterPc = "raised" /\ clean' = clean /\ clean = FALSE /\ filterPc' = "idle" /\ ret' = rc'
    BY <2>1 DEF Reported, Gone, Failing, FilterType
  <2>3. \/ failed' = failed /\ rc' = rc
        \/ failed' = FALSE /\ rc' = "ok"
        \/ failed' = TRUE /\ rc' = "fail"
    BY <2>1 DEF Reported, PassedOn
  <2> QED
    BY <2>2, <2>3 DEF Failing, InCall
<1> QED
  BY <1>1, <1>2, <1>3, <1>4, <1>5, <1>6, <1>7, <1>8, <1>9, <1>10, <1>11, <1>12 DEF F!Next

-----------------------------------------------------------------------------
(* What was written is in bb_out or has been passed.                       *)

Ints == Seq(Int)
Put(x) == F!Data(x)
PassedWith(p, x) == p \o F!Unmarked(x)
Gave(w, p, o) == w = F!Data(p) \o F!Data(o)

LEMMA JoinFacts ==
    /\ \A x, y \in Ints : Join(x, y) \in Ints /\ Join(x, <<>>) = x /\ Join(<<>>, x) = x
    /\ \A x, y, z \in Ints : Join(Join(x, y), z) = Join(x, Join(y, z))
    /\ <<>> \in Ints
<1>1. ASSUME NEW x \in Ints, NEW y \in Ints PROVE Join(x, y) \in Ints /\ Join(x, <<>>) = x /\ Join(<<>>, x) = x
  BY ConcatProperties, ConcatEmptySeq DEF Ints, Join
<1>2. ASSUME NEW x \in Ints, NEW y \in Ints, NEW z \in Ints PROVE Join(Join(x, y), z) = Join(x, Join(y, z))
  BY SMTT(30), ConcatAssociative DEF Ints, Join
<1>3. <<>> \in Ints
  BY DEF Ints
<1> QED
  BY <1>1, <1>2, <1>3

LEMMA PutFacts ==
    /\ \A x \in Ints : Put(x) \in Ints /\ F!Unmarked(x) \in Ints /\ Put(F!Unmarked(x)) = Put(x)
    /\ \A x, y \in Ints : Put(Join(x, y)) = Join(Put(x), Put(y))
    /\ Put(<<>>) = <<>>
<1>1. ASSUME NEW x \in Ints PROVE Put(x) \in Ints /\ F!Unmarked(x) \in Ints /\ Put(F!Unmarked(x)) = Put(x)
  BY DataType DEF Ints, Put
<1>2. ASSUME NEW x \in Ints, NEW y \in Ints PROVE Put(Join(x, y)) = Join(Put(x), Put(y))
  BY DataJoined DEF Ints, Put, Join
<1> QED
  BY <1>1, <1>2, DataMarks DEF Put

LEMMA GaveIs == ASSUME NEW w, NEW p, NEW o PROVE Gave(w, p, o) <=> w = Join(Put(p), Put(o))
BY DEF Gave, Join, Put

LEMMA GaveFacts ==
    ASSUME NEW p \in Ints, NEW o \in Ints, NEW x \in Ints, NEW w, Gave(w, p, o)
    PROVE  /\ Gave(Join(w, Put(x)), p, Join(o, x))
           /\ Put(o) = <<>> => Gave(Join(w, Put(x)), PassedWith(p, x), o)
           /\ Put(x) = Put(o) => Gave(w, PassedWith(p, x), <<>>)
<1>1. Put(p) \in Ints /\ Put(o) \in Ints /\ Put(x) \in Ints /\ F!Unmarked(x) \in Ints
      /\ Put(F!Unmarked(x)) = Put(x)
  BY PutFacts
<1>2. PassedWith(p, x) = Join(p, F!Unmarked(x)) /\ w = Join(Put(p), Put(o))
  BY GaveIs DEF PassedWith, Join
<1>3. Put(PassedWith(p, x)) = Join(Put(p), Put(x)) /\ Put(Join(o, x)) = Join(Put(o), Put(x))
  BY <1>1, <1>2, PutFacts
<1>4. Join(Join(Put(p), Put(o)), Put(x)) = Join(Put(p), Join(Put(o), Put(x)))
  BY <1>1, JoinFacts
<1>5. /\ Join(Put(p), <<>>) = Put(p) /\ Join(Put(p), Put(x)) \in Ints
      /\ Join(Join(Put(p), Put(x)), <<>>) = Join(Put(p), Put(x))
  BY <1>1, JoinFacts
<1>6. Gave(Join(w, Put(x)), p, Join(o, x))
  BY <1>2, <1>3, <1>4, GaveIs
<1>7. Put(o) = <<>> => Gave(Join(w, Put(x)), PassedWith(p, x), o)
  BY <1>2, <1>3, <1>5, GaveIs
<1>8. Put(x) = Put(o) => Gave(w, PassedWith(p, x), <<>>)
  BY <1>2, <1>3, <1>5, PutFacts, GaveIs
<1> QED
  BY <1>6, <1>7, <1>8

LEMMA GivingGave == ASSUME Giving, clean, conf.keeps PROVE Gave(written, passed, bbOut)
BY DEF Giving, Gave

LEMMA GivenOn ==
    ASSUME FilterType, Giving, clean' \in {clean, FALSE}, closed' = closed, conf' = conf, bbOut' = bbOut,
           written' = written, passed' = passed, InCall' \/ ~InCall
    PROVE  Giving'
<1>1. clean' => clean
  BY DEF FilterType
<1>2. clean' /\ conf.keeps => written' = F!Data(passed') \o F!Data(bbOut')
  BY <1>1 DEF Giving
<1>3. ~InCall' => bbOut' = <<>>
  BY DEF Giving
<1> QED
  BY <1>2, <1>3 DEF Giving

\* It is enough that a clean state has given all.
LEMMA GivenAll ==
    ASSUME clean' /\ conf.keeps => Gave(written', passed', bbOut'),
           bbOut' = <<>> \/ (InCall' /\ (conf.input \/ ~closed' \/ (Giving /\ closed /\ bbOut' = bbOut))),
           conf' = conf
    PROVE  Giving'
<1>1. clean' /\ conf.keeps => written' = F!Data(passed') \o F!Data(bbOut')
  BY DEF Gave
<1>2. closed' /\ ~conf'.input => bbOut' = <<>>
  BY DEF Giving
<1> QED
  BY <1>1, <1>2 DEF Giving

LEMMA PassedGives ==
    ASSUME FilterType, Giving, NEW items \in Seq(Int), F!Data(items) = F!Data(bbOut), clean, conf.keeps
    PROVE  Gave(written, PassedWith(passed, items), <<>>)
<1>1. passed \in Ints /\ bbOut \in Ints /\ items \in Ints /\ Put(items) = Put(bbOut)
  BY DEF FilterType, Ints, Put
<1> QED
  BY <1>1, GivingGave, GaveFacts

LEMMA ThroughGives ==
    ASSUME FilterType, Giving, filterPc = "idle", Still, NEW b \in Seq(Item), ThroughTo(b), conf' = conf
    PROVE  Giving'
<1> DEFINE x == FlattenSeq(b)
<1>1. x \in Ints /\ passed \in Ints /\ bbOut \in Ints
  BY FlattenItems DEF Ints, FilterType
<1>2. bbOut = <<>> /\ ~InCall /\ Put(bbOut) = <<>> /\ bbOut' = bbOut
  BY PutFacts DEF Giving, InCall, Still
<1>3. CASE clean' = clean /\ passed' = passed \o F!Unmarked(x) /\ written' = written \o DataOf(b)
  <2>1. passed' = PassedWith(passed, x) /\ written' = Join(written, Put(x))
    BY <1>3 DEF PassedWith, Join, Put, DataOf
  <2> HIDE DEF x
  <2>2. clean /\ conf.keeps => Gave(Join(written, Put(x)), PassedWith(passed, x), bbOut)
    BY <1>1, <1>2, GivingGave, GaveFacts
  <2> QED
    BY <1>2, <1>3, <2>1, <2>2, GivenAll
<1>4. CASE clean' = FALSE
  BY <1>2, <1>4, GivenAll
<1> QED
  BY <1>3, <1>4 DEF ThroughTo

LEMMA CallGives == ASSUME FilterType, Giving, Called PROVE Giving'
<1>1. filterPc = "idle" /\ ~InCall /\ bbOut = <<>> /\ conf' = conf
  BY DEF Called, Giving, InCall
<1>2. CASE Still /\ \E b \in Seq(Item) : ThroughTo(b)
  BY <1>1, <1>2, ThroughGives
<1>3. CASE Missed
  BY <1>1, <1>3, GivenOn DEF Missed, InCall
<1>4. ASSUME NEW b, Begun(b) PROVE Giving'
  <2>1. bbOut' = bbOut /\ written' = written /\ passed' = passed /\ clean' = clean
    BY <1>1, <1>4 DEF Begun
  <2>2. clean' /\ conf.keeps => Gave(written', passed', bbOut')
    BY <2>1, GivingGave
  <2> QED
    BY <1>1, <2>1, <2>2, GivenAll
<1> QED
  BY <1>2, <1>3, <1>4 DEF Called, CallTo

LEMMA WriteGives == ASSUME FilterType, Giving, F!Write PROVE Giving'
<1>1. PICK d \in IF conf.copy THEN {got.data} ELSE {got.data, <<F!Own>>} :
        IF closed THEN F!Raises /\ UNCHANGED <<bbOut, got, written>>
        ELSE /\ \E shown \in F!Shown(d) : bbOut' = bbOut \o shown
             /\ written' = written \o d /\ got' = F!Unread /\ UNCHANGED <<filterPc, clean>>
  BY DEF F!Write
<1>2. closed' = closed /\ conf' = conf /\ passed' = passed /\ filterPc = "handler" /\ InCall
  BY DEF F!Write, F!Calls, F!setup, InCall
<1>3. CASE closed
  <2>1. clean' = FALSE /\ filterPc' \in {"handler", "raised"} /\ bbOut' = bbOut /\ written' = written
    BY <1>1, <1>3, RaisesFacts DEF RaisedTo
  <2> QED
    BY <1>2, <2>1, GivenOn DEF InCall
<1>4. CASE ~closed
  <2>1. written' = Join(written, d) /\ filterPc' = filterPc /\ clean' = clean
    BY <1>1, <1>4 DEF Join
  <2>2. d \in Ints /\ Put(d) = d
    <3>1. got.data \in Seq(Byte)
      BY Records DEF FilterType
    <3>2. got.data \in Ints /\ Put(got.data) = got.data
      BY <3>1, ItemFacts, DataBytes DEF Ints, Put
    <3>3. <<F!Own>> \in Ints /\ Put(<<F!Own>>) = <<F!Own>>
      BY MarksAre, DataMarks DEF Ints, Put
    <3> QED
      BY <1>1, <3>2, <3>3
  <2>3. passed \in Ints /\ bbOut \in Ints /\ (conf.keeps => bbOut' = Join(bbOut, d))
    <3>1. conf.keeps => \A x \in F!Shown(d) : x = d
      BY <2>2, ShownType DEF Ints
    <3>2. \E x \in F!Shown(d) : bbOut' = bbOut \o x
      BY <1>1, <1>4
    <3> QED
      BY <3>1, <3>2 DEF FilterType, Ints, Join
  <2>4. clean /\ conf.keeps => Gave(Join(written, Put(d)), passed, Join(bbOut, d))
    BY <2>2, <2>3, GivingGave, GaveFacts
  <2>5. clean' /\ conf.keeps => Gave(written', passed', bbOut')
    BY <1>2, <2>1, <2>2, <2>3, <2>4
  <2>6. InCall' /\ ~closed'
    BY <1>2, <1>4, <2>1 DEF InCall
  <2> QED
    BY <1>2, <2>5, <2>6, GivenAll
<1> QED
  BY <1>3, <1>4

\* flush() and close(): what they give on, or the call is not clean.
LEMMA FlushGives ==
    ASSUME FilterType, Giving, NEW items \in Seq(Int), FlushedOut(items), F!Data(items) = F!Data(bbOut),
           written' = written, conf' = conf, InCall', clean' \in BOOLEAN, clean' => clean,
           ~conf.input /\ rc' = "fail" => ~clean'
    PROVE  Giving'
<1>1. conf.input \in BOOLEAN
  BY Records DEF FilterType
<1>2. CASE conf.input
  <2>1. bbOut' = items /\ passed' = passed
    BY <1>2 DEF FlushedOut
  <2>2. clean /\ conf.keeps => Gave(written, passed, items)
    BY GivingGave DEF Gave
  <2> QED
    BY <1>2, <2>1, <2>2, GivenAll
<1>3. CASE ~conf.input
  <2>1. bbOut' = <<>> /\ PassedOn(items)
    BY <1>3 DEF FlushedOut
  <2>2. clean' => passed' = PassedWith(passed, items)
    BY <1>3, <2>1 DEF PassedOn, PassedWith
  <2>3. clean' /\ conf.keeps => Gave(written, PassedWith(passed, items), <<>>)
    BY PassedGives
  <2> QED
    BY <2>1, <2>2, <2>3, GivenAll
<1> QED
  BY <1>1, <1>2, <1>3

LEMMA PassOnGives == ASSUME FilterType, Giving, F!FilterAssumption, F!PassOn PROVE Giving'
<1>1. PassedOnTo
  BY PassOnFacts
<1>2. closed' = closed /\ conf' = conf /\ filterPc' = filterPc /\ InCall /\ InCall'
  BY DEF F!PassOn, F!setup, F!Calls, InCall
<1>3. conf.input \/ Put(bbOut) = <<>>
  BY DEF F!PassOn, F!InTurn, Put
<1>4. passed \in Ints /\ bbOut \in Ints /\ bbIn \in Seq(Item)
  BY DEF FilterType, Ints
<1>5. ASSUME NEW b \in Seq(Item) PROVE FlattenSeq(b) \in Ints /\ DataOf(b) = Put(FlattenSeq(b))
  BY <1>5, FlattenItems DEF DataOf, Ints, Put
<1>6. CASE /\ conf.input /\ clean' = clean /\ passed' = passed
           /\ \E b \in Seq(Item) : bbOut' = bbOut \o FlattenSeq(b) /\ written' = written \o DataOf(b)
  <2>1. PICK b \in Seq(Item) : bbOut' = bbOut \o FlattenSeq(b) /\ written' = written \o DataOf(b)
    BY <1>6
  <2> DEFINE x == FlattenSeq(b)
  <2>2. x \in Ints /\ bbOut' = Join(bbOut, x) /\ written' = Join(written, Put(x))
    BY <1>5, <2>1 DEF Join
  <2> HIDE DEF x
  <2>3. clean /\ conf.keeps => Gave(Join(written, Put(x)), passed, Join(bbOut, x))
    BY <1>4, <2>2, GivingGave, GaveFacts
  <2> QED
    BY <1>2, <1>6, <2>2, <2>3, GivenAll
<1>7. CASE /\ ~conf.input /\ clean' = clean /\ bbOut' = bbOut
           /\ passed' = passed \o F!Unmarked(FlattenSeq(bbIn)) /\ written' = written \o DataOf(bbIn)
  <2> DEFINE x == FlattenSeq(bbIn)
  <2>1. x \in Ints /\ passed' = PassedWith(passed, x) /\ written' = Join(written, Put(x))
    BY <1>4, <1>5, <1>7 DEF PassedWith, Join
  <2> HIDE DEF x
  <2>2. clean /\ conf.keeps => Gave(Join(written, Put(x)), PassedWith(passed, x), bbOut)
    BY <1>3, <1>4, <1>7, <2>1, GivingGave, GaveFacts
  <2>3. clean' /\ conf.keeps => Gave(written', passed', bbOut')
    BY <1>7, <2>1, <2>2
  <2>4. closed \in BOOLEAN
    BY DEF FilterType
  <2> QED
    BY <1>2, <1>7, <2>3, <2>4, GivenAll
<1>8. CASE clean' = FALSE /\ bbOut' = bbOut
  <2>1. closed \in BOOLEAN
    BY DEF FilterType
  <2> QED
    BY <1>2, <1>8, <2>1, GivenAll
<1> QED
  BY <1>1, <1>6, <1>7, <1>8 DEF PassedOnTo

LEMMA ReturnGives == ASSUME FilterType, Giving, ReturnedTo PROVE Giving'
<1>1. bbOut' = <<>> /\ written' = written /\ conf' = conf
  BY DEF ReturnedTo
<1> DEFINE items == Append(bbOut, F!Flush)
<1>2. bbOut \in Seq(Int) /\ passed \in Seq(Int) /\ conf.input \in BOOLEAN /\ clean \in BOOLEAN
  BY Records DEF FilterType
<1>3. items \in Seq(Int) /\ F!Data(items) = F!Data(bbOut)
  BY <1>2, DataMarked
<1> HIDE DEF items
<1>4. clean' => clean
  BY <1>2 DEF ReturnedTo
<1>5. ASSUME NEW x \in Seq(Int), F!Data(x) = F!Data(bbOut), clean, conf.keeps
      PROVE  Gave(written, PassedWith(passed, x), <<>>)
  BY <1>5, PassedGives
<1>6. clean' /\ conf.keeps => Gave(written', passed', bbOut')
  <2>1. CASE closed /\ passed' = F!ToCaller(bbOut)
    <3>1. CASE conf.input
      <4>1. passed' = PassedWith(passed, bbOut)
        BY <1>2, <2>1, <3>1, ToCallerFacts DEF PassedWith
      <4> QED
        BY <1>1, <1>2, <1>4, <1>5, <4>1
    <3>2. CASE ~conf.input
      <4>1. passed' = passed /\ bbOut = <<>>
        BY <1>2, <2>1, <3>2, ToCallerFacts DEF Giving
      <4> QED
        BY <1>1, <1>4, <4>1, GivingGave
    <3> QED
      BY <1>2, <3>1, <3>2
  <2>2. CASE ~closed /\ conf.input /\ passed' = F!ToCaller(items)
    <3>1. passed' = PassedWith(passed, items)
      BY <1>2, <1>3, <2>2, ToCallerFacts DEF PassedWith
    <3> QED
      BY <1>1, <1>3, <1>4, <1>5, <3>1
  <2>3. CASE ~conf.input /\ PassedOn(items) /\ rc' # "fail"
    <3>1. passed' = PassedWith(passed, items)
      BY <2>3 DEF PassedOn, PassedWith
    <3> QED
      BY <1>1, <1>3, <1>4, <1>5, <3>1
  <2>4. CASE clean' = FALSE
    BY <2>4
  <2> QED
    BY <2>1, <2>2, <2>3, <2>4 DEF ReturnedTo, items
<1> QED
  BY <1>1, <1>6, GivenAll

LEMMA GivingStep == ASSUME F!FilterAssumption, FilterType, Failing, Giving, F!Next PROVE Giving'
<1>0. clean \in BOOLEAN
  BY DEF FilterType
<1>1. CASE F!RegisterFilter \/ F!AddFilter
  <2>1. conf' = conf /\ closed' = closed /\ bbOut' = bbOut /\ written' = written /\ passed' = passed
        /\ clean' = clean /\ ~InCall
    BY <1>1 DEF F!RegisterFilter, F!AddFilter, F!setup, F!object, F!history, InCall
  <2> QED
    BY <2>1, GivenOn
<1>2. CASE F!OutputCall \/ F!InputCall
  BY <1>2, CallFacts, CallGives
<1>3. ASSUME NEW line \in BOOLEAN, NEW len \in FilterLens, F!Read(line, len) PROVE Giving'
  <2>1. Asked(line, len)
    BY <1>3, ReadFacts
  <2>2. filterPc = "handler" /\ conf' = conf /\ closed' = closed /\ bbOut' = bbOut /\ written' = written
        /\ passed' = passed
    BY <2>1 DEF Asked
  <2>3. ASSUME NEW b, Starts(line, len, b) PROVE InCall'
    BY <2>2, <2>3 DEF Starts, InCall
  <2>4. InCall' /\ clean' \in {clean, FALSE}
    BY <2>1, <2>3 DEF Asked, FetchedTo, RaisedTo, InCall
  <2> QED
    BY <2>2, <2>4, GivenOn
<1>4. CASE F!ReadBucket \/ F!ReadEnds
  <2>1. conf' = conf /\ closed' = closed /\ bbOut' = bbOut /\ written' = written /\ passed' = passed
        /\ clean' = clean /\ InCall'
    BY <1>4 DEF F!ReadBucket, F!ReadEnds, F!setup, F!object, F!history, InCall
  <2> QED
    BY <2>1, GivenOn
<1>5. CASE F!Write
  BY <1>5, WriteGives
<1>6. CASE F!FlushCall
  <2> DEFINE items == Append(bbOut, F!Flush)
  <2>1. F!FlushOut(items) /\ items \in Seq(Int) /\ F!Data(items) = F!Data(bbOut)
    BY <1>6, DataMarked DEF F!FlushCall, FilterType
  <2> HIDE DEF items
  <2>2. FlushedOut(items)
    BY <2>1, FlushOutFacts
  <2>3. filterPc = "handler" /\ conf' = conf /\ closed' = closed /\ written' = written
        /\ IF rc' = "fail" /\ ~conf.input THEN filterPc' \in {"handler", "raised"} /\ clean' = FALSE
           ELSE filterPc' = filterPc /\ clean' = clean
    BY <1>6, RaisesFacts DEF F!FlushCall, F!Calls, RaisedTo, F!setup
  <2>4. InCall' /\ clean' \in BOOLEAN /\ (clean' => clean) /\ (~conf.input /\ rc' = "fail" => ~clean')
    BY <1>0, <2>3 DEF InCall
  <2> QED
    BY <2>1, <2>2, <2>3, <2>4, FlushGives
<1>7. CASE F!Close
  <2>1. ClosedTo /\ clean' \in BOOLEAN
    BY <1>7, CloseFacts
  <2>2. conf' = conf /\ closed' = TRUE /\ written' = written /\ InCall'
    BY <2>1 DEF ClosedTo, InCall
  <2>3. CASE closed /\ bbOut' = bbOut /\ passed' = passed /\ clean' = clean
    BY <2>2, <2>3 DEF Giving
  <2>4. CASE ~closed /\ FlushedOut(Append(bbOut, F!Eos)) /\ clean' = (clean /\ ~failed')
    <3> DEFINE items == Append(bbOut, F!Eos)
    <3>1. FlushedOut(items) /\ items \in Seq(Int) /\ F!Data(items) = F!Data(bbOut)
      BY <2>4, DataMarked DEF FilterType
    <3> HIDE DEF items
    <3>2. clean' => clean /\ ~failed'
      <4>1. clean' = (clean /\ ~failed')
        BY <2>4
      <4> QED
        BY <4>1, Zenon
    <3>3. ~conf.input /\ rc' = "fail" => failed' = TRUE
      BY <3>1 DEF FlushedOut, PassedOn
    <3>4. ~conf.input /\ rc' = "fail" => ~clean'
      BY <3>2, <3>3
    <3>5. clean' => clean
      BY <3>2
    <3> QED
      BY <2>1, <2>2, <3>1, <3>4, <3>5, FlushGives
  <2> QED
    BY <2>1, <2>3, <2>4 DEF ClosedTo
<1>8. CASE F!PassOn
  BY <1>8, PassOnGives
<1>9. CASE F!Disable
  <2>1. conf' = conf /\ closed' = closed /\ bbOut' = bbOut /\ written' = written /\ passed' = passed
        /\ clean' = clean /\ filterPc' = filterPc
    BY <1>9 DEF F!Disable, F!setup, F!object, F!history
  <2> QED
    BY <2>1, GivenOn DEF InCall
<1>10. CASE F!HandlerReturns
  BY <1>10, HandlerReturnsFacts, ReturnGives
<1>11. CASE F!ServerReturn
  BY <1>11 DEF F!ServerReturn, Giving
<1>12. CASE F!HandlerRaises \/ F!ReadFails
  <2>1. conf' = conf /\ closed' = closed /\ bbOut' = bbOut /\ written' = written /\ passed' = passed
        /\ clean' = FALSE /\ InCall'
    BY <1>12, RaisesFacts DEF F!HandlerRaises, F!ReadFails, RaisedTo, F!setup, F!object, InCall
  <2>2. clean' \in {clean, FALSE} /\ (InCall' \/ ~InCall)
    BY <2>1
  <2> QED
    BY <2>1, <2>2, GivenOn
<1>13. CASE F!ReportError
  <2>1. bbOut' = <<>> /\ clean' = clean /\ clean = FALSE
    BY <1>0, <1>13, ReportErrorFacts DEF Reported, Failing
  <2> QED
    BY <2>1 DEF Giving
<1> QED
  BY <1>1, <1>2, <1>3, <1>4, <1>5, <1>6, <1>7, <1>8, <1>9, <1>10, <1>11, <1>12, <1>13 DEF F!Next

-----------------------------------------------------------------------------
(* The marks of a brigade.                                                 *)

LEMMA NoMarks == Marks(<<>>) /\ ~HasEos(<<>>) /\ DataOf(<<>>) = <<>> /\ <<>> \in Seq(Item)
<1>1. Len(<<>>) = 0
  OBVIOUS
<1>2. Marks(<<>>) /\ ~HasEos(<<>>)
  BY <1>1 DEF Marks, HasEos
<1> QED
  BY <1>2, DataOfMarks

\* Without buckets there is no data.
LEMMA MarksOnly ==
    ASSUME NEW b \in Seq(Item), \A i \in 1..Len(b) : b[i] \notin Bucket
    PROVE  DataOf(b) = <<>>
<1> DEFINE V == {-1, -2}
<1>1. <<F!Eos>> \in Seq(V) /\ <<F!Flush>> \in Seq(V)
  BY MarksAre
<1>2. \A i \in 1..Len(b) : b[i] \in Seq(V)
  <2>1. ASSUME NEW i \in 1..Len(b) PROVE b[i] \in Item /\ b[i] \notin Bucket
    OBVIOUS
  <2> QED
    BY <1>1, <2>1, ItemFacts
<1>3. b \in Seq(Seq(V))
  <2> DEFINE W == Seq(V)
  <2> HIDE DEF W
  <2>1. Len(b) \in Nat /\ DOMAIN b = 1..Len(b) /\ b = [i \in 1..Len(b) |-> b[i]]
    OBVIOUS
  <2>2. \A i \in 1..Len(b) : b[i] \in W
    BY <1>2 DEF W
  <2>3. b \in [1..Len(b) -> W]
    BY <2>1, <2>2
  <2>4. b \in Seq(W)
    BY <2>1, <2>3
  <2> QED
    BY <2>4 DEF W
<1>4. FlattenSeq(b) \in Seq(V)
  <2> HIDE DEF V
  <2> QED
    BY <1>3, FlattenType
<1>5. V \cap DataSet = {}
  BY DEF DataSet
<1> HIDE DEF V
<1>6. Keep(FlattenSeq(b), DataSet) = <<>>
  BY <1>4, <1>5, KeepNothing
<1> QED
  BY <1>6, DataIs DEF DataOf

\* Behind a mark there is no data, and what is behind it has its marks in turn.
LEMMA MarksBehind ==
    ASSUME NEW b \in Seq(Item), b # <<>>, Marks(b), b[1] \notin Bucket
    PROVE  DataOf(b) = <<>> /\ Tail(b) \in Seq(Item) /\ Marks(Tail(b)) /\ DataOf(Tail(b)) = <<>>
<1>1. Len(b) \in Nat \ {0} /\ Tail(b) \in Seq(Item) /\ Len(Tail(b)) = Len(b) - 1
      /\ \A i \in 1..Len(Tail(b)) : i + 1 \in 1..Len(b) /\ Tail(b)[i] = b[i + 1]
  OBVIOUS
<1>2. \A i, j \in 1..Len(b) : i < j /\ b[i] \notin Bucket => b[j] \notin Bucket
  BY DEF Marks
<1>3. \A i \in 1..Len(b) : b[i] \notin Bucket
  BY <1>1, <1>2
<1>4. \A i \in 1..Len(Tail(b)) : Tail(b)[i] \notin Bucket
  BY <1>1, <1>3
<1>5. \A i, j \in 1..Len(b) : b[i] = <<F!Flush>> => b[j] # <<F!Eos>> /\ ~conf.input
  BY DEF Marks
<1> DEFINE t == Tail(b)
<1>6. Marks(t)
  <2>1. \A i, j \in 1..Len(t) : t[i] = <<F!Flush>> => t[j] # <<F!Eos>> /\ ~conf.input
    BY <1>1, <1>5
  <2> QED
    BY <1>4, <2>1 DEF Marks
<1>7. DataOf(b) = <<>>
  BY <1>3, MarksOnly
<1>8. DataOf(t) = <<>>
  <2>1. t \in Seq(Item) /\ \A i \in 1..Len(t) : t[i] \notin Bucket
    BY <1>1, <1>4
  <2> HIDE DEF t
  <2> QED
    BY <2>1, MarksOnly
<1> QED
  BY <1>1, <1>6, <1>7, <1>8

\* What ap_get_brigade() adds to bb_in.
LEMMA MarksAdded ==
    ASSUME conf.input, NEW a \in Seq(Item), NEW b \in Seq(Item), Marks(a), Marks(b),
           ~HasEos(a) \/ b = <<<<F!Eos>>>>
    PROVE  Marks(a \o b) /\ (HasEos(a \o b) <=> HasEos(a) \/ HasEos(b))
<1> DEFINE c == a \o b
<1>1. Len(a) \in Nat /\ Len(b) \in Nat /\ Len(c) = Len(a) + Len(b)
      /\ (\A i \in 1..Len(a) : a[i] \in Item) /\ (\A i \in 1..Len(b) : b[i] \in Item)
  OBVIOUS
<1>2. \A i \in 1..Len(c) : c[i] = IF i <= Len(a) THEN a[i] ELSE b[i - Len(a)]
  BY <1>1
<1> HIDE DEF c
<1>3. \A i \in 1..Len(a) : i \in 1..Len(c) /\ c[i] = a[i]
  BY <1>1, <1>2
<1>4. \A i \in 1..Len(b) : Len(a) + i \in 1..Len(c) /\ c[Len(a) + i] = b[i]
  BY <1>1, <1>2
<1>5. \A i \in 1..Len(c) : \/ i \in 1..Len(a) /\ c[i] = a[i]
                           \/ i - Len(a) \in 1..Len(b) /\ c[i] = b[i - Len(a)] /\ i > Len(a)
  BY <1>1, <1>2
<1>6. HasEos(c) <=> HasEos(a) \/ HasEos(b)
  <2>1. ASSUME NEW i \in 1..Len(a), a[i] = <<F!Eos>> PROVE HasEos(c)
    BY <1>3, <2>1 DEF HasEos
  <2>2. ASSUME NEW i \in 1..Len(b), b[i] = <<F!Eos>> PROVE HasEos(c)
    <3>1. Len(a) + i \in 1..Len(c) /\ c[Len(a) + i] = <<F!Eos>>
      BY <1>4, <2>2
    <3> QED
      BY <3>1 DEF HasEos
  <2>3. ASSUME NEW i \in 1..Len(c), c[i] = <<F!Eos>> PROVE HasEos(a) \/ HasEos(b)
    BY <1>5, <2>3 DEF HasEos
  <2> QED
    BY <2>1, <2>2, <2>3 DEF HasEos
<1>7. (\A i \in 1..Len(a) : a[i] # <<F!Flush>>) /\ (\A i \in 1..Len(b) : b[i] # <<F!Flush>>)
  BY DEF Marks
<1>8. \A i \in 1..Len(c) : c[i] # <<F!Flush>>
  BY <1>5, <1>7
<1>9. ASSUME NEW i \in 1..Len(c), NEW j \in 1..Len(c), i < j, c[i] \notin Bucket PROVE c[j] \notin Bucket
  <2>1. CASE i \in 1..Len(a) /\ c[i] = a[i]
    <3>1. a[i] = <<F!Eos>>
      BY <1>1, <1>7, <1>9, <2>1, ItemFacts
    <3>2. HasEos(a) /\ b = <<<<F!Eos>>>>
      BY <2>1, <3>1 DEF HasEos
    <3>3. \A k \in 1..Len(b) : b[k] = <<F!Eos>>
      BY <3>2
    <3>4. CASE j \in 1..Len(a) /\ c[j] = a[j]
      BY <1>9, <2>1, <3>4 DEF Marks
    <3>5. CASE j - Len(a) \in 1..Len(b) /\ c[j] = b[j - Len(a)]
      BY <3>3, <3>5, ItemFacts
    <3> QED
      BY <1>5, <3>4, <3>5
  <2>2. CASE i - Len(a) \in 1..Len(b) /\ c[i] = b[i - Len(a)] /\ i > Len(a)
    <3>1. j - Len(a) \in 1..Len(b) /\ c[j] = b[j - Len(a)] /\ i - Len(a) < j - Len(a)
      BY <1>1, <1>5, <1>9, <2>2
    <3> QED
      BY <1>9, <2>2, <3>1 DEF Marks
  <2> QED
    BY <1>5, <2>1, <2>2
<1>10. Marks(c)
  BY <1>8, <1>9 DEF Marks
<1> QED
  BY <1>6, <1>10 DEF c

\* A part of the first bucket instead of it, or none.
LEMMA MarksCut ==
    ASSUME NEW b \in Seq(Item), b # <<>>, b[1] \in Bucket, NEW r \in Seq(Item), Marks(b),
           r # <<>> => Len(r) = 1 /\ r[1] \in Bucket
    PROVE  Marks(r \o Tail(b)) /\ (HasEos(r \o Tail(b)) <=> HasEos(b)) /\ r \o Tail(b) \in Seq(Item)
<1> DEFINE c == r \o Tail(b)
           d == 1 - Len(r)
<1>1. Len(b) \in Nat \ {0} /\ Tail(b) \in Seq(Item) /\ Len(Tail(b)) = Len(b) - 1 /\ Len(r) \in {0, 1}
      /\ \A i \in 1..Len(Tail(b)) : Tail(b)[i] = b[i + 1]
  <2>1. Len(r) \in {0, 1}
    BY EmptySeq
  <2> QED
    BY <2>1
<1>2. c \in Seq(Item) /\ Len(c) = Len(r) + Len(b) - 1
      /\ \A i \in 1..Len(c) : c[i] = IF i <= Len(r) THEN r[i] ELSE Tail(b)[i - Len(r)]
  BY <1>1
<1> HIDE DEF c
<1>3. \A i \in 1..Len(c) : i + d \in 1..Len(b) /\ (c[i] = b[i + d] \/ (i = 1 /\ c[i] \in Bucket /\ b[i + d] \in Bucket))
  <2> DEFINE t == Tail(b)
  <2>1. t \in Seq(Item) /\ Len(t) = Len(b) - 1 /\ (\A i \in 1..Len(t) : t[i] = b[i + 1])
        /\ \A i \in 1..Len(c) : c[i] = IF i <= Len(r) THEN r[i] ELSE t[i - Len(r)]
    BY <1>1, <1>2
  <2> HIDE DEF t
  <2>2. ASSUME NEW i \in 1..Len(c)
        PROVE  i + d \in 1..Len(b) /\ (c[i] = b[i + d] \/ (i = 1 /\ c[i] \in Bucket /\ b[i + d] \in Bucket))
    <3>1. CASE Len(r) = 0
      BY <1>1, <1>2, <2>1, <3>1
    <3>2. CASE Len(r) = 1
      <4>1. r[1] \in Bucket
        <5>1. r # <<>>
          <6>1. CASE r = <<>>
            <7>1. Len(r) = 0
              BY <6>1
            <7> QED
              BY <3>2, <7>1
          <6> QED
            BY <6>1
        <5> QED
          BY <5>1
      <4> QED
        BY <1>1, <1>2, <2>1, <3>2, <4>1
    <3> QED
      BY <1>1, <3>1, <3>2
  <2> QED
    BY <2>2
<1>4. \A i \in 2..Len(b) : i - d \in 1..Len(c) /\ c[i - d] = b[i]
  <2> DEFINE t == Tail(b)
  <2>1. t \in Seq(Item) /\ Len(t) = Len(b) - 1 /\ (\A i \in 1..Len(t) : t[i] = b[i + 1])
        /\ \A i \in 1..Len(c) : c[i] = IF i <= Len(r) THEN r[i] ELSE t[i - Len(r)]
    BY <1>1, <1>2
  <2> HIDE DEF t
  <2>2. ASSUME NEW i \in 2..Len(b) PROVE i - d \in 1..Len(c) /\ c[i - d] = b[i]
    <3>1. i - d \in 1..Len(c) /\ i - d > Len(r) /\ i - d - Len(r) = i - 1 /\ i - 1 \in 1..Len(t)
      BY SMTT(30), <1>1, <1>2, <2>1
    <3>2. c[i - d] = t[i - d - Len(r)]
      BY SMTT(30), <1>1, <2>1, <3>1
    <3> QED
      BY <2>1, <3>1, <3>2
  <2> QED
    BY <2>2
<1>5. HasEos(c) <=> HasEos(b)
  <2>1. ASSUME NEW i \in 1..Len(b), b[i] = <<F!Eos>> PROVE HasEos(c)
    <3>1. i \in 2..Len(b)
      <4>1. i # 1
        BY <2>1, ItemFacts
      <4> QED
        BY <1>1, <4>1
    <3> QED
      BY <1>4, <2>1, <3>1 DEF HasEos
  <2>2. ASSUME NEW i \in 1..Len(c), c[i] = <<F!Eos>> PROVE HasEos(b)
    <3>1. c[i] \notin Bucket
      BY <2>2, ItemFacts
    <3> QED
      BY <1>3, <2>2, <3>1 DEF HasEos
  <2> QED
    BY <2>1, <2>2 DEF HasEos
<1>6. ASSUME NEW i \in 1..Len(c), NEW j \in 1..Len(c), i < j, c[i] \notin Bucket PROVE c[j] \notin Bucket
  <2>1. b[i + d] \notin Bucket /\ i + d < j + d /\ i + d \in 1..Len(b) /\ j + d \in 1..Len(b)
    BY <1>1, <1>3, <1>6
  <2>2. b[j + d] \notin Bucket
    BY <2>1 DEF Marks
  <2> QED
    BY <1>3, <2>2
<1>7. ASSUME NEW i \in 1..Len(c), NEW j \in 1..Len(c), c[i] = <<F!Flush>> PROVE c[j] # <<F!Eos>> /\ ~conf.input
  <2>1. c[i] \notin Bucket /\ <<F!Eos>> \notin Bucket
    BY <1>7, ItemFacts
  <2>2. b[i + d] = <<F!Flush>> /\ i + d \in 1..Len(b) /\ j + d \in 1..Len(b)
    BY <1>3, <1>7, <2>1
  <2>3. b[j + d] # <<F!Eos>> /\ ~conf.input
    BY <2>2 DEF Marks
  <2>4. c[j] = b[j + d] \/ c[j] \in Bucket
    BY <1>3
  <2> QED
    BY <2>1, <2>3, <2>4
<1>8. Marks(c)
  BY <1>6, <1>7 DEF Marks
<1> QED
  BY <1>2, <1>5, <1>8 DEF c

LEMMA MarksStay == ASSUME conf' = conf, Marks(bbIn') PROVE Marks(bbIn)'
BY DEF Marks

-----------------------------------------------------------------------------
(* What a handler that copies has read, written and passed.                *)

LEMMA EndFacts ==
    /\ End(TRUE) = <<F!Eos>> /\ End(FALSE) = <<>> /\ End(TRUE) \in Ints /\ F!Eos \in F!Range(End(TRUE))
    /\ \A x, y \in Ints : F!Unmarked(Join(x, y)) = Join(F!Unmarked(x), F!Unmarked(y))
    /\ F!Unmarked(<<>>) = <<>>
    /\ \A d \in Seq(Byte) : d \in Ints /\ Put(d) = d /\ F!Unmarked(d) = d
    /\ \A x \in Ints : /\ F!Unmarked(Append(x, F!Eos)) = Join(F!Unmarked(x), End(TRUE))
                       /\ F!Unmarked(Append(x, F!Flush)) = F!Unmarked(x)
    /\ \A x, y \in Seq(Byte) : Join(x, y) \in Seq(Byte)
    /\ \A x \in Ints : F!Eos \in F!Range(Join(x, End(TRUE)))
<1>1. End(TRUE) = <<F!Eos>> /\ End(FALSE) = <<>>
  BY DEF End
<1>2. End(TRUE) \in Ints
  <2>1. F!Eos \in Int
    BY MarksAre
  <2>2. <<F!Eos>> \in Seq(Int)
    BY <2>1
  <2> DEFINE c == <<F!Eos>>
  <2>3. End(TRUE) = c /\ c \in Seq(Int)
    BY <1>1, <2>2
  <2> HIDE DEF c
  <2> QED
    BY <2>3 DEF Ints
<1>3. ASSUME NEW x \in Ints PROVE F!Eos \in F!Range(Join(x, End(TRUE)))
  <2> DEFINE c == x \o <<F!Eos>>
  <2>1. Len(x) \in Nat /\ Len(c) = Len(x) + 1 /\ DOMAIN c = 1..Len(c) /\ c[Len(x) + 1] = F!Eos
    BY MarksAre DEF Ints
  <2>2. F!Eos \in {c[i] : i \in DOMAIN c}
    BY <2>1
  <2> QED
    BY <1>1, <2>2 DEF Join, F!Range
<1>4. F!Eos \in F!Range(End(TRUE))
  <2> DEFINE c == <<F!Eos>>
  <2>1. 1 \in DOMAIN c /\ c[1] = F!Eos
    OBVIOUS
  <2> QED
    BY <1>1, <2>1 DEF F!Range
<1>5. ASSUME NEW x \in Ints, NEW y \in Ints PROVE F!Unmarked(Join(x, y)) = Join(F!Unmarked(x), F!Unmarked(y))
  BY DataJoined DEF Ints, Join
<1>6. ASSUME NEW d \in Seq(Byte) PROVE d \in Ints /\ Put(d) = d /\ F!Unmarked(d) = d
  BY ItemFacts, DataBytes DEF Ints, Put
<1>7. ASSUME NEW x \in Ints
      PROVE  F!Unmarked(Append(x, F!Eos)) = Join(F!Unmarked(x), End(TRUE)) /\ F!Unmarked(Append(x, F!Flush)) = F!Unmarked(x)
  BY <1>1, DataMarked DEF Ints, Join
<1>8. ASSUME NEW x \in Seq(Byte), NEW y \in Seq(Byte) PROVE Join(x, y) \in Seq(Byte)
  BY ConcatProperties DEF Join
<1> QED
  BY <1>1, <1>2, <1>3, <1>4, <1>5, <1>6, <1>7, <1>8, DataMarks

LEMMA DataOfInts ==
    /\ \A b \in Seq(Item) : DataOf(b) \in Ints
    /\ \A a, b \in Seq(Item) : DataOf(a \o b) = Join(DataOf(a), DataOf(b)) /\ a \o b \in Seq(Item)
<1>1. ASSUME NEW b \in Seq(Item) PROVE DataOf(b) \in Ints
  BY FlattenItems DEF Ints
<1>2. ASSUME NEW a \in Seq(Item), NEW b \in Seq(Item)
      PROVE  DataOf(a \o b) = Join(DataOf(a), DataOf(b)) /\ a \o b \in Seq(Item)
  BY DataOfJoined DEF Join
<1> QED
  BY <1>1, <1>2

LEMMA CopyKnown ==
    ASSUME FilterType, Copying, conf.copy, clean, conf.keeps, ~FlushInside
    PROVE  /\ ~ctx.transparent /\ written \in Seq(Byte) /\ written \in Ints
           /\ InCall => CopyCall /\ InHand \in Ints /\ InHand \in Seq(Byte) /\ Left \in Ints
           /\ ~InCall => CopyIdle
<1>1. ~ctx.transparent /\ written \in Seq(Byte) /\ (InCall => CopyCall) /\ (~InCall => CopyIdle)
  BY DEF Copying
<1>2. InHand \in Seq(Byte)
  BY Records DEF FilterType, InHand
<1>3. Left \in Ints
  BY DataOfInts DEF FilterType, Left
<1> QED
  BY <1>1, <1>2, <1>3, EndFacts

\* What is to be shown of the next state.
LEMMA CopySuffices ==
    ASSUME conf' = conf,
           conf.copy /\ clean' /\ conf.keeps /\ ~FlushInside =>
               /\ ctx'.transparent = FALSE /\ written' \in Seq(Byte)
               /\ IF InCall' THEN CopyCall' ELSE CopyIdle'
    PROVE  Copying'
BY DEF Copying

\* A call begins with an empty hand.
LEMMA CopyBegun ==
    ASSUME FilterType, conf' = conf, NEW b \in Seq(Item), Begun(b), written \in Seq(Byte),
           Join(written, DataOf(b)) = F!Bytes(1, given'), Marks(b), ended' <=> HasEos(b), passed = written
    PROVE  InCall' /\ CopyCall'
<1>1. /\ filterPc' = "handler" /\ bbIn' = b /\ bbOut' = <<>> /\ closed' = FALSE /\ got' = F!Unread
      /\ written' = written /\ passed' = passed
  BY DEF Begun
<1>2. InHand' = <<>> /\ got'.is = "unread" /\ got'.data = <<>>
  BY <1>1, Records DEF InHand
<1>3. Left' = DataOf(b)
  BY <1>1 DEF Left, DataOf
<1>4. written \in Ints /\ DataOf(b) \in Ints /\ Join(<<>>, DataOf(b)) = DataOf(b) /\ Join(written, <<>>) = written
  BY EndFacts, DataOfInts, JoinFacts
<1>5. Join(written', Join(InHand', Left')) = F!Bytes(1, given')
  BY <1>1, <1>2, <1>3, <1>4
<1>6. Marks(bbIn)' /\ (ended' <=> HasEos(bbIn'))
  BY <1>1, MarksStay
<1>7. Join(passed', F!Unmarked(bbOut')) = Join(written', End(closed'))
  BY <1>1, <1>4, EndFacts
<1> QED
  BY <1>1, <1>2, <1>5, <1>6, <1>7 DEF CopyCall, InCall, HasEos

LEMMA CopyCalled ==
    ASSUME F!FilterAssumption, FilterType, Copying, F!OutputCall \/ F!InputCall
    PROVE  Copying'
<1>1. Called
  BY CallFacts
<1>2. filterPc = "idle" /\ conf' = conf /\ ctx'.transparent = ctx.transparent
  BY <1>1, Records DEF Called, FilterType
<1>3. given \in 0..FilterBytes /\ ended \in BOOLEAN /\ FilterBytes \in Nat
  BY DEF FilterType, F!FilterAssumption
<1> SUFFICES ASSUME conf.copy, clean', conf.keeps, ~FlushInside
             PROVE  /\ ctx'.transparent = FALSE /\ written' \in Seq(Byte)
                    /\ IF InCall' THEN CopyCall' ELSE CopyIdle'
  BY <1>2, CopySuffices
<1>4. clean
  <2>1. ASSUME NEW b, ThroughTo(b) PROVE clean
    BY <2>1 DEF ThroughTo
  <2>2. ASSUME NEW b, Begun(b) PROVE clean
    BY <2>2 DEF Begun
  <2>3. ~Missed
    BY DEF Missed
  <2> QED
    BY <1>1, <2>1, <2>2, <2>3 DEF Called, CallTo
<1>5. ~ctx.transparent /\ ctx.transparent \in BOOLEAN /\ written \in Seq(Byte) /\ written \in Ints /\ CopyIdle
  BY <1>2, <1>4, CopyKnown, Records DEF InCall, FilterType
<1>6. \/ ~ended /\ \E b \in Seq(Item) : F!Gives(b) /\ Begun(b)
      \/ /\ ~(ended /\ F!Eos \in F!Range(passed)) /\ given' = given /\ ended' = ended /\ Begun(<<>>)
  <2>1. ~Missed
    BY DEF Missed
  <2> QED
    BY <1>1, <1>5, <2>1 DEF Called, CallTo
<1>7. written = F!Bytes(1, given) /\ passed = Join(written, End(ended))
  BY <1>5 DEF CopyIdle
<1>8. CASE ~ended /\ \E b \in Seq(Item) : F!Gives(b) /\ Begun(b)
  <2>1. PICK b \in Seq(Item) : F!Gives(b) /\ Begun(b)
    BY <1>8
  <2>2. F!Bytes(1, given') = Join(F!Bytes(1, given), DataOf(b)) /\ Marks(b) /\ (HasEos(b) <=> ended')
    BY <1>3, <2>1, GivesFacts DEF Join
  <2>3. passed = written
    BY <1>3, <1>5, <1>7, <1>8, EndFacts, JoinFacts
  <2>4. InCall' /\ CopyCall'
    BY <1>2, <1>5, <1>7, <2>1, <2>2, <2>3, CopyBegun
  <2>5. written' = written
    BY <2>1 DEF Begun
  <2> QED
    BY <1>2, <1>5, <2>4, <2>5
<1>9. CASE ~(ended /\ F!Eos \in F!Range(passed)) /\ given' = given /\ ended' = ended /\ Begun(<<>>)
  <2> DEFINE b == <<>>
  <2>1. ~ended
    BY <1>3, <1>5, <1>7, <1>9, EndFacts
  <2>2. passed = written
    BY <1>3, <1>5, <1>7, <2>1, EndFacts, JoinFacts
  <2>3. b \in Seq(Item) /\ Marks(b) /\ (ended' <=> HasEos(b)) /\ Begun(b) /\ DataOf(b) = <<>>
    BY <1>9, <2>1, NoMarks
  <2>4. Join(written, <<>>) = F!Bytes(1, given')
    BY <1>5, <1>7, <1>9, JoinFacts
  <2> HIDE DEF b
  <2>5. InCall' /\ CopyCall'
    BY <1>2, <1>5, <2>2, <2>3, <2>4, CopyBegun
  <2>6. written' = written
    BY <2>3 DEF Begun
  <2> QED
    BY <1>2, <1>5, <2>5, <2>6
<1> QED
  BY <1>6, <1>8, <1>9

\* The beginning of a read, with what has been added to bb_in.
LEMMA CopyStarts ==
    ASSUME FilterType, conf' = conf, NEW c \in Seq(Item), NEW line, NEW len \in Int, Starts(line, len, c),
           filterPc = "handler", got.is = "unread", got.data = <<>>, len # 0, len >= -1,
           written \in Seq(Byte), Join(written, DataOf(c)) = F!Bytes(1, given'),
           Marks(c), ended' <=> HasEos(c), closed' = FALSE, bbOut' = bbOut, passed' = passed, written' = written,
           Join(passed, F!Unmarked(bbOut)) = Join(written, End(FALSE))
    PROVE  InCall' /\ CopyCall'
<1>1. Join(passed', F!Unmarked(bbOut')) = Join(written', End(closed'))
  OBVIOUS
<1>2. DataOf(c) \in Ints /\ Join(<<>>, DataOf(c)) = DataOf(c) /\ <<>> \in Ints
  BY DataOfInts, JoinFacts
<1>3. ASSUME InHand' = <<>>, Left' = DataOf(c) PROVE Join(written', Join(InHand', Left')) = F!Bytes(1, given')
  BY <1>2, <1>3
<1>4. CASE c = <<>> /\ got' = F!Got(<<>>) /\ bbIn' = <<>> /\ filterPc' = filterPc
  <2>1. got'.is = "data" /\ got'.data = <<>> /\ InHand' = <<>>
    <3> DEFINE d == <<>>
    <3>1. d \in Seq(Byte) /\ got' = F!Got(d)
      BY <1>4
    <3> HIDE DEF d
    <3>2. got'.is = "data" /\ got'.data = d
      BY <3>1, Records
    <3> QED
      BY <1>4, <3>2 DEF d, InHand
  <2>2. Left' = DataOf(c) /\ Left' = <<>>
    BY <1>4, NoMarks DEF Left, DataOf
  <2>3. Marks(bbIn)' /\ ~ended'
    BY <1>4, MarksStay, NoMarks
  <2>4. ~HasEos(bbIn')
    BY <1>4, NoMarks
  <2> QED
    BY <1>1, <1>3, <1>4, <2>1, <2>2, <2>3, <2>4 DEF CopyCall, InCall, HasEos
<1>5. CASE c # <<>> /\ c[1] = <<F!Eos>> /\ got' = F!Eof /\ bbIn' = Tail(c) /\ filterPc' = filterPc
  <2>1. got'.is = "eof" /\ got'.data = <<>> /\ InHand' = <<>>
    BY <1>5, Records DEF InHand
  <2>2. c[1] \notin Bucket
    BY <1>5, ItemFacts
  <2>3. DataOf(c) = <<>> /\ Tail(c) \in Seq(Item) /\ Marks(Tail(c)) /\ DataOf(Tail(c)) = <<>>
    BY <1>5, <2>2, MarksBehind
  <2>4. Left' = DataOf(c) /\ Left' = <<>>
    <3>1. Left' = DataOf(bbIn')
      BY DEF Left, DataOf
    <3> QED
      BY <1>5, <2>3, <3>1
  <2>5. Marks(bbIn)'
    BY <1>5, <2>3, MarksStay
  <2>6. ended'
    <3>1. Len(c) \in Nat /\ Len(c) # 0
      BY <1>5, EmptySeq
    <3>2. 1 \in 1..Len(c)
      BY <3>1
    <3> QED
      BY <1>5, <3>2 DEF HasEos
  <2> QED
    BY <1>1, <1>3, <1>5, <2>1, <2>4, <2>5, <2>6 DEF CopyCall, InCall
<1>6. CASE /\ c # <<>> /\ c[1] # <<F!Eos>> /\ bbIn' = c /\ filterPc' = "reading" /\ got' = got
           /\ rd'.len = len /\ rd'.out = <<>>
  <2>1. InHand' = <<>> /\ Left' = DataOf(c)
    BY <1>6 DEF InHand, Left, DataOf
  <2>2. Marks(bbIn)' /\ (ended' <=> HasEos(bbIn'))
    BY <1>6, MarksStay
  <2> QED
    BY <1>1, <1>3, <1>6, <2>1, <2>2 DEF CopyCall, InCall, HasEos
<1> QED
  BY <1>4, <1>5, <1>6 DEF Starts

LEMMA CopyRead ==
    ASSUME F!FilterAssumption, FilterType, Copying, NEW line \in BOOLEAN, NEW len \in FilterLens, F!Read(line, len)
    PROVE  Copying'
<1>1. Asked(line, len)
  BY ReadFacts
<1>2. filterPc = "handler" /\ InCall /\ conf' = conf /\ ctx' = ctx /\ bbOut' = bbOut /\ closed' = closed
      /\ written' = written /\ passed' = passed
      /\ (conf.copy => got.is = "unread" /\ len # 0 /\ len >= -1)
  BY <1>1 DEF Asked, InCall
<1>3. given \in 0..FilterBytes /\ ended \in BOOLEAN /\ FilterBytes \in Nat /\ len \in Int /\ bbIn \in Seq(Item)
      /\ closed \in BOOLEAN
  BY DEF FilterType, F!FilterAssumption
<1> SUFFICES ASSUME conf.copy, clean', conf.keeps, ~FlushInside
             PROVE  ctx'.transparent = FALSE /\ written' \in Seq(Byte) /\ InCall' /\ CopyCall'
  BY <1>2, CopySuffices
<1>4. clean
  BY <1>1 DEF Asked, FetchedTo, RaisedTo
<1>5. ctx.transparent = FALSE /\ written \in Seq(Byte) /\ written \in Ints /\ CopyCall /\ Left \in Ints
  BY <1>2, <1>4, CopyKnown, Records DEF FilterType
<1>6. got.is = "unread" /\ got.data = <<>> /\ closed = FALSE /\ (ended <=> HasEos(bbIn)) /\ Marks(bbIn)
      /\ Join(passed, F!Unmarked(bbOut)) = Join(written, End(FALSE))
      /\ Join(written, Join(got.data, Left)) = F!Bytes(1, given)
  BY <1>2, <1>3, <1>5 DEF CopyCall, InHand
<1>7. Join(written, DataOf(bbIn)) = F!Bytes(1, given)
  BY <1>5, <1>6, JoinFacts DEF Left
<1>8. \E c \in Seq(Item) : /\ Starts(line, len, c) /\ Join(written, DataOf(c)) = F!Bytes(1, given')
                           /\ Marks(c) /\ (ended' <=> HasEos(c))
  <2>1. CASE given' = given /\ ended' = ended /\ Starts(line, len, bbIn)
    BY <1>3, <1>6, <1>7, <2>1
  <2>2. CASE conf.input /\ \E b \in Seq(Item) : F!Gives(b) /\ bbIn \o b \in Seq(Item) /\ Starts(line, len, bbIn \o b)
    <3>1. PICK b \in Seq(Item) : F!Gives(b) /\ bbIn \o b \in Seq(Item) /\ Starts(line, len, bbIn \o b)
      BY <2>2
    <3>2. /\ F!Bytes(1, given') = Join(F!Bytes(1, given), DataOf(b)) /\ Marks(b) /\ (HasEos(b) <=> ended')
          /\ ended => b = <<<<F!Eos>>>> /\ ended'
      BY <1>3, <3>1, GivesFacts DEF Join
    <3>3. Marks(bbIn \o b) /\ (HasEos(bbIn \o b) <=> HasEos(bbIn) \/ HasEos(b))
      BY <1>3, <1>6, <2>2, <3>2, MarksAdded
    <3> DEFINE c == bbIn \o b
    <3>4. DataOf(c) = Join(DataOf(bbIn), DataOf(b)) /\ DataOf(bbIn) \in Ints /\ DataOf(b) \in Ints
      BY <1>3, DataOfInts
    <3>5. c \in Seq(Item) /\ Starts(line, len, c) /\ Marks(c) /\ (HasEos(c) <=> HasEos(bbIn) \/ HasEos(b))
      BY <3>1, <3>3
    <3> HIDE DEF c
    <3>6. Join(written, DataOf(c)) = F!Bytes(1, given')
      BY <1>5, <1>7, <3>2, <3>4, JoinFacts
    <3> QED
      BY <1>6, <3>2, <3>5, <3>6
  <2> QED
    BY <1>1, <1>6, <2>1, <2>2 DEF Asked, FetchedTo, RaisedTo
<1>9. InCall' /\ CopyCall'
  BY <1>2, <1>3, <1>5, <1>6, <1>8, CopyStarts
<1> QED
  BY <1>2, <1>5, <1>9

\* A round of the loop takes from the first bucket what it adds.
LEMMA CopyBucket ==
    ASSUME F!FilterAssumption, FilterType, Reads, Copying, F!ReadBucket PROVE Copying'
<1>1. FilterHuge \in Nat \ {0} /\ bbIn \in Seq(Item)
  BY DEF F!FilterAssumption, FilterType
<1> DEFINE b == bbIn[1]
           n == F!CopySize
           s == SubSeq(b, 1, n)
           r == Rest(b, n)
           line == LineIn(b, n)
           t == Tail(bbIn)
<1>2. /\ filterPc = "reading" /\ bbIn # <<>> /\ b \in Bucket
      /\ s \in Seq(Byte) /\ s # <<>> /\ r \in Seq(Item)
      /\ s \o FlattenSeq(r) = b /\ (r # <<>> => Len(r) = 1 /\ r[1] \in Bucket)
      /\ bbIn' = r \o t
      /\ rd' \in RdSet /\ rd'.len = rd.len /\ rd'.out = rd.out \o s
      /\ IF line THEN filterPc' = "handler" /\ got' = F!Got(rd'.out)
         ELSE filterPc' = filterPc /\ got' = got
  BY <1>1, ReadBucketFacts
<1>3. InCall /\ InCall' /\ conf' = conf /\ ctx' = ctx /\ bbOut' = bbOut /\ closed' = closed /\ ended' = ended
      /\ written' = written /\ passed' = passed /\ given' = given /\ clean' = clean
  BY DEF F!ReadBucket, F!setup, F!source, F!history, InCall
<1>4. t \in Seq(Item)
  BY <1>1, <1>2, HeadTailProperties
<1>5. DataOf(bbIn) = Join(b, DataOf(t)) /\ DataOf(r) = FlattenSeq(r) /\ FlattenSeq(r) \in Seq(Byte)
  <2>1. bbIn = <<b>> \o t
    BY <1>1, <1>2, HeadTailProperties
  <2>2. b \in Seq(Byte) /\ b \in Item /\ <<b>> \in Seq(Item) /\ DataOf(<<b>>) = b
    <3>1. b \in Item /\ b \in Seq(Byte)
      BY <1>2, ItemFacts
    <3> HIDE DEF b
    <3> QED
      BY <3>1, DataOfOne, DataBytes
  <2>3. DataOf(bbIn) = Join(b, DataOf(t))
    <3> HIDE DEF b, t
    <3>1. DataOf(<<b>> \o t) = Join(DataOf(<<b>>), DataOf(t))
      BY <1>4, <2>2, DataOfInts
    <3> QED
      BY <2>1, <2>2, <3>1
  <2>4. FlattenSeq(r) \in Seq(Byte)
    <3> HIDE DEF r
    <3>1. r \in Seq(Seq(Byte))
      <4>1. CASE r = <<>>
        BY <4>1
      <4>2. CASE Len(r) = 1 /\ r[1] \in Bucket
        <5> DEFINE W == Seq(Byte)
        <5>1. r[1] \in W
          BY <4>2 DEF Bucket
        <5> HIDE DEF W
        <5>2. Len(r) \in Nat /\ DOMAIN r = 1..Len(r) /\ r = [i \in 1..Len(r) |-> r[i]]
          <6>1. r \in Seq(Item)
            BY <1>2
          <6> QED
            BY <6>1
        <5>3. \A i \in 1..Len(r) : r[i] \in W
          BY <4>2, <5>1
        <5>4. r \in [1..Len(r) -> W]
          BY <5>2, <5>3
        <5>5. r \in Seq(W)
          BY <5>2, <5>4
        <5> QED
          BY <5>5 DEF W
      <4> QED
        BY <1>2, <4>1, <4>2
    <3> QED
      BY <3>1, FlattenType
  <2>5. DataOf(r) = FlattenSeq(r)
    BY <2>4, DataBytes DEF DataOf
  <2> QED
    BY <2>3, <2>4, <2>5
<1>6. Marks(bbIn) => Marks(r \o t) /\ (HasEos(r \o t) <=> HasEos(bbIn))
  BY <1>1, <1>2, MarksCut
<1> HIDE DEF s, r, t, n, line, b
<1> SUFFICES ASSUME conf.copy, clean, conf.keeps, ~FlushInside
             PROVE  ctx'.transparent = FALSE /\ written' \in Seq(Byte) /\ CopyCall'
  BY <1>3, CopySuffices
<1>7. ctx.transparent = FALSE /\ written \in Seq(Byte) /\ written \in Ints /\ CopyCall
  BY <1>3, CopyKnown, Records DEF FilterType
<1>8. rd.out \in Ints /\ s \in Ints /\ FlattenSeq(r) \in Ints /\ DataOf(t) \in Ints /\ b = Join(s, FlattenSeq(r))
      /\ rd'.out = Join(rd.out, s) /\ rd.out \in Seq(Byte) /\ rd'.out \in Seq(Byte)
  BY <1>2, <1>4, <1>5, Records, EndFacts, DataOfInts DEF FilterType, Join
<1>9. InHand = rd.out /\ Join(written, Join(rd.out, Join(b, DataOf(t)))) = F!Bytes(1, given)
  BY <1>2, <1>5, <1>7 DEF CopyCall, InHand, Left
<1>10. InHand' = rd'.out
  <2>1. CASE line
    BY <1>2, <1>8, <2>1, Records DEF InHand
  <2>2. CASE ~line
    BY <1>2, <2>2 DEF InHand
  <2> QED
    BY <2>1, <2>2
<1>11. Left' = Join(FlattenSeq(r), DataOf(t))
  <2>1. DataOf(r \o t) = Join(DataOf(r), DataOf(t))
    BY <1>2, <1>4, DataOfInts
  <2>2. Left' = DataOf(bbIn')
    BY DEF Left, DataOf
  <2> QED
    BY <1>2, <1>5, <2>1, <2>2
<1>12. Join(rd.out, Join(Join(s, FlattenSeq(r)), DataOf(t))) = Join(Join(rd.out, s), Join(FlattenSeq(r), DataOf(t)))
  <2> DEFINE f == FlattenSeq(r)
             d == DataOf(t)
             o == rd.out
             e == Join(f, d)
  <2>1. f \in Ints /\ d \in Ints /\ o \in Ints
    BY <1>8
  <2> HIDE DEF f, d, o
  <2>2. Join(Join(s, f), d) = Join(s, e) /\ e \in Ints
    BY <1>8, <2>1, JoinFacts
  <2> HIDE DEF e
  <2>3. Join(Join(o, s), e) = Join(o, Join(s, e))
    BY <1>8, <2>1, <2>2, JoinFacts
  <2> QED
    BY <2>2, <2>3 DEF f, d, o, e
<1>13. Join(written', Join(InHand', Left')) = F!Bytes(1, given')
  BY <1>3, <1>8, <1>9, <1>10, <1>11, <1>12
<1>14. got.is = "unread" /\ got.data = <<>> /\ ~closed /\ (ended <=> HasEos(bbIn)) /\ Marks(bbIn)
       /\ Join(passed, F!Unmarked(bbOut)) = Join(written, End(closed)) /\ rd.len # 0 /\ rd.len >= -1
  BY <1>2, <1>7 DEF CopyCall
<1>15. Marks(bbIn)' /\ (ended' <=> HasEos(bbIn'))
  BY <1>2, <1>3, <1>6, <1>14, MarksStay
<1>16. rd'.out # <<>>
  <2> DEFINE o == rd.out
  <2>0. o \in Seq(Byte) /\ s \in Seq(Byte) /\ rd'.out = o \o s
    BY <1>2, <1>8
  <2> HIDE DEF o
  <2>1. Len(s) # 0 /\ Len(s) \in Nat /\ Len(o) \in Nat
    BY <1>2, <2>0, EmptySeq
  <2>2. Len(rd'.out) # 0
    BY <2>0, <2>1
  <2> QED
    BY <1>8, <2>2, EmptySeq
<1>17. Join(passed', F!Unmarked(bbOut')) = Join(written', End(closed')) /\ ~closed'
  BY <1>3, <1>14
<1>18. CopyCall'
  <2>1. CASE line
    <3>1. got'.is = "data" /\ got'.data = rd'.out /\ filterPc' = "handler"
      BY <1>2, <1>8, <2>1, Records
    <3> QED
      BY <1>13, <1>15, <1>16, <1>17, <3>1 DEF CopyCall, HasEos
  <2>2. CASE ~line
    <3>1. got' = got /\ rd'.len = rd.len
      BY <1>2, <2>2
    <3> QED
      BY <1>13, <1>14, <1>15, <1>16, <1>17, <3>1 DEF CopyCall, HasEos
  <2> QED
    BY <2>1, <2>2
<1> QED
  BY <1>3, <1>7, <1>18

LEMMA CopyEnds == ASSUME FilterType, Copying, F!ReadEnds PROVE Copying'
<1>1. /\ filterPc = "reading" /\ filterPc' = "handler" /\ got' = F!Got(rd.out) /\ InCall /\ InCall'
      /\ conf' = conf /\ ctx' = ctx /\ bbIn' = bbIn /\ bbOut' = bbOut /\ closed' = closed /\ ended' = ended
      /\ written' = written /\ passed' = passed /\ given' = given /\ clean' = clean
  BY DEF F!ReadEnds, F!setup, F!source, F!object, F!history, InCall
<1>2. ~F!More
  BY DEF F!ReadEnds
<1> SUFFICES ASSUME conf.copy, clean, conf.keeps, ~FlushInside
             PROVE  ctx'.transparent = FALSE /\ written' \in Seq(Byte) /\ CopyCall'
  BY <1>1, CopySuffices
<1>3. ctx.transparent = FALSE /\ written \in Seq(Byte) /\ CopyCall
  BY <1>1, CopyKnown, Records DEF FilterType
<1>4. rd.out \in Seq(Byte) /\ rd.len \in Int /\ bbIn \in Seq(Item)
  BY Records DEF FilterType
<1>5. got'.is = "data" /\ got'.data = rd.out
  BY <1>1, <1>4, Records
<1>6. InHand' = InHand /\ Left' = Left
  BY <1>1, <1>5 DEF InHand, Left, DataOf
<1>7. Marks(bbIn)' /\ Marks(bbIn) /\ ~closed /\ (ended <=> HasEos(bbIn)) /\ rd.len # 0 /\ rd.len >= -1
      /\ (rd.out = <<>> => bbIn # <<>> /\ bbIn[1] # <<F!Eos>>)
  BY <1>1, <1>3, MarksStay DEF CopyCall
<1>8. ASSUME rd.out = <<>> PROVE Left = <<>> /\ ~ended
  <2>1. bbIn # <<>> /\ bbIn[1] # <<F!Eos>> /\ Len(rd.out) = 0
    BY <1>7, <1>8
  <2>2. ~F!IsData(bbIn[1])
    BY <1>2, <1>4, <1>7, <2>1 DEF F!More
  <2>3. Len(bbIn) \in Nat \ {0} /\ 1 \in 1..Len(bbIn) /\ bbIn[1] \in Item
    BY <1>4, <2>1, EmptySeq
  <2>4. bbIn[1] \notin Bucket /\ bbIn[1] = <<F!Flush>>
    BY <2>1, <2>2, <2>3, ItemFacts
  <2>5. DataOf(bbIn) = <<>>
    BY <1>4, <1>7, <2>1, <2>4, MarksBehind
  <2>6. ~HasEos(bbIn)
    BY <1>7, <2>3, <2>4 DEF Marks, HasEos
  <2> QED
    BY <1>7, <2>5, <2>6 DEF Left
<1>9. CopyCall'
  BY <1>1, <1>3, <1>5, <1>6, <1>7, <1>8 DEF CopyCall, HasEos
<1> QED
  BY <1>1, <1>3, <1>9

LEMMA CopyWrite == ASSUME FilterType, Copying, F!Write PROVE Copying'
<1>1. filterPc = "handler" /\ InCall /\ conf' = conf /\ ctx' = ctx /\ bbIn' = bbIn /\ closed' = closed
      /\ ended' = ended /\ given' = given /\ passed' = passed /\ rd' = rd
      /\ (conf.copy => got.is = "data" /\ got.data # <<>>)
  BY DEF F!Write, F!Calls, F!setup, F!source, InCall
<1>2. \/ clean' = FALSE
      \/ clean' = clean /\ filterPc' = filterPc /\ got' = F!Unread
         /\ (conf.copy /\ conf.keeps => bbOut' = Join(bbOut, got.data))
         /\ (conf.copy => written' = Join(written, got.data))
  <2>1. PICK d \in IF conf.copy THEN {got.data} ELSE {got.data, <<F!Own>>} :
          IF closed THEN F!Raises /\ UNCHANGED <<bbOut, got, written>>
          ELSE /\ \E shown \in F!Shown(d) : bbOut' = bbOut \o shown
               /\ written' = written \o d /\ got' = F!Unread /\ UNCHANGED <<filterPc, clean>>
    BY DEF F!Write
  <2>2. CASE closed
    BY <2>1, <2>2, RaisesFacts DEF RaisedTo
  <2>3. CASE ~closed
    <3>1. (conf.keeps => bbOut' = bbOut \o d) /\ written' = written \o d /\ got' = F!Unread /\ filterPc' = filterPc /\ clean' = clean
      BY <2>1, <2>3 DEF F!Shown
    <3>2. conf.copy => d = got.data
      BY <2>1
    <3> QED
      BY <3>1, <3>2 DEF Join
  <2> QED
    BY <2>2, <2>3
<1> SUFFICES ASSUME conf.copy, clean', conf.keeps, ~FlushInside
             PROVE  ctx'.transparent = FALSE /\ written' \in Seq(Byte) /\ InCall' /\ CopyCall'
  BY <1>1, CopySuffices
<1>3. clean /\ filterPc' = filterPc /\ got' = F!Unread /\ InCall'
  BY <1>1, <1>2 DEF InCall
<1> DEFINE d == got.data
           u == F!Unmarked(bbOut)
           end == End(closed)
<1>4. bbOut' = Join(bbOut, d) /\ written' = Join(written, d)
  BY <1>2
<1>5. ctx.transparent = FALSE /\ written \in Seq(Byte) /\ CopyCall /\ written \in Ints /\ Left \in Ints
  BY <1>1, <1>3, CopyKnown, Records DEF FilterType
<1>6. d \in Seq(Byte) /\ d \in Ints /\ F!Unmarked(d) = d
  <2>1. d \in Seq(Byte)
    BY Records DEF FilterType
  <2> QED
    BY <2>1, EndFacts
<1>7. passed \in Ints /\ bbOut \in Ints /\ u \in Ints
  <2>1. passed \in Ints /\ bbOut \in Ints
    BY DEF FilterType, Ints
  <2> QED
    BY <2>1, PutFacts
<1>8. /\ got.is = "data" /\ ~closed /\ (ended <=> HasEos(bbIn)) /\ Marks(bbIn)
      /\ Join(written, Join(d, Left)) = F!Bytes(1, given) /\ Join(passed, u) = Join(written, end)
  BY <1>1, <1>5 DEF CopyCall, InHand
<1>9. end = <<>> /\ closed = FALSE
  BY <1>8, EndFacts DEF FilterType
<1> HIDE DEF d, u, end
<1>10. got'.is = "unread" /\ got'.data = <<>> /\ InHand' = <<>> /\ Left' = Left
  BY <1>1, <1>3, Records DEF InHand, Left, DataOf
<1>11. Join(written', Join(InHand', Left')) = F!Bytes(1, given')
  <2>1. Join(<<>>, Left) = Left /\ Join(Join(written, d), Left) = Join(written, Join(d, Left))
    BY <1>5, <1>6, JoinFacts
  <2> QED
    BY <1>1, <1>4, <1>8, <1>10, <2>1
<1>12. Join(passed', F!Unmarked(bbOut')) = Join(written', End(closed'))
  <2>1. F!Unmarked(bbOut') = Join(u, d)
    BY <1>4, <1>6, <1>7, EndFacts DEF u
  <2>2. Join(passed, Join(u, d)) = Join(Join(passed, u), d)
    BY <1>6, <1>7, JoinFacts
  <2>3. Join(passed, u) = written
    BY <1>5, <1>8, <1>9, JoinFacts
  <2>4. Join(written', <<>>) = written'
    <3>1. Join(written, d) \in Ints
      BY <1>5, <1>6, JoinFacts
    <3> QED
      BY <1>4, <3>1, JoinFacts
  <2>5. End(closed') = <<>>
    BY <1>1, <1>9, EndFacts
  <2> QED
    BY <1>1, <1>4, <2>1, <2>2, <2>3, <2>4, <2>5
<1>13. Marks(bbIn)' /\ (ended' <=> HasEos(bbIn'))
  BY <1>1, <1>8, MarksStay
<1>14. written' \in Seq(Byte)
  BY <1>4, <1>5, <1>6, EndFacts
<1>15. CopyCall'
  BY <1>1, <1>3, <1>8, <1>10, <1>11, <1>12, <1>13 DEF CopyCall, HasEos
<1> QED
  BY <1>1, <1>3, <1>5, <1>14, <1>15

LEMMA CopyClose == ASSUME FilterType, Failing, Copying, F!Close PROVE Copying'
<1>1. ClosedTo
  BY CloseFacts
<1>2. /\ filterPc = "handler" /\ filterPc' = "handler" /\ closed' = TRUE /\ (conf.copy => got.is = "eof" /\ ~closed)
      /\ conf' = conf /\ ctx' = ctx /\ given' = given /\ ended' = ended
      /\ bbIn' = bbIn /\ rd' = rd /\ got' = got /\ written' = written /\ InCall /\ InCall'
  BY <1>1 DEF ClosedTo, InCall
<1> SUFFICES ASSUME conf.copy, clean', conf.keeps, ~FlushInside
             PROVE  ctx'.transparent = FALSE /\ written' \in Seq(Byte) /\ CopyCall'
  BY <1>2, CopySuffices
<1> DEFINE items == Append(bbOut, F!Eos)
           u == F!Unmarked(bbOut)
           e == End(TRUE)
<1>3. FlushedOut(items) /\ clean' = (clean /\ ~failed')
  BY <1>1, <1>2 DEF ClosedTo
<1>4. clean /\ ~failed'
  BY <1>3
<1>5. ctx.transparent = FALSE /\ written \in Seq(Byte) /\ CopyCall /\ written \in Ints
  BY <1>2, <1>4, CopyKnown, Records DEF FilterType
<1>6. passed \in Ints /\ bbOut \in Ints /\ u \in Ints /\ e \in Ints /\ F!Unmarked(items) = Join(u, e)
  <2>1. passed \in Ints /\ bbOut \in Ints
    BY DEF FilterType, Ints
  <2> QED
    BY <2>1, PutFacts, EndFacts
<1>7. Join(passed, u) = written
  <2>1. Join(passed, u) = Join(written, End(closed)) /\ closed = FALSE
    BY <1>2, <1>5 DEF CopyCall, FilterType
  <2> QED
    BY <1>5, <2>1, EndFacts, JoinFacts
<1> HIDE DEF items, u, e
<1>8. Join(passed, Join(u, e)) = Join(written, e)
  BY <1>6, <1>7, JoinFacts
<1>9. Join(passed', F!Unmarked(bbOut')) = Join(written', End(closed'))
  <2>1. CASE bbOut' = items /\ passed' = passed
    BY <1>2, <1>6, <1>8, <2>1 DEF e
  <2>2. CASE bbOut' = <<>> /\ PassedOn(items)
    <3>2. passed' = passed \o F!Unmarked(items)
      BY <1>4, <2>2 DEF PassedOn
    <3>3. passed' = Join(passed, Join(u, e))
      BY <1>6, <3>2 DEF Join
    <3>4. Join(written, e) \in Ints /\ Join(Join(written, e), <<>>) = Join(written, e)
      BY <1>5, <1>6, JoinFacts
    <3> QED
      BY <1>2, <1>8, <2>2, <3>3, <3>4, EndFacts DEF e
  <2> QED
    BY <1>3, <2>1, <2>2 DEF FlushedOut
<1>10. InHand' = InHand /\ Left' = Left /\ Marks(bbIn)'
  BY <1>2, <1>5, MarksStay DEF InHand, Left, DataOf, CopyCall
<1>11. CopyCall'
  BY <1>2, <1>5, <1>9, <1>10 DEF CopyCall
<1> QED
  BY <1>2, <1>5, <1>11

LEMMA CopyReturn == ASSUME FilterType, Giving, Copying, F!HandlerReturns PROVE Copying'
<1>1. ReturnedTo
  BY HandlerReturnsFacts
<1>2. /\ filterPc = "handler" /\ InCall /\ (conf.copy => closed \/ got = F!Got(<<>>))
      /\ conf' = conf /\ ctx' = ctx /\ given' = given /\ ended' = ended /\ written' = written
  BY <1>1 DEF ReturnedTo, InCall
<1> SUFFICES ASSUME conf.copy, clean', conf.keeps, ~FlushInside
             PROVE  ctx'.transparent = FALSE /\ written' \in Seq(Byte) /\ ~InCall' /\ CopyIdle'
  BY <1>2, CopySuffices
<1> DEFINE items == Append(bbOut, F!Flush)
           u == F!Unmarked(bbOut)
<1>3. clean /\ ~InCall'
  BY <1>1 DEF ReturnedTo, Gone, InCall
<1>4. ctx.transparent = FALSE /\ written \in Seq(Byte) /\ CopyCall /\ written \in Ints
  BY <1>2, <1>3, CopyKnown, Records DEF FilterType
<1>5. passed \in Ints /\ bbOut \in Ints /\ u \in Ints /\ F!Unmarked(items) = u
  <2>1. passed \in Ints /\ bbOut \in Ints
    BY DEF FilterType, Ints
  <2> QED
    BY <2>1, PutFacts, EndFacts
<1>6. bbOut \in Seq(Int) /\ items \in Seq(Int) /\ passed \in Seq(Int) /\ closed \in BOOLEAN /\ ended \in BOOLEAN
      /\ conf.input \in BOOLEAN
  BY DataMarked, Records DEF FilterType
<1>7. \/ closed /\ passed' = F!ToCaller(bbOut)
      \/ ~closed /\ conf.input /\ passed' = F!ToCaller(items)
      \/ ~closed /\ ~conf.input /\ PassedOn(items) /\ rc' # "fail"
  BY <1>1 DEF ReturnedTo
<1>8. passed' = Join(passed, u)
  <2>1. ASSUME NEW x \in Seq(Int), passed' = F!ToCaller(x), conf.input, F!Unmarked(x) = u PROVE passed' = Join(passed, u)
    BY <1>6, <2>1, ToCallerFacts DEF Join
  <2>2. CASE closed /\ passed' = F!ToCaller(bbOut)
    <3>1. CASE ~conf.input
      <4>1. bbOut = <<>> /\ passed' = passed
        BY <1>6, <2>2, <3>1, ToCallerFacts DEF Giving
      <4> QED
        BY <1>5, <4>1, EndFacts, JoinFacts
    <3> QED
      BY <1>6, <2>1, <2>2, <3>1
  <2>3. CASE ~closed /\ ~conf.input /\ PassedOn(items) /\ rc' # "fail"
    BY <1>5, <2>3 DEF PassedOn, Join
  <2> QED
    BY <1>5, <1>6, <1>7, <2>1, <2>2, <2>3
<1>9. Left = <<>> /\ (ended <=> closed) /\ got.data = <<>>
  <2>1. CASE closed
    BY <1>4, <2>1 DEF CopyCall
  <2>2. CASE ~closed
    <3> DEFINE d == <<>>
    <3>1. d \in Seq(Byte) /\ got = F!Got(d)
      BY <1>2, <2>2
    <3> HIDE DEF d
    <3>2. got.is = "data" /\ got.data = d
      BY <3>1, Records
    <3> QED
      BY <1>4, <2>2, <3>2 DEF d, CopyCall
  <2> QED
    BY <2>1, <2>2
<1>10. written = F!Bytes(1, given)
  <2>1. InHand = <<>>
    BY <1>2, <1>9 DEF InHand
  <2>2. Join(written, Join(<<>>, <<>>)) = F!Bytes(1, given)
    BY <1>4, <1>9, <2>1 DEF CopyCall
  <2> QED
    BY <1>4, <2>2, JoinFacts
<1>11. Join(passed, u) = Join(written, End(ended))
  <2>1. Join(passed, u) = Join(written, End(closed))
    BY <1>4 DEF CopyCall
  <2> QED
    BY <1>6, <1>9, <2>1
<1>12. CopyIdle'
  BY <1>2, <1>8, <1>10, <1>11 DEF CopyIdle
<1> QED
  BY <1>2, <1>3, <1>4, <1>12

LEMMA CopyingStep ==
    ASSUME F!FilterAssumption, FilterType, Reads, Failing, Giving, Copying, F!Next PROVE Copying'
<1>1. CASE F!RegisterFilter \/ F!AddFilter
  <2>1. conf' = conf /\ written' = written /\ passed' = passed /\ clean' = clean /\ given' = given /\ ended' = ended
    BY <1>1 DEF F!RegisterFilter, F!AddFilter, F!setup, F!source, F!object, F!history
  <2>2. ~InCall'
    BY <1>1 DEF F!RegisterFilter, F!AddFilter, InCall
  <2>3. ctx'.transparent = ctx.transparent
    <3>1. CASE F!RegisterFilter
      BY <3>1 DEF F!RegisterFilter
    <3>2. CASE F!AddFilter
      <4>1. ctx' = [ctx EXCEPT !.named = registered] /\ ctx \in CtxSet
        BY <3>2 DEF F!AddFilter, FilterType
      <4> QED
        BY <4>1, Records
    <3> QED
      BY <1>1, <3>1, <3>2
  <2>4. ~InCall
    BY <1>1 DEF F!RegisterFilter, F!AddFilter, InCall
  <2>5. ASSUME CopyIdle PROVE CopyIdle'
    BY <2>1, <2>5 DEF CopyIdle
  <2>6. ASSUME conf.copy /\ clean /\ conf.keeps /\ ~FlushInside PROVE CopyIdle /\ ctx.transparent = FALSE /\ written \in Seq(Byte)
    BY <2>4, <2>6, Records DEF Copying, FilterType
  <2>7. ASSUME (conf.copy /\ clean /\ conf.keeps /\ ~FlushInside)'
        PROVE  (~ctx.transparent /\ written \in Seq(Byte) /\ IF InCall THEN CopyCall ELSE CopyIdle)'
    <3>1. CopyIdle' /\ ctx'.transparent = FALSE /\ written' \in Seq(Byte)
      BY <2>1, <2>3, <2>5, <2>6, <2>7
    <3> QED
      BY <2>2, <3>1
  <2> QED
    BY <2>7 DEF Copying
<1>2. CASE F!OutputCall \/ F!InputCall
  BY <1>2, CopyCalled
<1>3. ASSUME NEW line \in BOOLEAN, NEW len \in FilterLens, F!Read(line, len) PROVE Copying'
  BY <1>3, CopyRead
<1>4. CASE F!ReadBucket
  BY <1>4, CopyBucket
<1>5. CASE F!ReadEnds
  BY <1>5, CopyEnds
<1>6. CASE F!Write
  BY <1>6, CopyWrite
<1>7. CASE F!FlushCall \/ F!PassOn \/ F!Disable
  <2>1. ~conf.copy /\ conf' = conf
    BY <1>7 DEF F!FlushCall, F!PassOn, F!Disable, F!Calls, F!setup
  <2> QED
    BY <2>1, CopySuffices
<1>8. CASE F!Close
  BY <1>8, CopyClose
<1>9. CASE F!HandlerReturns
  BY <1>9, CopyReturn
<1>10. CASE F!ServerReturn \/ F!HandlerRaises \/ F!ReadFails
  <2>1. clean' = FALSE /\ conf' = conf
    BY <1>10, RaisesFacts DEF F!ServerReturn, F!HandlerRaises, F!ReadFails, RaisedTo, F!setup
  <2> QED
    BY <2>1, CopySuffices
<1>11. CASE F!ReportError
  <2>1. clean' = clean /\ clean = FALSE /\ conf' = conf
    BY <1>11, ReportErrorFacts DEF Reported, Failing, FilterType
  <2> QED
    BY <2>1, CopySuffices
<1> QED
  BY <1>1, <1>2, <1>3, <1>4, <1>5, <1>6, <1>7, <1>8, <1>9, <1>10, <1>11 DEF F!Next

-----------------------------------------------------------------------------
(* Nothing twice.  A byte that the source gave is in one place at most: in  *)
(* bb_in, with the read under way, in what the last read returned, in       *)
(* bb_out or with the next filter.                                          *)

Count(v, x) == Len(Keep(x, {v}))
InRead(v)   == IF filterPc = "reading" THEN Count(v, rd.out) ELSE 0

OnceFor(v) ==
    Count(v, passed) + Count(v, bbOut) + Count(v, got.data) + InRead(v) + Count(v, DataOf(bbIn))
        <= Count(v, F!Bytes(1, given))

Once == \A v \in Nat \ {0} : OnceFor(v)

LEMMA CountType == ASSUME NEW x \in Seq(Int), NEW v PROVE Count(v, x) \in Nat
<1>1. Keep(x, {v}) \in Seq(Int)
  BY KeepType
<1> QED
  BY <1>1 DEF Count

LEMMA CountJoined ==
    ASSUME NEW x \in Seq(Int), NEW y \in Seq(Int), NEW v
    PROVE  Count(v, x \o y) = Count(v, x) + Count(v, y)
<1> DEFINE a == Keep(x, {v})
           b == Keep(y, {v})
           c == Keep(x \o y, {v})
<1>1. a \in Seq(Int) /\ b \in Seq(Int)
  BY KeepType
<1>2. c = a \o b
  BY KeepConcat
<1>3. Len(c) = Len(a) + Len(b)
  <2> HIDE DEF a, b, c
  <2> QED
    BY <1>1, <1>2
<1> QED
  BY <1>3 DEF Count

LEMMA CountOne ==
    ASSUME NEW v \in Int
    PROVE  Count(v, <<>>) = 0 /\ \A i \in Int : Count(v, <<i>>) = IF i = v THEN 1 ELSE 0
<1>1. Keep(<<>>, {v}) = <<>>
  BY KeepEmpty
<1>2. ASSUME NEW i \in Int PROVE Count(v, <<i>>) = IF i = v THEN 1 ELSE 0
  <2>1. <<i>> = Append(<<>>, i) /\ <<>> \in Seq(Int)
    OBVIOUS
  <2>2. Keep(Append(<<>>, i), {v}) = IF i \in {v} THEN Append(Keep(<<>>, {v}), i) ELSE Keep(<<>>, {v})
    BY <2>1, KeepAppend
  <2>3. Keep(<<i>>, {v}) = IF i = v THEN <<i>> ELSE <<>>
    BY <1>1, <2>1, <2>2
  <2> QED
    BY <2>3 DEF Count
<1> QED
  BY <1>1, <1>2 DEF Count

LEMMA CountAppend ==
    ASSUME NEW x \in Seq(Int), NEW i \in Int, NEW v \in Int
    PROVE  Count(v, Append(x, i)) = Count(v, x) + (IF i = v THEN 1 ELSE 0)
<1> DEFINE one == <<i>>
<1>1. Append(x, i) = x \o one /\ one \in Seq(Int)
  BY AppendIsConcat
<1>2. Count(v, one) = IF i = v THEN 1 ELSE 0
  BY CountOne
<1> HIDE DEF one
<1>3. Count(v, x \o one) = Count(v, x) + Count(v, one)
  BY <1>1, CountJoined
<1> QED
  BY <1>1, <1>2, <1>3

\* Neither the marks nor what a filter makes itself are bytes of the stream.
LEMMA CountData ==
    ASSUME NEW x \in Seq(Int), NEW v \in Nat \ {0}
    PROVE  Count(v, F!Data(x)) = Count(v, x) /\ Count(v, F!Unmarked(x)) = Count(v, x)
<1>1. Keep(Keep(x, DataSet), {v}) = Keep(x, DataSet \cap {v}) /\ Keep(Keep(x, MarkSet), {v}) = Keep(x, MarkSet \cap {v})
  BY KeepTwice
<1>2. DataSet \cap {v} = {v} /\ MarkSet \cap {v} = {v}
  BY DEF DataSet, MarkSet
<1> QED
  BY <1>1, <1>2, DataIs DEF Count

LEMMA CountBegun ==
    ASSUME NEW x \in Seq(Int), NEW part \in F!Begun(x), NEW v
    PROVE  part \in Seq(Int) /\ Count(v, part) <= Count(v, x)
<1>1. part \in Seq(Int)
  BY BegunFacts
<1>2. PICK rest \in Seq(Int) : x = part \o rest
  BY BegunFacts
<1>3. Count(v, x) = Count(v, part) + Count(v, rest)
  BY <1>1, <1>2, CountJoined
<1> QED
  BY <1>1, <1>3, CountType

LEMMA Grows ==
    ASSUME NEW s \in Seq(Int), NEW n \in 0..Len(s) - 1
    PROVE  SubSeq(s, 1, n + 1) = Append(SubSeq(s, 1, n), s[n + 1])
<1> DEFINE a == SubSeq(s, 1, n)
           b == SubSeq(s, 1, n + 1)
           e == s[n + 1]
<1>1. /\ a \in Seq(Int) /\ Len(a) = n /\ \A i \in 1..n : a[i] = s[i]
      /\ b \in Seq(Int) /\ Len(b) = n + 1 /\ \A i \in 1..n + 1 : b[i] = s[i]
  BY SubSeqProperties
<1>2. e \in Int /\ b[n + 1] = e /\ \A i \in 1..n : b[i] = a[i]
  BY <1>1
<1> HIDE DEF a, b, e
<1>3. Append(a, e) \in Seq(Int) /\ Len(Append(a, e)) = n + 1 /\ Append(a, e)[n + 1] = e
      /\ \A i \in 1..n : Append(a, e)[i] = a[i]
  BY <1>1, <1>2
<1>4. \A i \in 1..n + 1 : Append(a, e)[i] = b[i]
  BY <1>2, <1>3
<1>5. b = Append(a, e)
  BY <1>1, <1>3, <1>4, SeqEqual
<1> QED
  BY <1>5 DEF a, b, e

\* A sequence that only lacks elements of another one, place by place, has no more of any.
LEMMA CountShown ==
    ASSUME NEW d \in Seq(Int), NEW x \in F!Shown(d), NEW v \in Nat \ {0}
    PROVE  x \in Seq(Int) /\ Count(v, x) <= Count(v, d)
<1>1. x \in Seq(Int)
  BY ShownType
<1>2. CASE conf.keeps
  BY <1>1, <1>2, ShownType, CountType
<1>3. CASE ~conf.keeps
  <2>1. PICK over \in SUBSET DOMAIN d : x = [i \in DOMAIN d |-> IF i \in over THEN F!Garbage ELSE d[i]]
    BY <1>3 DEF F!Shown
  <2>2. Len(d) \in Nat /\ Len(x) = Len(d) /\ \A i \in 1..Len(d) : d[i] \in Int /\ x[i] \in Int /\ x[i] \in {-5, d[i]}
    <3>1. Len(d) \in Nat /\ DOMAIN d = 1..Len(d) /\ \A i \in 1..Len(d) : d[i] \in Int
      OBVIOUS
    <3>2. DOMAIN x = 1..Len(d)
      BY <2>1, <3>1
    <3>3. Len(x) = Len(d)
      BY <1>1, <3>1, <3>2
    <3> QED
      BY <2>1, <3>1, <3>3, MarksAre
  <2> DEFINE X(n) == SubSeq(x, 1, n)
             D(n) == SubSeq(d, 1, n)
             L == Len(d)
             T == {n \in 0..L : X(n) \in Seq(Int) /\ D(n) \in Seq(Int) /\ Count(v, X(n)) <= Count(v, D(n))}
  <2>3. 0 \in T
    <3>1. X(0) = <<>> /\ D(0) = <<>> /\ <<>> \in Seq(Int)
      BY <1>1
    <3>2. Count(v, <<>>) = 0
      BY CountOne
    <3> HIDE DEF X, D
    <3>3. X(0) \in Seq(Int) /\ D(0) \in Seq(Int) /\ Count(v, X(0)) <= Count(v, D(0))
      <4>1. Count(v, X(0)) = 0 /\ Count(v, D(0)) = 0
        BY <3>1, <3>2
      <4>2. Count(v, X(0)) <= Count(v, D(0))
        BY <4>1
      <4> QED
        BY <3>1, <4>2, Zenon
    <3>4. 0 \in 0..L
      BY <2>2
    <3> QED
      BY <3>3, <3>4
  <2>4. ASSUME NEW n \in 0..Len(d) - 1, n \in T PROVE n + 1 \in T
    <3>1. X(n + 1) = Append(X(n), x[n + 1]) /\ D(n + 1) = Append(D(n), d[n + 1])
      BY <1>1, <2>2, Grows
    <3>2. X(n) \in Seq(Int) /\ D(n) \in Seq(Int) /\ Count(v, X(n)) <= Count(v, D(n))
      BY <2>4
    <3>3. n + 1 \in 1..Len(d) /\ n + 1 \in 0..Len(d) /\ x[n + 1] \in Int /\ d[n + 1] \in Int /\ x[n + 1] \in {-5, d[n + 1]}
      BY <2>2
    <3> DEFINE p == x[n + 1]
               q == d[n + 1]
    <3>4. p \in Int /\ q \in Int /\ p \in {-5, q}
      BY <3>3
    <3> HIDE DEF X, D, p, q
    <3>5. Count(v, Append(X(n), p)) = Count(v, X(n)) + (IF p = v THEN 1 ELSE 0)
          /\ Count(v, Append(D(n), q)) = Count(v, D(n)) + (IF q = v THEN 1 ELSE 0)
      BY <3>2, <3>4, CountAppend
    <3>6. Count(v, X(n)) \in Nat /\ Count(v, D(n)) \in Nat
      BY <3>2, CountType
    <3>7. Count(v, Append(X(n), p)) <= Count(v, Append(D(n), q))
      BY <3>2, <3>4, <3>5, <3>6
    <3>8. Append(X(n), p) \in Seq(Int) /\ Append(D(n), q) \in Seq(Int)
      BY <3>2, <3>4
    <3> QED
      BY <3>1, <3>3, <3>7, <3>8 DEF p, q
  <2>5. L \in T
    <3>1. L \in Nat
      BY <2>2
    <3> HIDE DEF T
    <3>2. \A n \in 0..L - 1 : n \in T => n + 1 \in T
      BY <2>4
    <3> HIDE DEF L
    <3>3. \A n \in 0..L : n \in T
      BY <2>3, <3>1, <3>2, InductionUpTo
    <3> QED
      BY <3>1, <3>3
  <2>6. X(Len(d)) = x /\ D(Len(d)) = d
    BY <1>1, <2>2
  <2>7. Count(v, X(L)) <= Count(v, D(L))
    BY <2>5
  <2> QED
    BY <1>1, <2>6, <2>7
<1> QED
  BY <1>2, <1>3

\* The source gives every byte once.
LEMMA CountBytes == ASSUME NEW v \in Nat \ {0}, NEW N \in Nat PROVE Count(v, F!Bytes(1, N)) \in 0..1
<1> DEFINE B(n) == F!Bytes(1, n)
           T == {n \in 0..N : B(n) \in Seq(Int) /\ Count(v, B(n)) = IF v <= n THEN 1 ELSE 0}
<1>1. 0 \in T
  <2>1. B(0) = <<>>
    BY DEF F!Bytes
  <2>2. Count(v, B(0)) = 0 /\ <<>> \in Seq(Int)
    BY <2>1, CountOne
  <2> HIDE DEF B
  <2>3. B(0) \in Seq(Int)
    BY <2>1, <2>2
  <2>4. Count(v, B(0)) = IF v <= 0 THEN 1 ELSE 0
    BY <2>2
  <2> QED
    BY <2>3, <2>4
<1>2. ASSUME NEW n \in 0..N - 1, n \in T PROVE n + 1 \in T
  <2>1. B(n) \in Seq(Int) /\ B(n + 1) = Append(B(n), n + 1) /\ B(n + 1) \in Seq(Int)
    BY DEF F!Bytes
  <2> HIDE DEF B
  <2>2. Count(v, B(n + 1)) = Count(v, B(n)) + (IF n + 1 = v THEN 1 ELSE 0)
    <3> DEFINE b == B(n)
               m == n + 1
    <3>1. b \in Seq(Int) /\ m \in Int /\ B(n + 1) = Append(b, m)
      BY <2>1
    <3> HIDE DEF b, m
    <3>2. Count(v, Append(b, m)) = Count(v, b) + (IF m = v THEN 1 ELSE 0)
      BY <3>1, CountAppend
    <3> QED
      BY <3>1, <3>2 DEF b, m
  <2> QED
    BY <1>2, <2>1, <2>2
<1>3. N \in T
  <2> HIDE DEF T
  <2> QED
    BY <1>1, <1>2, InductionUpTo
<1> QED
  BY <1>3

\* What is in two places of a sequence, there are two of.
LEMMA CountPlaces ==
    ASSUME NEW x \in Seq(Int), NEW i \in 1..Len(x), NEW j \in 1..Len(x), i < j, x[i] = x[j]
    PROVE  Count(x[i], x) >= 2
<1> DEFINE a == SubSeq(x, 1, i)
           b == SubSeq(x, i + 1, Len(x))
           v == x[i]
<1>1. /\ a \in Seq(Int) /\ b \in Seq(Int) /\ x = a \o b /\ Len(a) = i /\ Len(b) = Len(x) - i
      /\ \A k \in 1..Len(a) : a[k] = x[k]
      /\ \A k \in 1..Len(b) : b[k] = x[i + k]
  <2>1. ASSUME NEW k \in 1..Len(x) - i PROVE b[k] = x[i + k]
    <3>1. i + 1 \in Nat /\ Len(x) \in Nat /\ k \in 1..Len(x) - (i + 1) + 1 /\ (i + 1) + k - 1 = i + k
      OBVIOUS
    <3>2. b[k] = x[(i + 1) + k - 1]
      BY <3>1
    <3> QED
      BY <3>1, <3>2
  <2>2. i \in 0..Len(x)
    OBVIOUS
  <2>3. /\ a \in Seq(Int) /\ Len(a) = i /\ b \in Seq(Int) /\ Len(b) = Len(x) - i
        /\ (\A k \in 1..i : a[k] = x[k]) /\ a \o b = x
    BY <2>2, Cut
  <2> HIDE DEF a, b
  <2> QED
    BY <2>1, <2>3
<1>2. i \in 1..Len(a) /\ a[i] = v /\ j - i \in 1..Len(b) /\ b[j - i] = v /\ v \in Int
  BY <1>1
<1> HIDE DEF a, b, v
<1>3. ASSUME NEW c \in Seq(Int), NEW k \in 1..Len(c), c[k] = v PROVE Count(v, c) >= 1
  <2> DEFINE V == {v}
  <2>0. c[k] \in V
    BY <1>3
  <2> HIDE DEF V
  <2>1. \E m \in 1..Len(Keep(c, V)) : Keep(c, V)[m] = c[k]
    BY <2>0, KeepsEach
  <2> USE DEF V
  <2>2. Keep(c, {v}) \in Seq(Int)
    BY KeepType
  <2> QED
    BY <2>1, <2>2 DEF Count
<1>4. Count(v, a) >= 1 /\ Count(v, b) >= 1
  BY <1>1, <1>2, <1>3
<1>5. Count(v, x) = Count(v, a) + Count(v, b)
  BY <1>1, CountJoined
<1> QED
  BY <1>1, <1>4, <1>5, CountType DEF v

-----------------------------------------------------------------------------
(* A byte goes from place to place, or gets lost.                          *)

LEMMA BytesAreInts == Seq(Byte) \subseteq Seq(Int)
<1>1. Byte \subseteq Int
  BY DEF Byte
<1> QED
  BY <1>1, SeqMonotonic

LEMMA OnceTypes ==
    ASSUME FilterType, NEW v
    PROVE  /\ Count(v, passed) \in Nat /\ Count(v, bbOut) \in Nat /\ Count(v, got.data) \in Nat
           /\ InRead(v) \in Nat /\ Count(v, DataOf(bbIn)) \in Nat
<1>1. got.data \in Seq(Int) /\ rd.out \in Seq(Int) /\ DataOf(bbIn) \in Seq(Int)
  <2>1. got.data \in Seq(Byte) /\ rd.out \in Seq(Byte) /\ bbIn \in Seq(Item)
    BY Records DEF FilterType
  <2> QED
    BY <2>1, BytesAreInts, FlattenItems
<1> QED
  BY <1>1, CountType DEF InRead, FilterType

\* What the source gives is new.
LEMMA OnceGiven ==
    ASSUME F!FilterAssumption, FilterType, NEW b, F!Gives(b), NEW v
    PROVE  /\ b \in Seq(Item) /\ DataOf(b) \in Seq(Int)
           /\ Count(v, F!Bytes(1, given')) = Count(v, F!Bytes(1, given)) + Count(v, DataOf(b))
           /\ Count(v, DataOf(b)) \in Nat /\ Count(v, F!Bytes(1, given)) \in Nat
<1>1. FilterBytes \in Nat /\ given \in 0..FilterBytes /\ ended \in BOOLEAN
  BY DEF F!FilterAssumption, FilterType
<1>2. /\ b \in Seq(Item) /\ DataOf(b) \in Seq(Byte) /\ F!Bytes(1, given) \in Seq(Byte)
      /\ F!Bytes(1, given') = F!Bytes(1, given) \o DataOf(b)
  BY <1>1, GivesFacts
<1>3. DataOf(b) \in Seq(Int) /\ F!Bytes(1, given) \in Seq(Int)
  BY <1>2, BytesAreInts
<1> QED
  BY <1>2, <1>3, CountJoined, CountType

\* A brigade that is passed, whole or up to a failure.
LEMMA CountOfItems ==
    ASSUME NEW b \in Seq(Item), NEW v \in Nat \ {0}
    PROVE  /\ FlattenSeq(b) \in Seq(Int) /\ Count(v, FlattenSeq(b)) = Count(v, DataOf(b))
           /\ Count(v, F!Unmarked(FlattenSeq(b))) = Count(v, DataOf(b))
BY FlattenItems, CountData DEF DataOf

LEMMA OncePassed ==
    ASSUME passed \in Seq(Int), NEW items \in Seq(Int), NEW v \in Nat \ {0},
           passed' = passed \o F!Unmarked(items) \/ PassedPart(items)
    PROVE  Count(v, passed') <= Count(v, passed) + Count(v, items) /\ Count(v, passed') \in Nat
<1> DEFINE u == F!Unmarked(items)
<1>1. u \in Seq(Int) /\ Count(v, u) = Count(v, items)
  BY DataType, CountData
<1>2. PICK part \in Seq(Int) : passed' = passed \o part /\ Count(v, part) <= Count(v, u)
  <2>1. CASE passed' = passed \o u
    <3>1. Count(v, u) \in Nat
      BY <1>1, CountType
    <3>2. Count(v, u) <= Count(v, u)
      BY <3>1
    <3> HIDE DEF u
    <3> QED
      BY <1>1, <2>1, <3>2, Zenon
  <2>2. CASE PassedPart(items)
    <3>1. PICK part \in F!Begun(u) : passed' = passed \o part
      BY <2>2 DEF PassedPart
    <3> QED
      BY <1>1, <3>1, CountBegun
  <2> QED
    BY <2>1, <2>2
<1>3. Count(v, passed') = Count(v, passed) + Count(v, part)
  BY <1>2, CountJoined
<1>4. Count(v, passed) \in Nat /\ Count(v, part) \in Nat /\ Count(v, items) \in Nat
  BY CountType
<1> HIDE DEF u
<1> QED
  BY <1>1, <1>2, <1>3, <1>4

LEMMA OnceToCaller ==
    ASSUME passed \in Seq(Int), NEW items \in Seq(Int), NEW v \in Nat \ {0}, passed' = F!ToCaller(items)
    PROVE  Count(v, passed') <= Count(v, passed) + Count(v, items) /\ Count(v, passed') \in Nat
<1>1. passed' = IF conf.input THEN passed \o F!Unmarked(items) ELSE passed
  BY ToCallerFacts
<1>2. Count(v, passed) \in Nat /\ Count(v, items) \in Nat
  BY CountType
<1>3. CASE conf.input
  BY <1>1, <1>3, OncePassed
<1>4. CASE ~conf.input
  BY <1>1, <1>2, <1>4
<1> QED
  BY <1>3, <1>4

\* A mark is not counted.
LEMMA CountMarked ==
    ASSUME NEW x \in Seq(Int), NEW v \in Nat \ {0}
    PROVE  /\ Append(x, F!Eos) \in Seq(Int) /\ Append(x, F!Flush) \in Seq(Int)
           /\ Count(v, Append(x, F!Eos)) = Count(v, x) /\ Count(v, Append(x, F!Flush)) = Count(v, x)
           /\ x \o F!Report \in Seq(Int) /\ Count(v, x \o F!Report) = Count(v, x)
<1>1. F!Eos \in Int /\ F!Flush \in Int /\ F!Text \in Int /\ F!Eos # v /\ F!Flush # v /\ F!Text # v
  BY MarksAre
<1>2. /\ Count(v, Append(x, F!Eos)) = Count(v, x) /\ Count(v, Append(x, F!Flush)) = Count(v, x)
      /\ Append(x, F!Eos) \in Seq(Int) /\ Append(x, F!Flush) \in Seq(Int)
  BY <1>1, CountAppend, CountType
<1>3. x \o F!Report \in Seq(Int) /\ Count(v, x \o F!Report) = Count(v, x)
  <2>1. F!Report \in Seq(Int) /\ Count(v, F!Report) = 0
    <3>1. CASE F!Report = <<>>
      BY <3>1, CountOne
    <3>2. CASE F!Report = <<F!Text, F!Flush>>
      <4>1. <<F!Text, F!Flush>> = Append(<<F!Text>>, F!Flush) /\ <<F!Text>> \in Seq(Int)
        BY <1>1
      <4>2. Count(v, <<F!Text>>) = 0
        BY <1>1, CountOne
      <4> DEFINE t == <<F!Text>>
      <4>3. t \in Seq(Int) /\ Count(v, t) = 0 /\ F!Report = Append(t, F!Flush)
        BY <3>2, <4>1, <4>2
      <4> HIDE DEF t
      <4>4. Count(v, Append(t, F!Flush)) = 0 /\ Append(t, F!Flush) \in Seq(Int)
        BY <1>1, <4>3, CountAppend
      <4> QED
        BY <4>3, <4>4
    <3> QED
      BY <3>1, <3>2 DEF F!Report
  <2>2. x \o F!Report \in Seq(Int)
    BY <2>1, ConcatProperties
  <2>3. Count(v, x \o F!Report) = Count(v, x) + Count(v, F!Report)
    BY <2>1, CountJoined
  <2> QED
    BY <2>1, <2>2, <2>3, CountType
<1> QED
  BY <1>2, <1>3

\* Where nothing that is counted changes.
LEMMA OnceStays ==
    ASSUME FilterType, NEW v \in Nat \ {0}, OnceFor(v), filterPc' = "reading" => filterPc = "reading",
           passed' = passed, bbOut' = bbOut, got' = got, rd' = rd, bbIn' = bbIn, given' = given
    PROVE  OnceFor(v)'
<1>1. InRead(v)' <= InRead(v) /\ InRead(v) \in Nat /\ InRead(v)' \in Nat
  <2>1. InRead(v) \in Nat
    BY OnceTypes
  <2> QED
    BY <2>1 DEF InRead
<1>2. DataOf(bbIn)' = DataOf(bbIn) /\ F!Bytes(1, given)' = F!Bytes(1, given)
  BY DEF DataOf, F!Bytes
<1> DEFINE p == Count(v, passed)
           o == Count(v, bbOut)
           g == Count(v, got.data)
           i == Count(v, DataOf(bbIn))
           n == Count(v, F!Bytes(1, given))
<1>3. p \in Nat /\ o \in Nat /\ g \in Nat /\ i \in Nat
  BY OnceTypes
<1>4. Count(v, passed)' = p /\ Count(v, bbOut)' = o /\ Count(v, got.data)' = g
      /\ Count(v, DataOf(bbIn))' = i /\ Count(v, F!Bytes(1, given))' = n
  BY <1>2
<1>5. n \in Nat
  <2>1. F!Bytes(1, given) \in Seq(Int)
    BY DEF F!Bytes, FilterType
  <2> QED
    BY <2>1, CountType
<1>6. p + o + g + InRead(v) + i <= n
  BY DEF OnceFor
<1> HIDE DEF p, o, g, i, n
<1>7. p + o + g + InRead(v)' + i <= n
  BY <1>1, <1>3, <1>5, <1>6
<1> QED
  BY <1>4, <1>7 DEF OnceFor

\* The same sum with every part named: enough for any step.
LEMMA OnceSum ==
    ASSUME NEW v, NEW p \in Nat, NEW o \in Nat, NEW g \in Nat, NEW r \in Nat, NEW i \in Nat, NEW n \in Nat,
           Count(v, passed') <= p, Count(v, bbOut') <= o, Count(v, got'.data) <= g,
           IF filterPc' = "reading" THEN Count(v, rd'.out) <= r ELSE TRUE,
           Count(v, DataOf(bbIn')) <= i, Count(v, F!Bytes(1, given')) = n, p + o + g + r + i <= n,
           FilterType'
    PROVE  OnceFor(v)'
<1>1. /\ Count(v, passed') \in Nat /\ Count(v, bbOut') \in Nat /\ Count(v, got'.data) \in Nat
      /\ Count(v, rd'.out) \in Nat /\ Count(v, DataOf(bbIn')) \in Nat
  <2>1. got'.data \in Seq(Int) /\ rd'.out \in Seq(Int) /\ DataOf(bbIn') \in Seq(Int)
    <3>1. got'.data \in Seq(Byte) /\ rd'.out \in Seq(Byte) /\ bbIn' \in Seq(Item)
      BY Records DEF FilterType
    <3> QED
      BY <3>1, BytesAreInts, FlattenItems
  <2> QED
    BY <2>1, CountType DEF FilterType
<1>2. InRead(v)' \in Nat /\ InRead(v)' <= r
  BY <1>1 DEF InRead
<1>3. DataOf(bbIn)' = DataOf(bbIn') /\ F!Bytes(1, given)' = F!Bytes(1, given')
  BY DEF DataOf, F!Bytes
<1> DEFINE P == Count(v, passed')
           O == Count(v, bbOut')
           G == Count(v, got'.data)
           I == Count(v, DataOf(bbIn'))
           R == InRead(v)'
           N == Count(v, F!Bytes(1, given'))
<1>4. P \in Nat /\ O \in Nat /\ G \in Nat /\ I \in Nat /\ R \in Nat
      /\ P <= p /\ O <= o /\ G <= g /\ I <= i /\ R <= r /\ N = n
  BY <1>1, <1>2
<1>5. OnceFor(v)' <=> P + O + G + R + I <= N
  BY <1>3 DEF OnceFor
<1> HIDE DEF P, O, G, I, R, N
<1> QED
  BY <1>4, <1>5

LEMMA OnceKnown ==
    ASSUME F!FilterAssumption, FilterType, NEW v \in Nat \ {0}, OnceFor(v)
    PROVE  /\ Count(v, passed) \in Nat /\ Count(v, bbOut) \in Nat /\ Count(v, got.data) \in Nat
           /\ InRead(v) \in Nat /\ Count(v, DataOf(bbIn)) \in Nat /\ Count(v, F!Bytes(1, given)) \in Nat
           /\ Count(v, passed) + Count(v, bbOut) + Count(v, got.data) + InRead(v) + Count(v, DataOf(bbIn))
                  <= Count(v, F!Bytes(1, given))
           /\ passed \in Seq(Int) /\ bbOut \in Seq(Int) /\ bbIn \in Seq(Item) /\ v \in Int
<1>1. F!Bytes(1, given) \in Seq(Int)
  BY DEF F!Bytes, FilterType
<1> QED
  BY <1>1, OnceTypes, CountType DEF OnceFor, FilterType

\* Nothing is counted in what a new or finished call has.
LEMMA CountNothing ==
    ASSUME NEW v \in Nat \ {0}
    PROVE  /\ Count(v, <<>>) = 0 /\ Count(v, DataOf(<<>>)) = 0
           /\ Count(v, F!Unread.data) = 0 /\ Count(v, F!Eof.data) = 0 /\ Count(v, F!Got(<<>>).data) = 0
           /\ Count(v, <<F!Own>>) = 0
<1>1. v \in Int /\ F!Own \in Int /\ F!Own # v
  BY MarksAre
<1>2. <<>> \in Seq(Byte)
  OBVIOUS
<1>3. F!Unread.data = <<>> /\ F!Eof.data = <<>> /\ F!Got(<<>>).data = <<>>
  BY <1>2, Records
<1> QED
  BY <1>1, <1>3, CountOne, DataOfMarks

\* A call of python_filter().
LEMMA OnceThrough ==
    ASSUME F!FilterAssumption, FilterType, FilterType', NEW v \in Nat \ {0}, OnceFor(v), filterPc = "idle",
           Still, NEW b, F!Gives(b), ThroughTo(b)
    PROVE  OnceFor(v)'
<1> DEFINE p == Count(v, passed)
           c == Count(v, DataOf(b))
           o == Count(v, bbOut)
           g == Count(v, got.data)
           i == Count(v, DataOf(bbIn))
           n == Count(v, F!Bytes(1, given))
           m == Count(v, F!Bytes(1, given'))
           P == Count(v, passed')
<1>1. b \in Seq(Item) /\ m = n + c /\ c \in Nat /\ n \in Nat
  BY OnceGiven
<1>2. FlattenSeq(b) \in Seq(Int) /\ Count(v, FlattenSeq(b)) = c
  BY <1>1, CountOfItems
<1>3. P <= p + c
  <2>1. passed' = passed \o F!Unmarked(FlattenSeq(b)) \/ PassedPart(FlattenSeq(b))
    BY DEF ThroughTo
  <2>2. passed \in Seq(Int)
    BY OnceKnown
  <2>3. P <= p + Count(v, FlattenSeq(b))
    BY <1>2, <2>1, <2>2, OncePassed
  <2> QED
    BY <1>2, <2>3
<1>4. p \in Nat /\ o \in Nat /\ g \in Nat /\ i \in Nat /\ InRead(v) \in Nat /\ p + o + g + InRead(v) + i <= n
  BY OnceKnown
<1>5. filterPc' # "reading" /\ Count(v, bbOut') = o /\ Count(v, got'.data) = g /\ Count(v, DataOf(bbIn')) = i
  BY DEF Still
<1> HIDE DEF p, c, o, g, i, n, m, P
<1>6. p + c \in Nat /\ m \in Nat /\ p + c + o + g + 0 + i <= m /\ o <= o /\ g <= g /\ i <= i
  BY <1>1, <1>4
<1>7. Count(v, passed') <= p + c /\ Count(v, bbOut') <= o /\ Count(v, got'.data) <= g
      /\ Count(v, DataOf(bbIn')) <= i /\ Count(v, F!Bytes(1, given')) = m
  BY <1>3, <1>4, <1>5 DEF P, m
<1> QED
  BY <1>4, <1>5, <1>6, <1>7, OnceSum

LEMMA OnceBegun ==
    ASSUME F!FilterAssumption, FilterType, FilterType', NEW v \in Nat \ {0}, OnceFor(v), NEW b \in Seq(Item),
           F!Gives(b) \/ (b = <<>> /\ given' = given), Begun(b)
    PROVE  OnceFor(v)'
<1> DEFINE p == Count(v, passed)
           c == Count(v, DataOf(b))
           n == Count(v, F!Bytes(1, given))
           m == Count(v, F!Bytes(1, given'))
<1>1. n \in Nat /\ p \in Nat /\ c \in Nat /\ p <= n
  <2>1. n \in Nat /\ p \in Nat /\ p <= n
    BY OnceKnown
  <2> QED
    BY <2>1, FlattenItems, CountType
<1>2. m = n + c
  <2>1. CASE F!Gives(b)
    BY <2>1, OnceGiven
  <2>2. CASE b = <<>> /\ given' = given
    <3>1. c = 0
      BY <2>2, CountNothing
    <3> QED
      BY <1>1, <2>2, <3>1
  <2> QED
    BY <2>1, <2>2
<1>3. Count(v, passed') = p /\ Count(v, bbOut') = 0 /\ Count(v, got'.data) = 0 /\ Count(v, DataOf(bbIn')) = c
      /\ filterPc' # "reading"
  BY CountNothing DEF Begun
<1> HIDE DEF p, c, n
<1>4. m \in Nat /\ p + 0 + 0 + 0 + c <= m /\ 0 \in Nat
  BY <1>1, <1>2
<1> HIDE DEF m
<1>5. Count(v, passed') <= p /\ Count(v, bbOut') <= 0 /\ Count(v, got'.data) <= 0 /\ Count(v, DataOf(bbIn')) <= c
  BY <1>1, <1>3
<1>6. Count(v, F!Bytes(1, given')) = m
  BY DEF m
<1> QED
  BY <1>1, <1>3, <1>4, <1>5, <1>6, OnceSum

LEMMA OnceMissed ==
    ASSUME F!FilterAssumption, FilterType, FilterType', NEW v \in Nat \ {0}, OnceFor(v), filterPc = "idle",
           (\E b : F!Gives(b)) \/ given' = given, Missed
    PROVE  OnceFor(v)'
<1> DEFINE p == Count(v, passed)
           o == Count(v, bbOut)
           g == Count(v, got.data)
           i == Count(v, DataOf(bbIn))
           n == Count(v, F!Bytes(1, given))
           m == Count(v, F!Bytes(1, given'))
<1>1. n \in Nat /\ m \in Nat /\ n <= m
  <2>1. n \in Nat
    BY OnceKnown
  <2>2. CASE given' = given
    BY <2>1, <2>2
  <2>3. CASE \E b : F!Gives(b)
    <3>1. PICK b : F!Gives(b)
      BY <2>3
    <3>2. m = n + Count(v, DataOf(b)) /\ Count(v, DataOf(b)) \in Nat
      BY <3>1, OnceGiven
    <3> QED
      BY <2>1, <3>2
  <2> QED
    BY <2>2, <2>3
<1>2. p \in Nat /\ o \in Nat /\ g \in Nat /\ i \in Nat /\ InRead(v) \in Nat /\ p + o + g + InRead(v) + i <= n
  BY OnceKnown
<1>3. filterPc' # "reading" /\ Count(v, passed') = p /\ Count(v, bbOut') = o /\ Count(v, got'.data) = g
      /\ Count(v, DataOf(bbIn')) = i
  BY DEF Missed
<1> HIDE DEF p, o, g, i, n, m
<1>4. p + o + g + 0 + i <= m /\ 0 \in Nat
  BY <1>1, <1>2
<1>5. Count(v, passed') <= p /\ Count(v, bbOut') <= o /\ Count(v, got'.data) <= g /\ Count(v, DataOf(bbIn')) <= i
  BY <1>2, <1>3
<1>6. Count(v, F!Bytes(1, given')) = m
  BY DEF m
<1> QED
  BY <1>1, <1>2, <1>3, <1>4, <1>5, <1>6, OnceSum

LEMMA OnceCalled ==
    ASSUME F!FilterAssumption, FilterType, FilterType', NEW v \in Nat \ {0}, OnceFor(v), F!OutputCall \/ F!InputCall
    PROVE  OnceFor(v)'
<1>1. Called /\ filterPc = "idle"
  BY CallFacts DEF Called
<1>2. ASSUME NEW b \in Seq(Item), F!Gives(b), CallTo(b) PROVE OnceFor(v)'
  BY <1>1, <1>2, OnceThrough, OnceBegun, OnceMissed DEF CallTo
<1>3. ASSUME NEW b \in Seq(Item), F!Gives(b), Still, ThroughTo(b) PROVE OnceFor(v)'
  BY <1>1, <1>3, OnceThrough
<1>4. ASSUME given' = given, Missed PROVE OnceFor(v)'
  BY <1>1, <1>4, OnceMissed
<1>5. ASSUME given' = given, Begun(<<>>) PROVE OnceFor(v)'
  <2>1. <<>> \in Seq(Item)
    OBVIOUS
  <2> DEFINE e == <<>>
  <2>2. e \in Seq(Item) /\ e = <<>> /\ Begun(e)
    BY <1>5, <2>1
  <2> HIDE DEF e
  <2> QED
    BY <1>5, <2>2, OnceBegun
<1> QED
  BY <1>1, <1>2, <1>3, <1>4, <1>5 DEF Called

\* read() and readline() up to the loop: what is asked of the source is behind what is there.
LEMMA OnceStarts ==
    ASSUME F!FilterAssumption, FilterType, FilterType', NEW v \in Nat \ {0}, OnceFor(v), filterPc = "handler",
           NEW line, NEW len, NEW b \in Seq(Item), Starts(line, len, b),
           NEW m \in Nat, Count(v, F!Bytes(1, given')) = m,
           Count(v, passed) + Count(v, bbOut) + Count(v, got.data) + Count(v, DataOf(b)) <= m,
           passed' = passed, bbOut' = bbOut
    PROVE  OnceFor(v)'
<1> DEFINE p == Count(v, passed)
           o == Count(v, bbOut)
           g == Count(v, got.data)
           i == Count(v, DataOf(b))
<1>1. p \in Nat /\ o \in Nat /\ g \in Nat /\ i \in Nat /\ p + o + g + i <= m
  BY OnceKnown, FlattenItems, CountType
<1>2. Count(v, passed') = p /\ Count(v, bbOut') = o
  OBVIOUS
<1>3. CASE b = <<>> /\ got' = F!Got(<<>>) /\ bbIn' = <<>> /\ filterPc' = filterPc /\ rd' = rd
  <2>1. Count(v, got'.data) = 0 /\ Count(v, DataOf(bbIn')) = 0 /\ filterPc' # "reading"
    BY <1>3, CountNothing
  <2> HIDE DEF p, o, g, i
  <2>2. p + o + 0 + 0 + 0 <= m /\ 0 \in Nat /\ Count(v, passed') <= p /\ Count(v, bbOut') <= o
        /\ Count(v, got'.data) <= 0 /\ Count(v, DataOf(bbIn')) <= 0
    BY <1>1, <1>2, <2>1
  <2> QED
    BY <1>1, <2>1, <2>2, OnceSum
<1>4. CASE b # <<>> /\ b[1] = <<F!Eos>> /\ got' = F!Eof /\ bbIn' = Tail(b) /\ filterPc' = filterPc /\ rd' = rd
  <2>1. Count(v, DataOf(bbIn')) <= i
    <3> DEFINE h == <<b[1]>>
               t == Tail(b)
    <3>1. b = h \o t /\ h \in Seq(Item) /\ t \in Seq(Item)
      BY <1>4
    <3> HIDE DEF h, t
    <3>2. DataOf(h \o t) = DataOf(h) \o DataOf(t) /\ DataOf(h) \in Seq(Int) /\ DataOf(t) \in Seq(Int)
      BY <3>1, DataOfJoined, FlattenItems
    <3>3. i = Count(v, DataOf(h)) + Count(v, DataOf(t))
      BY <3>1, <3>2, CountJoined
    <3>4. Count(v, DataOf(h)) \in Nat /\ Count(v, DataOf(t)) \in Nat
      BY <3>2, CountType
    <3> QED
      BY <1>4, <3>3, <3>4 DEF t
  <2>2. Count(v, got'.data) = 0 /\ filterPc' # "reading"
    BY <1>4, CountNothing
  <2> HIDE DEF p, o, g, i
  <2>3. p + o + 0 + 0 + i <= m /\ 0 \in Nat /\ Count(v, passed') <= p /\ Count(v, bbOut') <= o
        /\ Count(v, got'.data) <= 0
    BY <1>1, <1>2, <2>2
  <2> QED
    BY <1>1, <2>1, <2>2, <2>3, OnceSum
<1>5. CASE bbIn' = b /\ filterPc' = "reading" /\ got' = got /\ rd'.out = <<>>
  <2>1. Count(v, DataOf(bbIn')) = i /\ Count(v, got'.data) = g /\ Count(v, rd'.out) = 0
    BY <1>5, CountNothing
  <2> HIDE DEF p, o, g, i
  <2>3. p + o + g + 0 + i <= m /\ 0 \in Nat /\ Count(v, passed') <= p /\ Count(v, bbOut') <= o
        /\ Count(v, got'.data) <= g /\ Count(v, DataOf(bbIn')) <= i /\ Count(v, rd'.out) <= 0
    BY <1>1, <1>2, <2>1
  <2> QED
    BY <1>1, <2>3, OnceSum
<1> QED
  BY <1>3, <1>4, <1>5 DEF Starts

LEMMA OnceRead ==
    ASSUME F!FilterAssumption, FilterType, FilterType', NEW v \in Nat \ {0}, OnceFor(v),
           NEW line \in BOOLEAN, NEW len \in FilterLens, F!Read(line, len)
    PROVE  OnceFor(v)'
<1> DEFINE p == Count(v, passed)
           o == Count(v, bbOut)
           g == Count(v, got.data)
           i == Count(v, DataOf(bbIn))
           n == Count(v, F!Bytes(1, given))
<1>1. Asked(line, len)
  BY ReadFacts
<1>2. filterPc = "handler" /\ passed' = passed /\ bbOut' = bbOut
  BY <1>1 DEF Asked
<1>3. p \in Nat /\ o \in Nat /\ g \in Nat /\ i \in Nat /\ n \in Nat /\ p + o + g + i <= n /\ bbIn \in Seq(Item)
  <2>1. InRead(v) = 0
    BY <1>2 DEF InRead
  <2>2. /\ p \in Nat /\ o \in Nat /\ g \in Nat /\ i \in Nat /\ n \in Nat /\ bbIn \in Seq(Item)
        /\ p + o + g + InRead(v) + i <= n
    BY OnceKnown
  <2> HIDE DEF p, o, g, i, n
  <2> QED
    BY <2>1, <2>2
<1>4. CASE RaisedTo /\ given' = given /\ bbIn' = bbIn /\ rd' = rd /\ got' = got
  <2>1. filterPc' # "reading"
    BY <1>4 DEF RaisedTo
  <2> QED
    BY <1>2, <1>4, <2>1, OnceStays
<1>5. ASSUME NEW b \in Seq(Item), F!Gives(b), bbIn \o b \in Seq(Item), Starts(line, len, bbIn \o b) PROVE OnceFor(v)'
  <2> DEFINE m == Count(v, F!Bytes(1, given'))
             c == Count(v, DataOf(b))
             d == bbIn \o b
             k == Count(v, DataOf(d))
  <2>1. m = n + c /\ c \in Nat
    BY <1>5, OnceGiven
  <2>2. k = i + c
    <3>1. DataOf(d) = DataOf(bbIn) \o DataOf(b) /\ DataOf(bbIn) \in Seq(Int) /\ DataOf(b) \in Seq(Int)
      BY <1>3, DataOfJoined, FlattenItems
    <3> QED
      BY <3>1, CountJoined
  <2>3. d \in Seq(Item) /\ Starts(line, len, d)
    BY <1>5
  <2> HIDE DEF p, o, g, i, n, m, c, d, k
  <2>4. m \in Nat /\ p + o + g + k <= m
    BY <1>3, <2>1, <2>2
  <2> USE DEF p, o, g, k
  <2>5. Count(v, F!Bytes(1, given')) = m
    BY DEF m
  <2> QED
    BY <1>2, <2>3, <2>4, <2>5, OnceStarts
<1>6. CASE Starts(line, len, bbIn) /\ given' = given
  <2>1. Count(v, F!Bytes(1, given')) = n
    BY <1>6
  <2> QED
    BY <1>2, <1>3, <1>6, <2>1, OnceStarts
<1>7. CASE FetchedTo(line, len)
  BY <1>4, <1>5, <1>6, <1>7 DEF FetchedTo
<1> QED
  BY <1>1, <1>4, <1>6, <1>7 DEF Asked

\* A round of the loop: what is copied leaves its bucket.
LEMMA OnceBucket ==
    ASSUME F!FilterAssumption, FilterType, FilterType', Reads, NEW v \in Nat \ {0}, OnceFor(v), F!ReadBucket
    PROVE  OnceFor(v)'
<1> DEFINE p == Count(v, passed)
           o == Count(v, bbOut)
           g == Count(v, got.data)
           i == Count(v, DataOf(bbIn))
           n == Count(v, F!Bytes(1, given))
           b == bbIn[1]
           N == F!CopySize
           s == SubSeq(b, 1, N)
           t == Tail(bbIn)
           f == FlattenSeq(Rest(b, N))
           q == Rest(b, N)
           x == Count(v, s)
           y == Count(v, DataOf(bbIn'))
           r == Count(v, rd.out)
<1>1. FilterHuge \in Nat \ {0}
  BY DEF F!FilterAssumption
<1>2. /\ filterPc = "reading" /\ bbIn # <<>> /\ b \in Bucket
      /\ s \in Seq(Byte) /\ q \in Seq(Item) /\ s \o f = b
      /\ bbIn' = q \o t /\ rd'.out = rd.out \o s
      /\ IF LineIn(b, N) THEN filterPc' = "handler" /\ got' = F!Got(rd'.out)
         ELSE filterPc' = filterPc /\ got' = got
  BY <1>1, ReadBucketFacts
<1>3. passed' = passed /\ bbOut' = bbOut /\ given' = given
  BY DEF F!ReadBucket, F!source, F!history
<1>4. bbIn \in Seq(Item) /\ rd.out \in Seq(Byte) /\ rd'.out \in Seq(Byte)
  BY Records DEF FilterType
<1>5. t \in Seq(Item) /\ bbIn = <<b>> \o t /\ <<b>> \in Seq(Item) /\ b \in Item
  BY <1>2, <1>4
<1>6. s \in Seq(Int) /\ f \in Seq(Int) /\ rd.out \in Seq(Int) /\ b \in Seq(Int)
  BY <1>2, <1>4, <1>5, BytesAreInts, FlattenItems, ItemFacts
<1>7. i = x + y /\ x \in Nat /\ y \in Nat
  <2> DEFINE one == <<b>>
  <2>1. DataOf(one) = F!Data(b) /\ one \in Seq(Item) /\ bbIn = one \o t
    BY <1>5, DataOfOne
  <2> HIDE DEF one, b, s, t, f, q, N
  <2>2. DataOf(bbIn) = F!Data(b) \o DataOf(t) /\ DataOf(t) \in Seq(Int) /\ F!Data(b) \in Seq(Int)
    BY <1>5, <1>6, <2>1, DataOfJoined, FlattenItems, DataType
  <2>3. i = Count(v, F!Data(b)) + Count(v, DataOf(t))
    BY <2>2, CountJoined
  <2>4. Count(v, F!Data(b)) = Count(v, b)
    BY <1>6, CountData
  <2>5. Count(v, b) = x + Count(v, f)
    BY <1>2, <1>6, CountJoined
  <2>6. DataOf(q \o t) = DataOf(q) \o DataOf(t) /\ DataOf(q) \in Seq(Int)
    BY <1>2, <1>5, DataOfJoined, FlattenItems
  <2>7. y = Count(v, DataOf(q)) + Count(v, DataOf(t))
    BY <1>2, <2>2, <2>6, CountJoined
  <2>8. Count(v, f) = Count(v, DataOf(q))
    BY <1>2, CountOfItems DEF f, q
  <2>9. x \in Nat /\ Count(v, DataOf(q)) \in Nat /\ Count(v, DataOf(t)) \in Nat
    BY <1>6, <2>2, <2>6, CountType
  <2> HIDE DEF i, x, y
  <2> QED
    BY <2>3, <2>4, <2>5, <2>7, <2>8, <2>9
<1>8. Count(v, rd'.out) = r + x /\ r \in Nat
  <2> HIDE DEF s
  <2> QED
    BY <1>2, <1>6, CountJoined, CountType
<1>9. p \in Nat /\ o \in Nat /\ g \in Nat /\ n \in Nat /\ p + o + g + r + i <= n
  <2>1. InRead(v) = r
    BY <1>2 DEF InRead
  <2>2. p \in Nat /\ o \in Nat /\ g \in Nat /\ n \in Nat /\ p + o + g + InRead(v) + i <= n
    BY OnceKnown
  <2> HIDE DEF p, o, g, n, r, i
  <2> QED
    BY <2>1, <2>2
<1>10. Count(v, passed') = p /\ Count(v, bbOut') = o /\ Count(v, F!Bytes(1, given')) = n
  BY <1>3
<1>11. \/ filterPc' # "reading" /\ Count(v, got'.data) = r + x
       \/ Count(v, got'.data) = g /\ Count(v, rd'.out) = r + x
  <2>1. F!Got(rd'.out).data = rd'.out
    BY <1>4, Records
  <2> HIDE DEF r, x, g, s, b, N
  <2> QED
    BY <1>2, <1>8, <2>1 DEF g
<1>12. Count(v, DataOf(bbIn')) = y
  OBVIOUS
<1> HIDE DEF p, o, g, i, n, b, N, s, t, f, q, x, y, r
<1>13. r + x \in Nat /\ 0 \in Nat /\ p + o + (r + x) + 0 + y <= n /\ p + o + g + (r + x) + y <= n
  BY <1>7, <1>8, <1>9
<1>14. Count(v, passed') <= p /\ Count(v, bbOut') <= o /\ Count(v, DataOf(bbIn')) <= y
  BY <1>7, <1>9, <1>10, <1>12
<1>15. CASE filterPc' # "reading" /\ Count(v, got'.data) = r + x
  <2>1. Count(v, got'.data) <= r + x
    BY <1>13, <1>15
  <2> QED
    BY <1>7, <1>9, <1>10, <1>13, <1>14, <1>15, <2>1, OnceSum
<1>16. CASE Count(v, got'.data) = g /\ Count(v, rd'.out) = r + x
  <2> DEFINE w == r + x
  <2>1. Count(v, got'.data) <= g /\ Count(v, rd'.out) <= w /\ w \in Nat
    BY <1>9, <1>13, <1>16
  <2>2. p + o + g + w + y <= n
    BY <1>13
  <2>3. IF filterPc' = "reading" THEN Count(v, rd'.out) <= w ELSE TRUE
    BY <2>1
  <2> HIDE DEF w
  <2> QED
    BY <1>7, <1>9, <1>10, <1>14, <2>1, <2>2, <2>3, OnceSum
<1> QED
  BY <1>11, <1>15, <1>16

\* The loop is over.
LEMMA OnceEnds ==
    ASSUME F!FilterAssumption, FilterType, FilterType', NEW v \in Nat \ {0}, OnceFor(v), F!ReadEnds
    PROVE  OnceFor(v)'
<1> DEFINE p == Count(v, passed)
           o == Count(v, bbOut)
           g == Count(v, got.data)
           i == Count(v, DataOf(bbIn))
           n == Count(v, F!Bytes(1, given))
           r == Count(v, rd.out)
<1>1. filterPc = "reading" /\ filterPc' # "reading" /\ got' = F!Got(rd.out) /\ passed' = passed /\ bbOut' = bbOut
      /\ bbIn' = bbIn /\ given' = given
  BY DEF F!ReadEnds, F!source, F!object, F!history
<1>2. InRead(v) = r
  BY <1>1 DEF InRead
<1>3. p \in Nat /\ o \in Nat /\ g \in Nat /\ i \in Nat /\ n \in Nat /\ InRead(v) \in Nat /\ p + o + g + InRead(v) + i <= n
  BY OnceKnown
<1>4. Count(v, got'.data) = r
  <2>1. rd.out \in Seq(Byte)
    BY Records DEF FilterType
  <2> QED
    BY <1>1, <2>1, Records
<1>5. Count(v, passed') = p /\ Count(v, bbOut') = o /\ Count(v, DataOf(bbIn')) = i /\ Count(v, F!Bytes(1, given')) = n
  BY <1>1
<1> HIDE DEF p, o, g, i, n, r
<1>6. r \in Nat /\ 0 \in Nat /\ p + o + r + 0 + i <= n /\ Count(v, got'.data) <= r /\ Count(v, passed') <= p
      /\ Count(v, bbOut') <= o /\ Count(v, DataOf(bbIn')) <= i
  BY <1>2, <1>3, <1>4, <1>5
<1>7. IF filterPc' = "reading" THEN Count(v, rd'.out) <= 0 ELSE TRUE
  BY <1>1
<1>8. p \in Nat /\ o \in Nat /\ r \in Nat /\ i \in Nat /\ n \in Nat /\ Count(v, F!Bytes(1, given')) = n
  BY <1>3, <1>5, <1>6
<1> QED
  BY <1>6, <1>7, <1>8, OnceSum

\* write(): what was read goes to bb_out, as far as it is still there when it is passed.
LEMMA OnceWrite ==
    ASSUME F!FilterAssumption, FilterType, FilterType', NEW v \in Nat \ {0}, OnceFor(v), F!Write
    PROVE  OnceFor(v)'
<1> DEFINE p == Count(v, passed)
           o == Count(v, bbOut)
           g == Count(v, got.data)
           i == Count(v, DataOf(bbIn))
           n == Count(v, F!Bytes(1, given))
<1>1. filterPc = "handler" /\ bbIn' = bbIn /\ given' = given /\ passed' = passed /\ rd' = rd
  BY DEF F!Write, F!Calls, F!source
<1>2. CASE closed
  <2>1. F!Raises /\ bbOut' = bbOut /\ got' = got
    BY <1>2 DEF F!Write
  <2>2. filterPc' # "reading"
    BY <2>1, RaisesFacts DEF RaisedTo
  <2> QED
    BY <1>1, <2>1, <2>2, OnceStays
<1>3. CASE ~closed
  <2>1. PICK d \in IF conf.copy THEN {got.data} ELSE {got.data, <<F!Own>>} :
          (\E shown \in F!Shown(d) : bbOut' = bbOut \o shown) /\ got' = F!Unread /\ filterPc' = filterPc
    BY <1>3 DEF F!Write
  <2>2. d \in Seq(Int) /\ Count(v, d) <= g
    <3>1. got.data \in Seq(Int) /\ g \in Nat
      <4>1. got.data \in Seq(Byte)
        BY Records DEF FilterType
      <4> QED
        BY <4>1, BytesAreInts, OnceKnown
    <3>2. <<F!Own>> \in Seq(Int) /\ Count(v, <<F!Own>>) = 0
      BY CountNothing, MarksAre
    <3>3. CASE d = got.data
      BY <3>1, <3>3
    <3>4. CASE d = <<F!Own>>
      <4>1. d \in Seq(Int) /\ Count(v, d) = 0
        BY <3>2, <3>4
      <4> HIDE DEF g
      <4> QED
        BY <3>1, <4>1
    <3> QED
      BY <2>1, <3>3, <3>4
  <2>3. PICK shown \in F!Shown(d) : bbOut' = bbOut \o shown
    BY <2>1
  <2>4. shown \in Seq(Int) /\ Count(v, shown) <= Count(v, d) /\ Count(v, d) \in Nat /\ Count(v, shown) \in Nat
    BY <2>2, CountShown, CountType
  <2>5. Count(v, bbOut') = o + Count(v, shown)
    <3>1. bbOut \in Seq(Int)
      BY OnceKnown
    <3> QED
      BY <2>3, <2>4, <3>1, CountJoined
  <2>6. p \in Nat /\ o \in Nat /\ g \in Nat /\ i \in Nat /\ n \in Nat /\ InRead(v) \in Nat
        /\ p + o + g + InRead(v) + i <= n
    BY OnceKnown
  <2>7. Count(v, passed') = p /\ Count(v, DataOf(bbIn')) = i /\ Count(v, F!Bytes(1, given')) = n
        /\ Count(v, got'.data) = 0 /\ filterPc' # "reading"
    BY <1>1, <2>1, CountNothing
  <2> DEFINE O == o + g
  <2> HIDE DEF p, o, g, i, n
  <2>8. O \in Nat /\ 0 \in Nat /\ p + O + 0 + 0 + i <= n /\ Count(v, bbOut') <= O /\ Count(v, passed') <= p
        /\ Count(v, got'.data) <= 0 /\ Count(v, DataOf(bbIn')) <= i
    BY <2>2, <2>4, <2>5, <2>6, <2>7
  <2> HIDE DEF O
  <2> QED
    BY <2>6, <2>7, <2>8, OnceSum
<1> QED
  BY <1>2, <1>3

\* Where bb_out may go to the next filter, and the rest stays or is dropped.
LEMMA OnceOut ==
    ASSUME F!FilterAssumption, FilterType, FilterType', NEW v \in Nat \ {0}, OnceFor(v),
           NEW P \in Nat, NEW O \in Nat, Count(v, passed') <= P, Count(v, bbOut') <= O,
           P + O <= Count(v, passed) + Count(v, bbOut), filterPc' # "reading",
           got' = got \/ got' = F!Unread, bbIn' = bbIn \/ bbIn' = <<>>, given' = given
    PROVE  OnceFor(v)'
<1> DEFINE p == Count(v, passed)
           o == Count(v, bbOut)
           g == Count(v, got.data)
           i == Count(v, DataOf(bbIn))
           n == Count(v, F!Bytes(1, given))
<1>1. p \in Nat /\ o \in Nat /\ g \in Nat /\ i \in Nat /\ n \in Nat /\ InRead(v) \in Nat
      /\ p + o + g + InRead(v) + i <= n
  BY OnceKnown
<1>2. Count(v, got'.data) \in {0, g}
  BY CountNothing
<1>3. Count(v, DataOf(bbIn')) \in {0, i}
  <2>1. DataOf(bbIn)' = DataOf(bbIn')
    BY DEF DataOf
  <2> QED
    BY CountNothing
<1>4. Count(v, F!Bytes(1, given')) = n
  OBVIOUS
<1> HIDE DEF g, i, n
<1>5. 0 \in Nat /\ P + O + g + 0 + i <= n /\ Count(v, got'.data) <= g /\ Count(v, DataOf(bbIn')) <= i
  BY <1>1, <1>2, <1>3
<1> QED
  BY <1>1, <1>4, <1>5, OnceSum

LEMMA OnceFlushed ==
    ASSUME F!FilterAssumption, FilterType, NEW v \in Nat \ {0}, OnceFor(v), NEW items \in Seq(Int),
           Count(v, items) = Count(v, bbOut), FlushedOut(items)
    PROVE  /\ Count(v, passed') \in Nat /\ Count(v, bbOut') \in Nat
           /\ Count(v, passed') + Count(v, bbOut') <= Count(v, passed) + Count(v, bbOut)
<1>1. Count(v, passed) \in Nat /\ Count(v, bbOut) \in Nat /\ passed \in Seq(Int)
  BY OnceKnown
<1>2. CASE bbOut' = items /\ passed' = passed
  BY <1>1, <1>2
<1>3. CASE bbOut' = <<>> /\ PassedOn(items)
  <2>1. Count(v, passed') <= Count(v, passed) + Count(v, items) /\ Count(v, passed') \in Nat
    BY <1>1, <1>3, OncePassed DEF PassedOn
  <2>2. Count(v, bbOut') = 0
    BY <1>3, CountNothing
  <2> QED
    BY <1>1, <2>1, <2>2
<1> QED
  BY <1>2, <1>3 DEF FlushedOut

LEMMA OnceFlushes ==
    ASSUME F!FilterAssumption, FilterType, FilterType', NEW v \in Nat \ {0}, OnceFor(v), F!FlushCall \/ F!Close
    PROVE  OnceFor(v)'
<1>1. CASE F!FlushCall
  <2> DEFINE items == Append(bbOut, F!Flush)
  <2>1. F!FlushOut(items) /\ items \in Seq(Int) /\ Count(v, items) = Count(v, bbOut)
    BY <1>1, CountMarked DEF F!FlushCall, FilterType
  <2>2. filterPc' # "reading" /\ got' = got /\ bbIn' = bbIn /\ given' = given
    BY <1>1, RaisesFacts DEF F!FlushCall, F!Calls, RaisedTo, F!source
  <2> HIDE DEF items
  <2>3. FlushedOut(items)
    BY <2>1, FlushOutFacts
  <2>4. /\ Count(v, passed') \in Nat /\ Count(v, bbOut') \in Nat
        /\ Count(v, passed') + Count(v, bbOut') <= Count(v, passed) + Count(v, bbOut)
    BY <2>1, <2>3, OnceFlushed
  <2>5. Count(v, passed') <= Count(v, passed') /\ Count(v, bbOut') <= Count(v, bbOut')
    BY <2>4
  <2> QED
    BY <2>2, <2>4, <2>5, OnceOut
<1>2. CASE F!Close
  <2>1. ClosedTo
    BY <1>2, CloseFacts
  <2>2. filterPc = "handler" /\ filterPc' # "reading" /\ got' = got /\ bbIn' = bbIn /\ given' = given /\ rd' = rd
    BY <2>1 DEF ClosedTo
  <2>3. CASE bbOut' = bbOut /\ passed' = passed
    BY <2>2, <2>3, OnceStays
  <2>4. CASE FlushedOut(Append(bbOut, F!Eos))
    <3> DEFINE items == Append(bbOut, F!Eos)
    <3>1. items \in Seq(Int) /\ Count(v, items) = Count(v, bbOut) /\ FlushedOut(items)
      BY <2>4, CountMarked DEF FilterType
    <3> HIDE DEF items
    <3>2. /\ Count(v, passed') \in Nat /\ Count(v, bbOut') \in Nat
          /\ Count(v, passed') + Count(v, bbOut') <= Count(v, passed) + Count(v, bbOut)
      BY <3>1, OnceFlushed
    <3>3. Count(v, passed') <= Count(v, passed') /\ Count(v, bbOut') <= Count(v, bbOut')
      BY <3>2
    <3> QED
      BY <2>2, <3>2, <3>3, OnceOut
  <2> QED
    BY <2>1, <2>3, <2>4 DEF ClosedTo
<1> QED
  BY <1>1, <1>2

\* pass_on(): what is passed or added to the brigade of the caller is taken from bb_in or new.
LEMMA OncePassOn ==
    ASSUME F!FilterAssumption, FilterType, FilterType', NEW v \in Nat \ {0}, OnceFor(v), F!PassOn
    PROVE  OnceFor(v)'
<1> DEFINE p == Count(v, passed)
           o == Count(v, bbOut)
           g == Count(v, got.data)
           i == Count(v, DataOf(bbIn))
           n == Count(v, F!Bytes(1, given))
<1>1. PassedOnTo /\ filterPc = "handler" /\ filterPc' # "reading" /\ got' = got /\ rd' = rd
  <2>1. PassedOnTo /\ filterPc = "handler"
    BY PassOnFacts
  <2>2. filterPc' = filterPc /\ got' = got /\ rd' = rd
    BY DEF F!PassOn
  <2> QED
    BY <2>1, <2>2
<1>2. p \in Nat /\ o \in Nat /\ g \in Nat /\ i \in Nat /\ n \in Nat /\ InRead(v) \in Nat
      /\ p + o + g + InRead(v) + i <= n /\ passed \in Seq(Int) /\ bbOut \in Seq(Int) /\ bbIn \in Seq(Item)
  BY OnceKnown
<1>3. Count(v, got'.data) = g
  BY <1>1
<1>4. ASSUME passed' = passed, bbIn' = bbIn, NEW b \in Seq(Item), F!Gives(b), bbOut' = bbOut \o FlattenSeq(b)
      PROVE  OnceFor(v)'
  <2> DEFINE c == Count(v, DataOf(b))
             m == Count(v, F!Bytes(1, given'))
             O == o + c
             f == FlattenSeq(b)
  <2>1. m = n + c /\ c \in Nat
    BY <1>4, OnceGiven
  <2>2. f \in Seq(Int) /\ Count(v, f) = c
    BY CountOfItems
  <2>3. Count(v, bbOut') = O
    <3> HIDE DEF f
    <3>1. bbOut' = bbOut \o f
      BY <1>4 DEF f
    <3> QED
      BY <1>2, <2>2, <3>1, CountJoined
  <2>4. Count(v, passed') = p /\ Count(v, DataOf(bbIn')) = i /\ Count(v, F!Bytes(1, given')) = m
    BY <1>4
  <2> HIDE DEF p, o, g, i, n, c, m
  <2>5. O \in Nat /\ 0 \in Nat /\ m \in Nat /\ p + O + g + 0 + i <= m /\ Count(v, passed') <= p /\ Count(v, bbOut') <= O
        /\ Count(v, got'.data) <= g /\ Count(v, DataOf(bbIn')) <= i
    BY <1>2, <1>3, <2>1, <2>3, <2>4
  <2>6. IF filterPc' = "reading" THEN Count(v, rd'.out) <= 0 ELSE TRUE
    BY <1>1
  <2> HIDE DEF O
  <2> QED
    BY <1>2, <2>4, <2>5, <2>6, OnceSum
<1>5. ASSUME bbIn' = <<>>, bbOut' = bbOut, given' = given,
             passed' = passed \o F!Unmarked(FlattenSeq(bbIn)) \/ PassedPart(FlattenSeq(bbIn))
      PROVE  OnceFor(v)'
  <2> DEFINE P == p + i
             f == FlattenSeq(bbIn)
  <2>1. f \in Seq(Int) /\ Count(v, f) = i
    BY <1>2, CountOfItems
  <2>2. Count(v, passed') <= p + Count(v, f)
    <3> HIDE DEF f
    <3>1. passed' = passed \o F!Unmarked(f) \/ PassedPart(f)
      BY <1>5 DEF f
    <3> QED
      BY <1>2, <2>1, <3>1, OncePassed
  <2>3. Count(v, bbOut') = o /\ Count(v, DataOf(bbIn')) = 0 /\ Count(v, F!Bytes(1, given')) = n
    BY <1>5, CountNothing
  <2> HIDE DEF p, o, g, i, n
  <2>4. P \in Nat /\ 0 \in Nat /\ P + o + g + 0 + 0 <= n /\ Count(v, passed') <= P /\ Count(v, bbOut') <= o
        /\ Count(v, got'.data) <= g /\ Count(v, DataOf(bbIn')) <= 0
    BY <1>2, <1>3, <2>1, <2>2, <2>3
  <2>5. IF filterPc' = "reading" THEN Count(v, rd'.out) <= 0 ELSE TRUE
    BY <1>1
  <2> HIDE DEF P
  <2> QED
    BY <1>2, <2>3, <2>4, <2>5, OnceSum
<1>6. ASSUME bbIn' = bbIn, passed' = passed, bbOut' = bbOut, given' = given PROVE OnceFor(v)'
  BY <1>1, <1>6, OnceStays
<1> QED
  BY <1>1, <1>4, <1>5, <1>6 DEF PassedOnTo

\* The call ends, or the handler does.
LEMMA OnceReturns ==
    ASSUME F!FilterAssumption, FilterType, FilterType', NEW v \in Nat \ {0}, OnceFor(v),
           F!HandlerReturns \/ F!ServerReturn \/ F!ReportError
    PROVE  OnceFor(v)'
<1> DEFINE p == Count(v, passed)
           o == Count(v, bbOut)
           P == p + o
<1>1. p \in Nat /\ o \in Nat /\ passed \in Seq(Int) /\ bbOut \in Seq(Int)
  BY OnceKnown
<1>2. ASSUME NEW items \in Seq(Int), Count(v, items) = o,
             passed' = F!ToCaller(items) \/ PassedOn(items), bbOut' = <<>>, filterPc' # "reading",
             got' = got \/ got' = F!Unread, bbIn' = bbIn \/ bbIn' = <<>>, given' = given
      PROVE  OnceFor(v)'
  <2>1. Count(v, passed') <= p + Count(v, items)
    BY <1>1, <1>2, OncePassed, OnceToCaller DEF PassedOn
  <2>2. Count(v, bbOut') = 0
    BY <1>2, CountNothing
  <2>3. P \in Nat /\ 0 \in Nat /\ Count(v, passed') <= P /\ Count(v, bbOut') <= 0 /\ P + 0 <= p + o
    <3> HIDE DEF p, o
    <3> QED
      BY <1>1, <1>2, <2>1, <2>2
  <2> HIDE DEF P
  <2> QED
    BY <1>2, <2>3, OnceOut
<1>3. /\ Append(bbOut, F!Flush) \in Seq(Int) /\ Count(v, Append(bbOut, F!Flush)) = o
      /\ bbOut \o F!Report \in Seq(Int) /\ Count(v, bbOut \o F!Report) = o
  BY <1>1, CountMarked
<1>4. CASE F!HandlerReturns
  <2>1. ReturnedTo
    BY <1>4, HandlerReturnsFacts
  <2>2. /\ bbOut' = <<>> /\ given' = given /\ filterPc' # "reading"
        /\ got' = got \/ got' = F!Unread
        /\ bbIn' = bbIn \/ bbIn' = <<>>
        /\ \/ passed' = F!ToCaller(bbOut)
           \/ passed' = F!ToCaller(Append(bbOut, F!Flush))
           \/ PassedOn(Append(bbOut, F!Flush))
    BY <2>1 DEF ReturnedTo, Gone
  <2> DEFINE items == Append(bbOut, F!Flush)
  <2>3. items \in Seq(Int) /\ Count(v, items) = o
    BY <1>3
  <2>4. passed' = F!ToCaller(bbOut) \/ passed' = F!ToCaller(items) \/ PassedOn(items)
    BY <2>2
  <2> HIDE DEF items
  <2>5. CASE passed' = F!ToCaller(bbOut)
    BY <1>1, <1>2, <2>2, <2>5
  <2>6. CASE passed' = F!ToCaller(items) \/ PassedOn(items)
    BY <1>2, <2>2, <2>3, <2>6
  <2> QED
    BY <2>4, <2>5, <2>6
<1>5. CASE F!ServerReturn
  <2>1. bbOut' = <<>> /\ given' = given /\ filterPc' # "reading" /\ got' = F!Unread /\ bbIn' = <<>>
        /\ passed' = F!ToCaller(bbOut)
    BY <1>5 DEF F!ServerReturn, F!Leave, F!source
  <2> QED
    BY <1>1, <1>2, <2>1
<1>6. CASE F!ReportError
  <2> DEFINE items == bbOut \o F!Report
  <2>1. items \in Seq(Int) /\ Count(v, items) = o
    BY <1>3
  <2>2. given' = given /\ filterPc' # "reading" /\ got' = F!Unread /\ bbIn' = <<>>
        /\ (F!PassOut(items) \/ (passed' = F!ToCaller(items) /\ bbOut' = <<>>))
    BY <1>6 DEF F!ReportError, F!Leave, F!source
  <2> HIDE DEF items
  <2>3. bbOut' = <<>> /\ (PassedOn(items) \/ passed' = F!ToCaller(items))
    BY <1>1, <2>1, <2>2, PassOutFacts
  <2> QED
    BY <1>2, <2>1, <2>2, <2>3
<1> QED
  BY <1>4, <1>5, <1>6

LEMMA OnceStep ==
    ASSUME F!FilterAssumption, FilterType, Reads, Once, F!Next PROVE Once'
<1>1. FilterType'
  BY TypeStep
<1>2. SUFFICES ASSUME NEW v \in Nat \ {0} PROVE OnceFor(v)'
  BY DEF Once
<1>3. OnceFor(v)
  BY DEF Once
<1>4. CASE F!RegisterFilter \/ F!AddFilter \/ F!Disable \/ F!HandlerRaises \/ F!ReadFails
  <2>1. /\ passed' = passed /\ bbOut' = bbOut /\ got' = got /\ rd' = rd /\ bbIn' = bbIn /\ given' = given
        /\ filterPc' = "reading" => filterPc = "reading"
    <3>1. CASE F!RegisterFilter
      BY <3>1 DEF F!RegisterFilter, F!source, F!object, F!history
    <3>2. CASE F!AddFilter
      BY <3>2 DEF F!AddFilter, F!source, F!object, F!history
    <3>3. CASE F!Disable
      BY <3>3 DEF F!Disable, F!source, F!object, F!history
    <3>4. CASE F!HandlerRaises
      BY <3>4 DEF F!HandlerRaises, F!Raised, F!source, F!object
    <3>5. CASE F!ReadFails
      BY <3>5 DEF F!ReadFails, F!source, F!object
    <3> QED
      BY <1>4, <3>1, <3>2, <3>3, <3>4, <3>5
  <2> QED
    BY <1>3, <2>1, OnceStays
<1>5. CASE F!OutputCall \/ F!InputCall
  BY <1>1, <1>3, <1>5, OnceCalled
<1>6. ASSUME NEW line \in BOOLEAN, NEW len \in FilterLens, F!Read(line, len) PROVE OnceFor(v)'
  BY <1>1, <1>3, <1>6, OnceRead
<1>7. CASE F!ReadBucket
  BY <1>1, <1>3, <1>7, OnceBucket
<1>8. CASE F!ReadEnds
  BY <1>1, <1>3, <1>8, OnceEnds
<1>9. CASE F!Write
  BY <1>1, <1>3, <1>9, OnceWrite
<1>10. CASE F!FlushCall \/ F!Close
  BY <1>1, <1>3, <1>10, OnceFlushes
<1>11. CASE F!PassOn
  BY <1>1, <1>3, <1>11, OncePassOn
<1>12. CASE F!HandlerReturns \/ F!ServerReturn \/ F!ReportError
  BY <1>1, <1>3, <1>12, OnceReturns
<1> QED
  BY <1>4, <1>5, <1>6, <1>7, <1>8, <1>9, <1>10, <1>11, <1>12 DEF F!Next

LEMMA OnceAtFirst == F!FilterAssumption /\ F!Init => Once
<1> SUFFICES ASSUME F!FilterAssumption, F!Init, NEW v \in Nat \ {0} PROVE OnceFor(v)
  BY DEF Once
<1>1. passed = <<>> /\ bbOut = <<>> /\ got = F!Unread /\ filterPc # "reading" /\ bbIn = <<>> /\ given = 0
  BY DEF F!Init
<1>2. Count(v, passed) = 0 /\ Count(v, bbOut) = 0 /\ Count(v, got.data) = 0 /\ Count(v, DataOf(bbIn)) = 0 /\ InRead(v) = 0
  BY <1>1, CountNothing DEF InRead
<1>3. Count(v, F!Bytes(1, given)) \in Nat
  BY <1>1, CountBytes
<1> QED
  BY <1>2, <1>3 DEF OnceFor

LEMMA NothingTwiceHolds ==
    ASSUME F!FilterAssumption, FilterType, Once PROVE F!NothingTwice
<1> SUFFICES ASSUME NEW i \in DOMAIN passed, NEW j \in DOMAIN passed, passed[i] > 0, passed[i] = passed[j], i # j
             PROVE  FALSE
  BY DEF F!NothingTwice
<1>1. passed \in Seq(Int) /\ i \in 1..Len(passed) /\ j \in 1..Len(passed) /\ given \in Nat
  BY DEF FilterType, F!FilterAssumption
<1>2. passed[i] \in Nat \ {0}
  BY <1>1
<1> DEFINE v == passed[i]
<1>3. Count(v, passed) >= 2
  <2>1. CASE i < j
    BY <1>1, <2>1, CountPlaces
  <2>2. CASE j < i
    BY <1>1, <2>2, CountPlaces
  <2> QED
    BY <1>1, <2>1, <2>2
<1>4. v \in Nat \ {0}
  BY <1>2
<1> HIDE DEF v
<1>5. Count(v, F!Bytes(1, given)) \in 0..1
  BY <1>1, <1>4, CountBytes
<1>6. OnceFor(v)
  BY <1>4 DEF Once
<1> DEFINE p == Count(v, passed)
           o == Count(v, bbOut)
           g == Count(v, got.data)
           k == Count(v, DataOf(bbIn))
           n == Count(v, F!Bytes(1, given))
<1>7. p \in Nat /\ o \in Nat /\ g \in Nat /\ k \in Nat /\ InRead(v) \in Nat /\ p + o + g + InRead(v) + k <= n
  BY <1>4, <1>6, OnceKnown
<1>8. p >= 2 /\ n \in 0..1
  BY <1>3, <1>5
<1> HIDE DEF p, o, g, k, n
<1> QED
  BY <1>7, <1>8

-----------------------------------------------------------------------------

(* What a filter's calls keep in every reachable state: while nothing has  *)
(* failed and the strings that were written are kept, what was written is  *)
(* what was passed and what waits in bb_out, and for a handler that copies *)
(* the bytes written, in hand and left are those that came in; and the     *)
(* status of the filter object is that of the last use of the next filter. *)
THEOREM FilterInvariantHolds == F!FilterAssumption => (F!Spec => []FilterInv)
<1> SUFFICES ASSUME F!FilterAssumption PROVE F!Spec => []FilterInv
  OBVIOUS
<1>1. F!Init => FilterInv
  BY InitFilter
<1>2. FilterInv /\ [F!Next]_(F!vars) => FilterInv'
  <2> SUFFICES ASSUME FilterInv, [F!Next]_(F!vars) PROVE FilterInv'
    OBVIOUS
  <2>1. CASE F!Next
    BY <2>1, TypeStep, FailingStep, GivingStep, CopyingStep DEF FilterInv
  <2>2. CASE UNCHANGED F!vars
    <3>1. /\ conf' = conf /\ registered' = registered /\ ctx' = ctx /\ given' = given /\ ended' = ended
          /\ filterPc' = filterPc /\ bbIn' = bbIn /\ bbOut' = bbOut /\ closed' = closed /\ rc' = rc /\ rd' = rd
          /\ got' = got /\ failed' = failed /\ ret' = ret /\ clean' = clean
          /\ written' = written /\ passed' = passed
      BY <2>2 DEF F!vars, F!setup, F!source, F!object, F!history
    <3>2. FilterType' /\ Reads'
      BY <3>1 DEF FilterInv, FilterType, Reads
    <3>3. Failing'
      BY <3>1 DEF FilterInv, Failing, InCall
    <3>4. Giving'
      BY <3>1 DEF FilterInv, Giving, InCall
    <3>5. Copying'
      <4>1. InHand' = InHand /\ Left' = Left /\ (Marks(bbIn) => Marks(bbIn)')
        BY <3>1, MarksStay DEF InHand, Left, DataOf
      <4> QED
        BY <3>1, <4>1 DEF FilterInv, Copying, CopyCall, CopyIdle, HasEos, InCall
    <3> QED
      BY <3>2, <3>3, <3>4, <3>5 DEF FilterInv
  <2> QED
    BY <2>1, <2>2
<1> QED
  BY <1>1, <1>2, PTL DEF F!Spec

(* python_filter() returns a failure just when the last use of the next    *)
(* filter in the call failed, also where a handler caught the IOError of a *)
(* failed read() or flush() and went on; and whatever fails, and is caught *)
(* or reported, no byte of the stream reaches the next filter twice: what  *)
(* a failed pass may have handed on is not in bb_out any more.             *)
THEOREM FailuresReturned == F!FilterAssumption => (F!Spec => []FailureReturned)
<1> SUFFICES ASSUME F!FilterAssumption PROVE F!Spec => []FailureReturned
  OBVIOUS
<1>1. F!Init => Once
  BY OnceAtFirst
<1>2. FilterInv /\ Once /\ [F!Next]_(F!vars) => Once'
  <2> SUFFICES ASSUME FilterInv, Once, [F!Next]_(F!vars) PROVE Once'
    OBVIOUS
  <2>1. CASE F!Next
    BY <2>1, OnceStep DEF FilterInv
  <2>2. CASE UNCHANGED F!vars
    <3>1. /\ passed' = passed /\ bbOut' = bbOut /\ got' = got /\ rd' = rd /\ bbIn' = bbIn /\ given' = given
          /\ filterPc' = filterPc
      BY <2>2 DEF F!vars, F!source, F!object, F!history
    <3> QED
      BY <3>1, OnceStays DEF Once, FilterInv
  <2> QED
    BY <2>1, <2>2
<1>3. FilterInv /\ Once => FailureReturned
  <2> SUFFICES ASSUME FilterInv, Once PROVE FailureReturned
    OBVIOUS
  <2>1. F!NothingTwice
    BY NothingTwiceHolds DEF FilterInv
  <2>2. F!FailureReturned
    <3>1. filterPc = "idle" => ~InCall
      BY DEF InCall
    <3>2. failed <=> IF InCall THEN rc = "fail" ELSE ret = "fail"
      BY DEF FilterInv, Failing
    <3>3. filterPc = "idle" => (ret = "fail" <=> failed)
      BY <3>1, <3>2
    <3> QED
      BY <3>3 DEF F!FailureReturned
  <2> QED
    BY <2>1, <2>2 DEF FailureReturned
<1> QED
  BY <1>1, <1>2, <1>3, FilterInvariantHolds, PTL DEF F!Spec

(* Between two calls, all that handlers wrote has reached the next filter  *)
(* once and in order, unless there was an exception or a failure, or a     *)
(* string was gone before the bucket that points to it was passed.         *)
THEOREM AllDelivered == F!FilterAssumption => (F!Spec => []Delivered)
<1> SUFFICES ASSUME F!FilterAssumption PROVE F!Spec => []Delivered
  OBVIOUS
<1>1. FilterInv => Delivered
  <2> SUFFICES ASSUME FilterInv PROVE Delivered
    OBVIOUS
  <2>1. filterPc = "idle" /\ clean /\ conf.keeps => F!Data(passed) = written
    <3>1. filterPc = "idle" => bbOut = <<>>
      BY DEF FilterInv, Giving, InCall
    <3>2. clean /\ conf.keeps => Gave(written, passed, bbOut)
      BY GivingGave DEF FilterInv
    <3>3. passed \in Ints /\ Put(passed) \in Ints
      <4>1. passed \in Ints
        BY DEF FilterInv, FilterType, Ints
      <4> QED
        BY <4>1, PutFacts
    <3>4. filterPc = "idle" /\ clean /\ conf.keeps => written = Put(passed)
      BY <3>1, <3>2, <3>3, GaveIs, PutFacts, JoinFacts
    <3> QED
      BY <3>4 DEF Put
  <2>2. F!InBounds
    <3>1. rd.len \in Int /\ rd.size \in Int /\ Len(rd.out) \in Nat
      <4>1. rd.out \in Seq(Byte) /\ rd.len \in Int /\ rd.size \in Int
        BY Records DEF FilterInv, FilterType
      <4> QED
        BY <4>1
    <3>2. filterPc = "reading" /\ F!More => F!Room > 0
      BY CopySizeFacts DEF FilterInv
    <3> QED
      BY <3>1, <3>2 DEF FilterInv, Reads, F!InBounds
  <2> QED
    BY <2>1, <2>2 DEF Delivered, F!Delivered
<1> QED
  BY <1>1, FilterInvariantHolds, PTL

\* What a stream looks like that was copied: its bytes, and its end once and last.
LEMMA CopiedLooks ==
    ASSUME NEW w \in Seq(Byte), NEW p, NEW e \in BOOLEAN, p = Join(w, End(e))
    PROVE  /\ F!Data(p) = w
           /\ e => F!Last(p) = F!Eos
           /\ \A i \in DOMAIN p : p[i] = F!Eos => i = Len(p) /\ e
<1>1. \A i \in 1..Len(w) : w[i] # F!Eos
  <2> SUFFICES ASSUME NEW i \in 1..Len(w) PROVE w[i] # F!Eos
    OBVIOUS
  <2>1. w[i] \in Byte
    OBVIOUS
  <2> QED
    BY <2>1, MarksAre DEF Byte
<1>2. CASE e = FALSE
  <2>1. p = w
    BY <1>2, EndFacts, JoinFacts
  <2>2. \A i \in DOMAIN p : p[i] # F!Eos
    BY <1>1, <2>1
  <2> QED
    BY <1>2, <2>1, <2>2, DataBytes
<1>3. CASE e = TRUE
  <2>1. p = Append(w, F!Eos)
    <3>1. p = w \o <<F!Eos>>
      BY <1>3, EndFacts DEF Join
    <3>2. w \in Seq(Int) /\ F!Eos \in Int
      BY EndFacts, MarksAre DEF Ints
    <3> QED
      BY <3>1, <3>2, AppendIsConcat
  <2>2. Len(p) = Len(w) + 1 /\ p[Len(w) + 1] = F!Eos /\ DOMAIN p = 1..(Len(w) + 1)
        /\ \A i \in 1..Len(w) : p[i] = w[i]
    BY <2>1
  <2>3. \A i \in DOMAIN p : p[i] = F!Eos => i = Len(p)
    BY <1>1, <2>2
  <2>4. F!Last(p) = F!Eos
    BY <2>2 DEF F!Last
  <2>5. F!Data(p) = w
    <3>1. w \in Ints /\ End(TRUE) \in Ints
      BY EndFacts
    <3>2. F!Data(p) = F!Data(w) \o F!Data(End(TRUE))
      BY <1>3, <3>1, DataJoined DEF Join, Ints
    <3>3. F!Data(End(TRUE)) = <<>> /\ F!Data(w) = w
      BY EndFacts, DataMarks, DataBytes
    <3> QED
      BY <3>1, <3>2, <3>3, JoinFacts DEF Join
  <2> QED
    BY <1>3, <2>3, <2>4, <2>5
<1> QED
  BY <1>2, <1>3

(* A filter that copies what it reads, and keeps the strings it writes     *)
(* until they are passed, hands on every byte that came in, in order, and  *)
(* the end of the stream once, at the end, if the writer above sends no    *)
(* flush inside of its data.                                               *)
THEOREM AllCopied == F!FilterAssumption /\ ~FlushInside => (F!Spec => []Copied)
<1> SUFFICES ASSUME F!FilterAssumption, ~FlushInside PROVE F!Spec => []Copied
  OBVIOUS
<1>1. FilterInv => Copied
  <2> SUFFICES ASSUME FilterInv, filterPc = "idle", clean, conf.copy, conf.keeps
               PROVE  /\ F!Data(passed) = F!Bytes(1, given)
                      /\ ended => F!Last(passed) = F!Eos
                      /\ \A i \in DOMAIN passed : passed[i] = F!Eos => i = Len(passed) /\ ended
    BY DEF Copied, F!Copied
  <2>1. written \in Seq(Byte) /\ written = F!Bytes(1, given) /\ passed = Join(written, End(ended)) /\ ended \in BOOLEAN
    BY DEF FilterInv, FilterType, Copying, CopyIdle, InCall
  <2> QED
    BY <2>1, CopiedLooks
<1> QED
  BY <1>1, FilterInvariantHolds, PTL
=============================================================================
