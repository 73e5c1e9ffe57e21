-------------------------------- MODULE ReqBody --------------------------------
(***************************************************************************)
(* Reading the body of one request: req.read(), req.readline() and         *)
(* req.readlines() (src/requestobject.c). Each asks Apache for blocks of   *)
(* the body with the GIL released; readline() asks for more than a line    *)
(* and keeps the rest in the buffer rbuff, from which both take first.     *)
(* A byte is the number of its position in the body.                       *)
(***************************************************************************)
EXTENDS Integers, SequencesExt

CONSTANTS
    MaxLength,      \* bound: length of a body
    HugeStringLen,  \* HUGE_STRING_LEN, the least size of rbuff
    Lens,           \* values of the argument len
    Uses,           \* the mixes of operations handlers use: sets of {"read", "line", "lines"}
    Fails           \* when ap_get_client_block() may return -1: subset of {"first", "later"}

ASSUME SizeAssumption == MaxLength \in Nat /\ HugeStringLen \in Nat \ {0} /\ Lens \subseteq Int
ASSUME UseAssumption  == Uses \subseteq SUBSET {"read", "line", "lines"} /\ Fails \subseteq {"first", "later"}

VARIABLES
    length,    \* Content-Length; never changes
    newlines,  \* the bytes that are '\n'; never changes
    use,       \* the operations of this handler; never changes
    pc,        \* "idle", "begin", "first" (read() wants its first block), "read" and "line"
               \* (in the loops over blocks), "failed" after an
               \* IOError, or "wild"
    call,      \* the operation, its argument, the bytes it wants, and for readlines() its
               \* sizehint and the size so far
    net,       \* bytes Apache has given out
    left,      \* the bytes of rbuff between rbuff_pos and rbuff_len
    buffer,    \* the bytes in the result so far
    nread,     \* bytes_read
    out,       \* all bytes returned
    last       \* the bytes the last call returned

vars == <<length, newlines, use, pc, call, net, left, buffer, nread, out, last>>
body == <<length, newlines, use>>

NotLines == -2                       \* a sizehint for calls that are not part of readlines()
NoCall   == [op |-> "read", len |-> 0, want |-> 0, hint |-> NotLines, size |-> 0]

\* request_rec->remaining, once ap_setup_client_block() has run: Apache leaves it alone
\* until the last block.
Remaining == IF net = length THEN 0 ELSE length

Init ==
    /\ length \in 0..MaxLength
    /\ newlines \in SUBSET (1..length)
    /\ use \in Uses
    /\ pc = "idle" /\ call = NoCall
    /\ net = 0 /\ left = <<>> /\ buffer = <<>> /\ nread = 0
    /\ out = <<>> /\ last = <<>>

\* The handler calls read(n) or readline(n) ...
Ask(op, n) ==
    /\ pc = "idle" /\ op \in use \ {"lines"}
    /\ call' = [NoCall EXCEPT !.op = op, !.len = n]
    /\ pc' = "begin"
    /\ nread' = 0
    /\ UNCHANGED <<body, net, left, buffer, out, last>>

\* ... or readlines(hint), whose first readline() has no argument.
AskLines(hint) ==
    /\ pc = "idle" /\ "lines" \in use
    /\ call' = [NoCall EXCEPT !.op = "line", !.len = -1, !.hint = hint]
    /\ pc' = "begin"
    /\ nread' = 0
    /\ UNCHANGED <<body, net, left, buffer, out, last>>

\* The call returns s. readlines() goes on unless that was empty or enough; it passes
\* its own argument on to readline().
Return(s) ==
    /\ out' = out \o s
    /\ last' = s
    /\ buffer' = <<>>
    /\ LET size == call.size + Len(s)
           more == /\ call.hint # NotLines
                   /\ s # <<>>
                   /\ call.hint # -1 => size < call.hint
       IN IF more
          THEN call' = [call EXCEPT !.len = call.hint, !.size = size] /\ pc' = "begin"
          ELSE call' = call /\ pc' = "idle"

\* "client has nothing to send", asked for until the first bytes came.
NothingToSend == length = 0

ReturnNothing ==
    /\ pc = "begin"
    /\ call.len = 0 \/ NothingToSend
    /\ Return(<<>>)
    /\ UNCHANGED <<body, net, left, nread>>

Wanted == IF call.len < 0 THEN Remaining + Len(left) ELSE call.len
MinOf(a, b) == IF a < b THEN a ELSE b
MaxOf(a, b) == IF a > b THEN a ELSE b

\* How many bytes of s make a line of at most n bytes: all, if it does not end in s.
LineLen(s, n) ==
    LET ends == {k \in 1..Len(s) : s[k] \in newlines \/ k = n}
    IN IF ends = {} THEN Len(s) ELSE CHOOSE k \in ends : \A j \in ends : k <= j

Taken(n)  == SubSeq(left, 1, n)
Behind(n) == SubSeq(left, n + 1, Len(left))

\* read(): take what readline() left.
Read ==
    /\ pc = "begin" /\ call.op = "read"
    /\ call.len # 0 /\ ~NothingToSend
    /\ LET k == MinOf(Wanted, Len(left)) IN
         /\ left' = Behind(k)
         /\ IF k = Wanted
            THEN Return(Taken(k)) /\ UNCHANGED nread
            ELSE /\ buffer' = Taken(k)
                 /\ nread' = 0
                 /\ call' = [call EXCEPT !.want = Wanted]
                 /\ pc' = "first"
                 /\ UNCHANGED <<out, last>>
    /\ UNCHANGED <<body, net>>

\* readline(): take what the last one left, as far as the end of the line.
Readline ==
    /\ pc = "begin" /\ call.op = "line"
    /\ call.len # 0 /\ ~NothingToSend
    /\ LET k == LineLen(left, Wanted) IN
         /\ left' = Behind(k)
         /\ IF k > 0 /\ (left[k] \in newlines \/ k = Wanted)
            THEN Return(Taken(k)) /\ UNCHANGED nread
            ELSE /\ buffer' = Taken(k)
                 /\ nread' = 0
                 /\ call' = [call EXCEPT !.want = Wanted]
                 /\ pc' = "line"
                 /\ UNCHANGED <<out, last>>
    /\ UNCHANGED <<body, net>>

\* ap_get_client_block() gives a block of at most size bytes: what has come in, none at
\* the end of the body.
Blocks(size) == IF net = length THEN {<<>>}
                ELSE {[k \in 1..m |-> net + k] : m \in 1..MinOf(size, length - net)}

\* The block is written to the result from offset at on.
Written(b, at, block) ==
    [k \in 1..MaxOf(Len(b), at + Len(block)) |->
        IF k > at /\ k <= at + Len(block) THEN block[k - at] ELSE b[k]]

\* Fault: the end of the body does not end the loop.
ReadDoneFull(block) == nread + Len(block) >= call.want

ReadDone(block) == block = <<>> \/ nread + Len(block) >= call.want

ReadSize == call.want - nread

\* read() writes the block behind the blocks it has read before.
ReadBlock ==
    /\ pc \in {"first", "read"}
    /\ \E block \in Blocks(ReadSize) :
         LET b     == Written(buffer, nread, block)
             total == nread + Len(block) IN
           /\ net' = net + Len(block)
           /\ nread' = total
           /\ IF ReadDone(block)
              THEN Return(SubSeq(b, 1, total))
              ELSE buffer' = b /\ pc' = "read" /\ UNCHANGED <<call, out, last>>
    /\ UNCHANGED <<body, left>>

RbuffLen == MaxOf(call.want, HugeStringLen)

LineSize == RbuffLen - nread

\* Fault: a short block is enough.
LineDoneOnce(block) == TRUE

LineDone(block) == block = <<>> \/ nread + Len(block) + Len(buffer) >= call.want

\* Fault: the buffer is freed in any case.
KeptNone(s, k) == <<>>

Kept(s, k) == SubSeq(s, k + 1, Len(s))

\* readline() fills its buffer until the length it wants is there, then takes its line.
LineBlock ==
    /\ pc = "line"
    /\ \E block \in Blocks(LineSize) :
         LET filled == left \o block
             k      == LineLen(filled, call.want - Len(buffer)) IN
           /\ net' = net + Len(block)
           /\ nread' = nread + Len(block)
           /\ IF LineDone(block)
              THEN /\ Return(buffer \o SubSeq(filled, 1, k))
                   /\ left' = Kept(filled, k)
              ELSE left' = filled /\ UNCHANGED <<pc, call, buffer, out, last>>
    /\ UNCHANGED body

\* The first block of read() is -1, and is counted: the next one is written to the byte in
\* front of the result. What the program does from there on is undefined.
ReadFailsFirst ==
    /\ "first" \in Fails
    /\ pc = "first" /\ net < length
    /\ pc' = "wild"
    /\ UNCHANGED <<body, call, net, left, buffer, nread, out, last>>

\* A block is -1: IOError, and the bytes read are gone.
BlockFails ==
    /\ "later" \in Fails
    /\ net < length
    /\ pc \in {"line", "read"}
    /\ pc' = "failed"
    /\ left' = IF pc = "line" THEN <<>> ELSE left
    /\ buffer' = <<>> /\ nread' = 0
    /\ UNCHANGED <<body, call, net, out, last>>

Next == \/ \E op \in {"read", "line"}, n \in Lens : Ask(op, n)
        \/ \E hint \in Lens : AskLines(hint)
        \/ ReturnNothing \/ Read \/ Readline
        \/ ReadBlock \/ LineBlock \/ ReadFailsFirst \/ BlockFails

Spec == Init /\ [][Next]_vars

(***************************************************************************)
(* Fairness: the thread goes on, and a call of ap_get_client_block() comes *)
(* back, with bytes or after Timeout without.                              *)
(***************************************************************************)
FairSpec == Spec /\ WF_vars(ReturnNothing \/ Read \/ Readline \/ ReadBlock \/ LineBlock)
-----------------------------------------------------------------------------
TypeOK ==
    /\ length \in 0..MaxLength /\ newlines \subseteq 1..length /\ use \in Uses
    /\ pc \in {"idle", "begin", "first", "read", "line", "failed", "wild"}
    /\ call \in [op : {"read", "line"}, len : Lens \cup {-1, 0}, want : Nat,
                 hint : Lens \cup {NotLines}, size : Nat]
    /\ net \in 0..length
    /\ left \in Seq(1..length) /\ buffer \in Seq(1..length)
    /\ nread \in 0..RbuffLen
    /\ out \in Seq(1..length) /\ last \in Seq(1..length)

\* What the calls returned, followed by what is in rbuff, is what Apache gave out, every
\* byte once and in order.
Whole == out \o left = [k \in 1..net |-> k]

Ended == net = length /\ left = <<>>

\* A handler that keeps to read(), or to readline() and readlines(), loses no byte,
\* whatever the lengths it asks for and however the body comes in; nor by stopping at the
\* first empty result, which it gets only when the body has ended.
Separate == "read" \notin use \/ use = {"read"}
NothingLost ==
    Separate /\ pc = "idle" =>
        /\ Whole
        /\ call.len # 0 /\ last = <<>> => Ended

\* "Reads at most len bytes directly from the client", "reads all data given by the
\* client" (Doc/pythonapi.rst), also after readline(), which is "like read".
AllReturned == pc = "idle" => Whole

\* Short blocks are made up for: read(n) returns n bytes unless the body ended.
ReadFull == pc = "idle" /\ call.op = "read" /\ call.len > 0 => Len(last) = call.len \/ Ended

\* "reads until end of line" (Doc/pythonapi.rst): a newline only ends a line, and a line
\* that has none is of the length asked for, or the end of the body.
WholeLines ==
    pc = "idle" /\ call.op = "line" /\ last # <<>> =>
        /\ \A k \in 1..Len(last) - 1 : last[k] \notin newlines
        /\ Last(last) \in newlines \/ Len(last) = call.len \/ Ended

\* Neither the result, of the length asked for, nor rbuff is written beyond its end.
InBounds == /\ pc = "idle" /\ call.want > 0 => Len(last) <= call.want
            /\ call.op = "read" => nread <= call.want /\ Len(buffer) <= call.want
            /\ call.op = "line" => nread <= RbuffLen

\* What a call returns is cut neither too short nor too long, nor in the wrong place.
FullResults == ReadFull /\ WholeLines /\ InBounds

\* "up to the completion of the line in which the sizehint bytes limit is reached"
\* (Doc/pythonapi.rst): the last line of readlines() is complete.
LinesComplete ==
    pc = "idle" /\ call.hint # NotLines /\ last # <<>> => Last(last) \in newlines \/ Ended

\* Every call comes back.
CallReturns == pc # "idle" ~> pc \in {"idle", "failed", "wild"}
=============================================================================
