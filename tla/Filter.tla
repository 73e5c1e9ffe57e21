------------------------------- MODULE Filter -------------------------------
(***************************************************************************)
(* A Python filter of a request: python_filter(), which Apache calls for   *)
(* every brigade, the filter object that it makes for each call, and       *)
(* FilterDispatch(), which runs the handler.  The next filter of the chain *)
(* and the code that calls the filter are the environment.                 *)
(*                                                                         *)
(* A byte is the number of its position in the stream, a bucket of a       *)
(* brigade a sequence of bytes or one of the marks Eos and Flush.          *)
(***************************************************************************)
EXTENDS Integers, Sequences, FiniteSetsExt, SequencesExt, Keeping

CONSTANTS
    MaxBytes,      \* length of the stream
    MaxBucket,     \* longest bucket
    HugeStringLen, \* HUGE_STRING_LEN, by which the buffer of read() grows
    Lens,          \* arguments of read() and readline()
    Newlines,      \* the sets of bytes that may be newlines
    FlushInside,   \* whether FLUSH buckets come before data of the same brigade
    MaxOps         \* calls in a behaviour of handlers that do not just copy

FilterAssumption ==
    /\ MaxBytes \in Nat /\ MaxBucket \in Nat \ {0} /\ HugeStringLen \in Nat \ {0}
    /\ Lens \subseteq Int /\ FlushInside \in BOOLEAN /\ MaxOps \in Nat

Eos   == -1
Flush == -2
Text  == -3     \* the error report of mod_python
Own   == -4     \* data a handler makes itself
Garbage == -5   \* what is in the memory of a string that was freed

VARIABLES
    conf,        \* [input, copy, debug, here, newlines, keeps]: fixed in a behaviour; keeps, if
                 \* handlers keep the strings they write until the next filter has had them
    registered,  \* the name is in req_config->in_filters or out_filters
    ctx,         \* [made, named, transparent]: f->ctx
    given, ended,\* bytes and end of stream the source has given so far
    pc, ops,
    bbIn, bbOut, closed, rc,  \* the filter object
    rd,          \* the read() under way: [line, len, size, out]
    got,         \* what the last read() returned
    failed,      \* the last use of the next filter in this call of python_filter() failed
    ret,         \* what python_filter() returned last
    clean,       \* no exception and no failure so far
    written,     \* what handlers wrote or passed on
    passed       \* what the filter passed to the next one, or to its caller, but for FLUSH

object  == <<bbIn, bbOut, closed, rc>>
setup   == <<conf, registered>>
source  == <<given, ended>>
history == <<clean, written, passed>>
vars == <<setup, ctx, source, pc, ops, object, rd, got, failed, ret, history>>

NoRead == [line |-> FALSE, len |-> 0, size |-> 0, out |-> <<>>]
Unread == [is |-> "unread", data |-> <<>>]
Eof    == [is |-> "eof", data |-> <<>>]
Got(d) == [is |-> "data", data |-> d]

IsData(b) == b[1] > 0
Data(items) == Keep(items, {i \in Int : i > 0 \/ i \in {Own, Garbage}})
Unmarked(items) == Keep(items, Int \ {Flush})

-----------------------------------------------------------------------------
(* What the source of the data may give next.                              *)

Bytes(i, j) == [k \in 1..(j - i + 1) |-> i + k - 1]

\* The ways to put the next n bytes into buckets: each byte begins one, or goes into the last.
Cuts(n) ==
    LET cut[m \in 0..n] ==
            IF m = 0 THEN {<<>>}
            ELSE {Append(c, <<given + m>>) : c \in cut[m - 1]} \cup
                 {Append(Front(c), Append(Last(c), given + m)) :
                     c \in {d \in cut[m - 1] : d # <<>> /\ Len(Last(d)) < MaxBucket}}
    IN  cut[n]

\* Code that writes a response may flush it; what comes from the client has no such mark.
WithFlush(b) == {b} \cup (IF ~conf.input \/ FlushInside THEN {Append(b, <<Flush>>)} ELSE {})
                    \cup (IF FlushInside THEN {<<<<Flush>>>> \o b} ELSE {})

\* A brigade with the next n bytes, flushed or not, at the end of the stream with EOS.
Brigade(n, eos) ==
    UNION {IF eos THEN {Append(f, <<Eos>>) : f \in IF FlushInside THEN WithFlush(c) ELSE {c}}
           ELSE WithFlush(c) : c \in Cuts(n)}

\* The source gives a brigade; behind the end of the stream an input filter gets EOS again.
Gives(b) ==
    \/ /\ ~ended
       /\ \E n \in 0..(MaxBytes - given), eos \in BOOLEAN :
            /\ eos => given + n = MaxBytes
            /\ n > 0 \/ eos
            /\ b \in Brigade(n, eos)
            /\ given' = given + n
            /\ ended' = eos
    \/ ended /\ conf.input /\ b = <<<<Eos>>>> /\ UNCHANGED source

\* All that Gives() may take, and more.
Brigades ==
    (UNION {Brigade(n, eos) : n \in 0..(MaxBytes - given), eos \in BOOLEAN}) \cup {<<<<Eos>>>>}

\* What the next filter had of a brigade when it fails: the first items.
Begun(items) == {SubSeq(items, 1, n) : n \in 0..Len(items)}

-----------------------------------------------------------------------------
Init ==
    /\ conf \in [input : BOOLEAN, copy : BOOLEAN, debug : BOOLEAN, here : BOOLEAN,
                 newlines : Newlines, keeps : BOOLEAN]
    /\ registered = FALSE
    /\ ctx = [made |-> FALSE, named |-> FALSE, transparent |-> FALSE]
    /\ given = 0 /\ ended = FALSE
    /\ pc = "open" /\ ops = 0
    /\ bbIn = <<>> /\ bbOut = <<>> /\ closed = FALSE /\ rc = "ok"
    /\ rd = NoRead /\ got = Unread
    /\ failed = FALSE /\ ret = "ok"
    /\ clean = TRUE /\ written = <<>> /\ passed = <<>>

\* req.register_input_filter() and req.register_output_filter().
RegisterFilter ==
    /\ pc \in {"open", "idle"} /\ ~registered /\ ~ctx.made
    /\ registered' = TRUE
    /\ UNCHANGED <<conf, ctx, source, pc, ops, object, rd, got, failed, ret, history>>

\* req.add_input_filter() and req.add_output_filter(): a name that is not registered with
\* the request is left to Apache, which knows those of the directives.
AddFilter ==
    /\ pc = "open"
    /\ ctx' = [ctx EXCEPT !.named = registered]
    /\ pc' = "idle"
    /\ UNCHANGED <<setup, source, ops, object, rd, got, failed, ret, history>>

Found == IF ctx.named THEN registered ELSE conf.here

\* MpFilter_FromFilter(): the given brigade is the one to read for an output filter, the
\* one to fill for an input filter.
NewFilter(b) ==
    /\ bbIn' = b /\ bbOut' = <<>> /\ closed' = FALSE /\ rc' = "ok"
    /\ rd' = NoRead /\ got' = Unread /\ failed' = FALSE

\* Transparent: python_filter() lets a brigade through, which the next filter takes or not.
Through(b) ==
    /\ LET items == Unmarked(FlattenSeq(b)) IN
       \/ /\ passed' = passed \o items /\ written' = written \o Data(FlattenSeq(b))
          /\ ret' = "ok" /\ failed' = FALSE /\ UNCHANGED clean
       \/ /\ ret' = "fail" /\ failed' = TRUE /\ clean' = FALSE
          /\ \E part \in Begun(items) : passed' = passed \o part
          /\ UNCHANGED written
    /\ UNCHANGED <<pc, ops, object, rd, got>>

\* The brigade is dropped: the filter is not in the tables of this directory and request, or
\* it is and there is no interpreter to be had.
Dropped ==
    /\ ret' = "error" /\ failed' = FALSE /\ clean' = FALSE
    /\ UNCHANGED <<pc, ops, object, rd, got, written, passed>>

Dispatched(b) ==
    /\ pc' = "handler"
    /\ NewFilter(b)
    /\ UNCHANGED <<ops, ret, history>>

MadeCtx == ctx' = [ctx EXCEPT !.made = TRUE]

\* python_output_filter(): the code before passes a brigade.
OutputCall ==
    /\ pc = "idle" /\ ~conf.input /\ ~ended
    /\ MadeCtx
    /\ \E b \in Brigades :
        /\ Gives(b)
        /\ \/ ctx.transparent /\ Through(b)
           \/ ~ctx.transparent /\ Dropped
           \/ ~ctx.transparent /\ Found /\ Dispatched(b)
    /\ UNCHANGED setup

\* python_input_filter(): the code behind wants a brigade.
InputCall ==
    /\ pc = "idle" /\ conf.input /\ ~(ended /\ Eos \in Range(passed))
    /\ MadeCtx
    /\ \/ /\ ctx.transparent
          /\ \E b \in Brigades : Gives(b) /\ Through(b)
       \/ ~ctx.transparent /\ Dropped /\ UNCHANGED source
       \/ ~ctx.transparent /\ Found /\ Dispatched(<<>>) /\ UNCHANGED source
    /\ UNCHANGED setup

-----------------------------------------------------------------------------
(* The methods of the filter object.  A handler that copies reads, writes  *)
(* what it got, and closes when it gets None, as the handlers of the       *)
(* documentation do; any other calls what it likes.                        *)

Calls(inCopy) ==
    /\ pc = "handler"
    /\ conf.copy => inCopy
    /\ ~conf.copy => ops < MaxOps
    /\ ops' = IF conf.copy THEN ops ELSE ops + 1

\* An exception leaves the handler. One that a method of the filter raises may be caught, but
\* by handlers that just copy.
Raised == pc' = "raised" /\ clean' = FALSE
Raises == Raised \/ (~conf.copy /\ pc' = "handler" /\ clean' = FALSE)

\* read() and readline() up to the loop.  An input filter asks for more first.
StartRead(line, len, b) ==
    IF b = <<>> THEN got' = Got(<<>>) /\ bbIn' = b /\ UNCHANGED <<pc, rd>>
    ELSE IF b[1] = <<Eos>> THEN got' = Eof /\ bbIn' = Tail(b) /\ UNCHANGED <<pc, rd>>
    ELSE /\ bbIn' = b /\ pc' = "reading"
         /\ rd' = [line |-> line, len |-> len, out |-> <<>>,
                   size |-> IF len < 0 THEN HugeStringLen ELSE len]
         /\ UNCHANGED got

\* ap_get_brigade() adds to bb_in, finds nothing yet, or fails.
Fetched(line, len) ==
    \/ /\ \E b \in Brigades : Gives(b) /\ StartRead(line, len, bbIn \o b)
       /\ rc' = "ok" /\ failed' = FALSE /\ UNCHANGED clean
    \/ /\ rc' = "again" /\ failed' = FALSE /\ StartRead(line, len, bbIn)
       /\ UNCHANGED <<source, clean>>
    \/ /\ rc' = "fail" /\ failed' = TRUE /\ Raises
       /\ UNCHANGED <<source, bbIn, rd, got>>

Read(line, len) ==
    /\ Calls(got.is = "unread" /\ len \notin {0} /\ len >= -1)
    /\ IF closed THEN Raises /\ UNCHANGED <<source, bbIn, rc, rd, got, failed>>
       ELSE IF conf.input THEN Fetched(line, len)
       ELSE StartRead(line, len, bbIn) /\ UNCHANGED <<source, rc, failed, clean>>
    /\ UNCHANGED <<setup, ctx, bbOut, closed, ret, written, passed>>

More == /\ Len(rd.out) < rd.len \/ rd.len = -1
        /\ bbIn # <<>> /\ IsData(bbIn[1])

Room == rd.size - Len(rd.out)

\* How many bytes of the first bucket are copied: what fits, up to a newline.
CopySize ==
    LET n  == Min({Len(bbIn[1]), Room})
        nl == {i \in 1..n : rd.line /\ bbIn[1][i] \in conf.newlines}
    IN  IF nl = {} THEN n ELSE Min(nl)

\* Fault: the bucket is deleted with what was not copied.
ReadBucketDropsRest ==
    /\ pc = "reading" /\ More
    /\ rd' = [rd EXCEPT !.out = @ \o SubSeq(bbIn[1], 1, CopySize)]
    /\ bbIn' = Tail(bbIn)
    /\ UNCHANGED <<setup, ctx, source, pc, ops, got, bbOut, closed, rc, failed, ret, history>>

\* A round of the loop.  What is not copied is split off and stays in bb_in.
ReadBucket ==
    /\ pc = "reading" /\ More
    /\ LET n    == CopySize
           b    == bbIn[1]
           out  == rd.out \o SubSeq(b, 1, n)
           line == rd.line /\ n > 0 /\ b[n] \in conf.newlines
       IN /\ bbIn' = (IF n < Len(b) THEN <<SubSeq(b, n + 1, Len(b))>> ELSE <<>>) \o Tail(bbIn)
          /\ rd' = [rd EXCEPT !.out = out,
                              !.size = IF ~line /\ rd.len < 0 /\ Len(out) = @
                                       THEN @ + HugeStringLen ELSE @]
          /\ IF line THEN pc' = "handler" /\ got' = Got(out) ELSE UNCHANGED <<pc, got>>
    /\ UNCHANGED <<setup, ctx, source, ops, bbOut, closed, rc, failed, ret, history>>

ReadEnds ==
    /\ pc = "reading" /\ ~More
    /\ pc' = "handler" /\ got' = Got(rd.out)
    /\ UNCHANGED <<setup, ctx, source, ops, object, rd, failed, ret, history>>

\* apr_bucket_read() fails: what was copied so far is gone with the result.
ReadFails ==
    /\ pc = "reading" /\ More
    /\ Raises
    /\ UNCHANGED <<setup, ctx, source, ops, object, rd, got, failed, ret, written, passed>>

\* What the memory of a string may hold when its bucket is passed: the string, if the handler
\* keeps it until then; else any of its bytes may have been written over.
Shown(d) ==
    IF conf.keeps THEN {d}
    ELSE {[i \in DOMAIN d |-> IF i \in over THEN Garbage ELSE d[i]] : over \in SUBSET DOMAIN d}

\* write() puts a bucket into bb_out that points to the string. What will be there when the
\* bucket is passed is chosen here, as nobody looks before.
Write ==
    /\ Calls(got.is = "data" /\ got.data # <<>>)
    /\ \E d \in IF conf.copy THEN {got.data} ELSE {got.data, <<Own>>} :
        IF closed THEN Raises /\ UNCHANGED <<bbOut, got, written>>
        ELSE /\ \E shown \in Shown(d) : bbOut' = bbOut \o shown
             /\ written' = written \o d /\ got' = Unread /\ UNCHANGED <<pc, clean>>
    /\ UNCHANGED <<setup, ctx, source, bbIn, closed, rc, rd, failed, ret, passed>>

\* Fault: the brigade is passed and not destroyed.
PassOutKeeps(items) ==
    /\ bbOut' = items
    /\ \/ passed' = passed \o Unmarked(items) /\ rc' = "ok" /\ failed' = FALSE
       \/ /\ rc' = "fail" /\ failed' = TRUE
          /\ \E part \in Begun(Unmarked(items)) : passed' = passed \o part

\* ap_pass_brigade() of bb_out, which is destroyed behind the call.
PassOut(items) ==
    /\ bbOut' = <<>>
    /\ \/ passed' = passed \o Unmarked(items) /\ rc' = "ok" /\ failed' = FALSE
       \/ /\ rc' = "fail" /\ failed' = TRUE
          /\ \E part \in Begun(Unmarked(items)) : passed' = passed \o part

\* flush() and what it passes; an input filter only marks its brigade.
FlushOut(items) ==
    IF conf.input
    THEN bbOut' = items /\ UNCHANGED <<passed, rc, failed>>
    ELSE PassOut(items)

FlushCall ==
    /\ Calls(FALSE)
    /\ FlushOut(Append(bbOut, Flush))
    /\ IF rc' = "fail" /\ ~conf.input THEN Raises ELSE UNCHANGED <<pc, clean>>
    /\ UNCHANGED <<setup, ctx, source, bbIn, closed, rd, got, ret, written>>

\* close(): the failure to pass the end of the stream raises nothing.
Close ==
    /\ Calls(got.is = "eof" /\ ~closed)
    /\ IF closed THEN UNCHANGED <<bbOut, passed, rc, failed, clean>>
       ELSE FlushOut(Append(bbOut, Eos)) /\ clean' = (clean /\ ~failed')
    /\ closed' = TRUE
    /\ UNCHANGED <<setup, ctx, source, pc, bbIn, rd, got, ret, written>>

\* Handlers do not call pass_on() behind data they wrote and did not flush, which it overtakes.
InTurn == conf.input \/ Data(bbOut) = <<>>

\* pass_on(): the brigade of an output filter goes to the next one as it is, that of an
\* input filter is filled by the one before.
PassOn ==
    /\ Calls(FALSE) /\ InTurn
    /\ IF conf.input
       THEN \/ /\ \E b \in Brigades :
                    /\ Gives(b)
                    /\ bbOut' = bbOut \o FlattenSeq(b)
                    /\ written' = written \o Data(FlattenSeq(b))
               /\ rc' = "ok" /\ failed' = FALSE /\ UNCHANGED <<passed, bbIn, clean>>
            \/ /\ rc' = "fail" /\ failed' = TRUE /\ clean' = FALSE
               /\ UNCHANGED <<source, bbIn, bbOut, written, passed>>
       ELSE /\ bbIn' = <<>>
            /\ LET items == Unmarked(FlattenSeq(bbIn)) IN
               \/ /\ passed' = passed \o items
                  /\ written' = written \o Data(FlattenSeq(bbIn))
                  /\ rc' = "ok" /\ failed' = FALSE /\ UNCHANGED clean
               \/ /\ \E part \in Begun(items) : passed' = passed \o part
                  /\ rc' = "fail" /\ failed' = TRUE /\ clean' = FALSE /\ UNCHANGED written
            /\ UNCHANGED <<source, bbOut>>
    /\ UNCHANGED <<setup, ctx, pc, closed, rd, got, ret>>

Disable ==
    /\ Calls(FALSE)
    /\ ctx' = [ctx EXCEPT !.transparent = TRUE]
    /\ UNCHANGED <<setup, source, pc, object, rd, got, failed, ret, history>>

-----------------------------------------------------------------------------
(* FilterDispatch() around the handler.                                    *)

\* Fault: python_filter() returns the status of FilterDispatch(), which is always OK.
LeaveOk(r) ==
    /\ pc' = "idle" /\ ret' = "ok"
    /\ rd' = NoRead /\ got' = Unread /\ bbIn' = <<>>

\* python_filter() returns; an input filter's caller has the brigade.
Leave(r) ==
    /\ pc' = "idle" /\ ret' = r
    /\ rd' = NoRead /\ got' = Unread /\ bbIn' = <<>>

\* What an input filter has put into the brigade of its caller.
ToCaller(items) == IF conf.input THEN passed \o Unmarked(items) ELSE passed

\* The handler returns: what it did not flush is flushed.
HandlerReturns ==
    /\ pc = "handler"
    /\ conf.copy => closed \/ got = Got(<<>>)
    /\ IF closed
       THEN /\ passed' = ToCaller(bbOut) /\ bbOut' = <<>>
            /\ Leave(rc) /\ UNCHANGED <<rc, failed, clean>>
       ELSE \/ /\ conf.input
               /\ passed' = ToCaller(Append(bbOut, Flush)) /\ bbOut' = <<>>
               /\ Leave(rc) /\ UNCHANGED <<rc, failed, clean>>
            \/ /\ ~conf.input
               /\ PassOut(Append(bbOut, Flush))
               /\ IF rc' = "fail" THEN Raised /\ UNCHANGED <<ret, rd, got, bbIn>>
                  ELSE Leave(rc') /\ UNCHANGED clean
    /\ UNCHANGED <<setup, ctx, source, ops, closed, written>>

\* SERVER_RETURN is swallowed, and what was written but not flushed with it.
ServerReturn ==
    /\ pc = "handler"
    /\ Leave(rc) /\ passed' = ToCaller(bbOut) /\ bbOut' = <<>> /\ clean' = FALSE
    /\ UNCHANGED <<setup, ctx, source, ops, closed, rc, failed, written>>

\* The handler cannot be imported, or raises any other exception.
HandlerRaises ==
    /\ pc = "handler" /\ Raised
    /\ UNCHANGED <<setup, ctx, source, ops, object, rd, got, failed, ret, written, passed>>

\* ReportError() writes to the filter and flushes it, which a closed filter refuses.
Report == IF conf.debug /\ ~closed THEN <<Text, Flush>> ELSE <<>>

\* The except clause: disable(), and with PythonDebug the report goes out through the filter,
\* behind what the handler wrote.
ReportError ==
    /\ pc = "raised"
    /\ ctx' = [ctx EXCEPT !.transparent = TRUE]
    /\ IF ~conf.input /\ Report # <<>>
       THEN PassOut(bbOut \o Report)
       ELSE passed' = ToCaller(bbOut \o Report) /\ bbOut' = <<>> /\ UNCHANGED <<rc, failed>>
    /\ Leave(rc')
    /\ UNCHANGED <<setup, source, ops, closed, clean, written>>

Next ==
    \/ RegisterFilter \/ AddFilter \/ OutputCall \/ InputCall
    \/ \E line \in BOOLEAN, len \in Lens : Read(line, len)
    \/ ReadBucket \/ ReadFails \/ ReadEnds \/ Write \/ FlushCall \/ Close \/ PassOn \/ Disable
    \/ HandlerReturns \/ ServerReturn \/ HandlerRaises \/ ReportError

Spec == Init /\ [][Next]_vars

-----------------------------------------------------------------------------
\* Every variable has its type; above all, brigades hold no empty buckets.
TypeOK ==
    /\ registered \in BOOLEAN /\ closed \in BOOLEAN
    /\ failed \in BOOLEAN /\ clean \in BOOLEAN /\ ended \in BOOLEAN
    /\ ctx \in [made : BOOLEAN, named : BOOLEAN, transparent : BOOLEAN]
    /\ given \in 0..MaxBytes /\ ops \in 0..MaxOps
    /\ pc \in {"open", "idle", "handler", "reading", "raised"}
    /\ rc \in {"ok", "again", "fail"} /\ ret \in {"ok", "again", "fail", "error"}
    /\ \A i \in DOMAIN bbIn : bbIn[i] # <<>>

\* What read() returns fits in its buffer, and no more than asked for, however buckets are
\* cut and the buffer grows (_filter_read).
InBounds ==
    /\ Len(rd.out) <= rd.size
    /\ rd.len >= 0 => Len(rd.out) <= rd.len
    /\ pc = "reading" /\ More => Room > 0

\* Between two calls, all that handlers wrote has reached the next filter once and in order,
\* whether they flush, close, pass on or leave it to FilterDispatch(), unless there was an
\* exception or a failure, or a string they wrote was gone before its bucket was passed.
Delivered == pc = "idle" /\ clean /\ conf.keeps => Data(passed) = written

\* Handlers that just copy let the whole stream through, if they keep the strings they write:
\* every byte the source gave, and the end of the stream once and last.
Copied ==
    pc = "idle" /\ clean /\ conf.copy /\ conf.keeps =>
        /\ Data(passed) = Bytes(1, given)
        /\ ended => Last(passed) = Eos
        /\ \A i \in DOMAIN passed : passed[i] = Eos => i = Len(passed) /\ ended

\* Whatever fails, is caught or gets into the error report, nothing reaches the next filter
\* twice: what it had of a brigade before it failed is not given again.
NothingTwice ==
    \A i, j \in DOMAIN passed : passed[i] > 0 /\ passed[i] = passed[j] => i = j

\* python_filter() returns a failure just when the last use of the next filter failed, which
\* may be that of the error report: one that is caught, or that close() keeps to itself, is
\* only hidden by a use that works.
FailureReturned == pc = "idle" => (ret = "fail" <=> failed)
=============================================================================
