-------------------------- MODULE Dispatch_proofs --------------------------
(***************************************************************************)
(* Proofs about Dispatch, for any configuration and any handlers: what     *)
(* HandlerDispatch() calls is what the list names. The look-up may leave   *)
(* obj as it was, but only for a silent entry, and of those there is none  *)
(* behind the first of a list: hlist_copy() forgets the flag,              *)
(* req.add_handler() never sets it, and in front of the first entry obj is *)
(* not set yet. For the order in which handlers run, the names in the list *)
(* of the phase are compared with what is due in it, and what has run with *)
(* the beginning of the list.                                              *)
(***************************************************************************)
EXTENDS Dispatch, Keeping_proofs

-----------------------------------------------------------------------------
(* The inductive invariant.                                                *)

\* Entries behind the first of the present list are not silent, nor are those added.
SilentFirst ==
    /\ \A k \in 2..Len(hlist) : ~hlist[k].silent
    /\ \A p \in Phases : \A k \in 1..Len(dyn[p]) : ~dyn[p][k].silent

\* obj is not set before the first look-up.
UnsetAtFirst == pc # "running" /\ pos = 1 => obj = Unset

\* Outside of HandlerDispatch() there is no position in a list.
AtStart == pc \in {"apache", "over"} => pos = 1

\* A handler that runs has a place in the list.
RunningInList == pc = "running" => pos <= Len(hlist)

IInv == TypeOK /\ SilentFirst /\ UnsetAtFirst /\ AtStart /\ RunningInList /\ CalledIsListed

-----------------------------------------------------------------------------
(* The phases are in Order once each.                                      *)
LEMMA PhaseType ==
    ASSUME NEW k \in DOMAIN Order
    PROVE  Order[k] \in Phases /\ Place(Order[k]) = k
<1>1. DOMAIN Order = 1..12
  BY DEF Order
<1>2. \A i, j \in 1..12 : Order[i] = Order[j] => i = j
  BY DEF Order
<1>3. Order[k] \in Phases
  BY <1>1 DEF Order, Phases
<1> QED
  BY <1>1, <1>2, <1>3 DEF Place

(* The logging phase is one of them.                                       *)
LEMMA LogPlace == Place("log") = 11 /\ Len(Order) = 12 /\ DOMAIN Order = 1..12
<1>1. Order[11] = "log" /\ DOMAIN Order = 1..12 /\ Len(Order) = 12
  BY DEF Order
<1> QED
  BY <1>1, PhaseType

(* What is configured for a phase is a list of entries.                    *)
LEMMA ConfiguredType ==
    ASSUME TypeOK, NEW p \in Phases
    PROVE  Configured(p) \in Seq(Entry)
BY ConfAssumption DEF TypeOK, Configured

(* hlist_copy() keeps the number of entries, and only the first is silent. *)
LEMMA CopyType ==
    ASSUME NEW l \in Seq(Entry)
    PROVE  /\ Copy(l) \in Seq(Entry) /\ Len(Copy(l)) = Len(l)
           /\ \A k \in 2..Len(l) : ~Copy(l)[k].silent
<1>1. ASSUME NEW k \in 1..Len(l)
      PROVE  Copy(l)[k] \in Entry /\ (k # 1 => ~Copy(l)[k].silent)
  <2>1. k \in DOMAIN l
    OBVIOUS
  <2>2. PICK e \in Entry : e = l[k]
    OBVIOUS
  <2>3. CASE k = 1
    BY <2>1, <2>2, <2>3 DEF Copy
  <2>4. CASE k # 1
    <3>1. Copy(l)[k] = [e EXCEPT !.silent = FALSE]
      BY <2>1, <2>2, <2>4 DEF Copy
    <3> QED
      BY <3>1, <2>2 DEF Entry
  <2> QED
    BY <2>3, <2>4
<1>2. DOMAIN Copy(l) = 1..Len(l) /\ Copy(l) = [k \in 1..Len(l) |-> Copy(l)[k]]
  BY DEF Copy
<1>3. Copy(l) \in [1..Len(l) -> Entry]
  BY <1>1, <1>2
<1>4. Copy(l) \in Seq(Entry) /\ Len(Copy(l)) = Len(l)
  BY <1>3, <1>2
<1> QED
  BY <1>1, <1>4

(* The list of a phase: only its first entry is silent.                    *)
LEMMA HandlersType ==
    ASSUME TypeOK, SilentFirst, NEW p \in Phases
    PROVE  /\ Handlers(p) \in Seq(Entry)
           /\ \A k \in 2..Len(Handlers(p)) : ~Handlers(p)[k].silent
<1>1. PICK c \in Seq(Entry) : c = Configured(p)
  BY ConfiguredType
<1>2. PICK d \in Seq(Entry) : d = dyn[p]
  BY DEF TypeOK
<1>3. \A k \in 1..Len(d) : ~d[k].silent
  BY <1>2 DEF SilentFirst
<1>4. CASE c = <<>>
  <2>1. Handlers(p) = Copy(d)
    BY <1>1, <1>2, <1>4 DEF Handlers
  <2>2. Copy(d) \in Seq(Entry) /\ Len(Copy(d)) = Len(d) /\ \A k \in 2..Len(d) : ~Copy(d)[k].silent
    BY CopyType
  <2> QED
    BY <2>1, <2>2
<1>5. CASE c # <<>>
  <2>1. PICK e \in Seq(Entry) : e = Copy(c) /\ Len(e) = Len(c) /\ \A k \in 2..Len(e) : ~e[k].silent
    BY CopyType
  <2>2. Handlers(p) = e \o d
    BY <1>1, <1>2, <1>5, <2>1 DEF Handlers
  <2>3. e \o d \in Seq(Entry) /\ Len(e \o d) = Len(e) + Len(d)
    OBVIOUS
  <2>4. ASSUME NEW k \in 2..Len(e \o d) PROVE ~(e \o d)[k].silent
    <3>1. CASE k <= Len(e)
      BY <3>1, <2>1, <2>3
    <3>2. CASE k > Len(e)
      <4>1. (e \o d)[k] = d[k - Len(e)] /\ k - Len(e) \in 1..Len(d)
        BY <3>2, <2>3
      <4> QED
        BY <4>1, <1>3
    <3> QED
      BY <3>1, <3>2
  <2> QED
    BY <2>2, <2>3, <2>4
<1> QED
  BY <1>4, <1>5

(* Where a phase goes when it is answered.                                 *)
LEMMA AnswerType ==
    ASSUME TypeOK, NEW r \in Statuses \cup {"refused", "noInterpreter"}, Answer(r)
    PROVE  /\ at' \in DOMAIN Order /\ pc' \in {"apache", "over"}
           /\ answer' \in [Phases -> Statuses \cup {"none", "refused", "noInterpreter"}]
<1>1. phase \in Phases /\ Place(phase) = at /\ at \in 1..12
  BY PhaseType, LogPlace DEF TypeOK, phase
<1>2. at # 12 => After(phase, r) \in 1..12
  BY <1>1, LogPlace DEF After
<1> QED
  BY <1>1, <1>2, LogPlace DEF TypeOK, Answer

(* HandlerDispatch() returns.                                              *)
LEMMA DoneType ==
    ASSUME TypeOK, NEW r \in Statuses, Done(r)
    PROVE  /\ at' \in DOMAIN Order /\ pc' \in {"apache", "over"}
           /\ answer' \in [Phases -> Statuses \cup {"none", "refused", "noInterpreter"}]
           /\ hlist' = <<>> /\ pos' = 1 /\ obj' = Unset /\ result' = "ERROR"
<1>1. Returned(r) \in Statuses
  BY DEF Returned, Statuses
<1> QED
  BY <1>1, AnswerType DEF Done

-----------------------------------------------------------------------------
LEMMA InitIInv == Init => IInv
<1> SUFFICES ASSUME Init PROVE IInv
  OBVIOUS
<1>1. 1 \in DOMAIN Order
  BY LogPlace
<1>2. TypeOK
  <2>1. /\ conf \in Configs /\ at \in DOMAIN Order
        /\ pc \in {"apache", "find", "running", "over"}
        /\ hlist \in Seq(Entry) /\ pos \in 1..Len(hlist) + 1
        /\ obj \in Handler \cup {Unset, None} /\ result \in Statuses
    BY <1>1 DEF Init, Statuses
  <2>2. dyn \in [Phases -> Seq(Entry)]
    BY DEF Init
  <2>3. answer \in [Phases -> Statuses \cup {"none", "refused", "noInterpreter"}]
    BY DEF Init
  <2>4. /\ ran \in Seq([phase : Phases, h : Handler, r : Statuses])
        /\ added \in Seq([phase : Phases, h : Handler])
    BY DEF Init
  <2>5. made \in BOOLEAN /\ user \in BOOLEAN
    BY DEF Init
  <2> QED
    BY <2>1, <2>2, <2>3, <2>4, <2>5 DEF TypeOK
<1>3. SilentFirst /\ UnsetAtFirst /\ AtStart /\ RunningInList /\ CalledIsListed
  BY DEF Init, SilentFirst, UnsetAtFirst, AtStart, RunningInList, CalledIsListed
<1> QED
  BY <1>2, <1>3 DEF IInv

(* Apache goes on without Python.                                          *)
LEMMA SkipIInv == IInv /\ (Skip \/ NoHandler \/ NoInterpreter) => IInv'
<1> SUFFICES ASSUME IInv, Skip \/ NoHandler \/ NoInterpreter PROVE IInv'
  OBVIOUS
<1>1. PICK r \in Statuses \cup {"refused", "noInterpreter"} : Answer(r)
  BY DEF Skip, NoHandler, NoInterpreter, Statuses
<1>2. /\ at' \in DOMAIN Order /\ pc' \in {"apache", "over"}
      /\ answer' \in [Phases -> Statuses \cup {"none", "refused", "noInterpreter"}]
  BY <1>1, AnswerType DEF IInv
<1>3. pc = "apache" /\ UNCHANGED <<conf, hlist, pos, obj, result, dyn, made, user, ran, added>>
  BY DEF Skip, NoHandler, NoInterpreter
<1>4. TypeOK'
  BY <1>2, <1>3 DEF IInv, TypeOK
<1>5. SilentFirst' /\ UnsetAtFirst' /\ AtStart' /\ RunningInList' /\ CalledIsListed'
  BY <1>2, <1>3 DEF IInv, SilentFirst, UnsetAtFirst, AtStart, RunningInList, CalledIsListed
<1> QED
  BY <1>4, <1>5 DEF IInv

(* A list is made.                                                         *)
LEMMA DispatchIInv == IInv /\ Dispatch => IInv'
<1> SUFFICES ASSUME IInv, Dispatch PROVE IInv'
  OBVIOUS
<1>1. phase \in Phases
  BY PhaseType DEF IInv, TypeOK, phase
<1>2. PICK l \in Seq(Entry) : /\ l = Handlers(phase)
                              /\ \A k \in 2..Len(l) : ~l[k].silent
  BY <1>1, HandlersType DEF IInv
<1>3. /\ hlist' = l /\ made' = TRUE /\ pc' = "find" /\ pc = "apache"
      /\ UNCHANGED <<conf, at, pos, obj, result, dyn, user, answer, ran, added>>
  BY <1>2 DEF Dispatch
<1>4. pos' = 1 /\ obj' = Unset
  BY <1>3 DEF IInv, AtStart, UnsetAtFirst
<1>5. TypeOK'
  BY <1>2, <1>3, <1>4 DEF IInv, TypeOK
<1>6. SilentFirst'
  BY <1>2, <1>3 DEF IInv, SilentFirst
<1>7. UnsetAtFirst' /\ AtStart' /\ RunningInList' /\ CalledIsListed'
  BY <1>3, <1>4 DEF UnsetAtFirst, AtStart, RunningInList, CalledIsListed
<1> QED
  BY <1>5, <1>6, <1>7 DEF IInv

(* A list is left.                                                         *)
LEMMA DoneIInv ==
    ASSUME IInv, NEW r \in Statuses, Done(r),
           UNCHANGED <<conf, dyn, made, user, added>>,
           ran' \in Seq([phase : Phases, h : Handler, r : Statuses])
    PROVE  IInv'
<1>1. /\ at' \in DOMAIN Order /\ pc' \in {"apache", "over"}
      /\ answer' \in [Phases -> Statuses \cup {"none", "refused", "noInterpreter"}]
      /\ hlist' = <<>> /\ pos' = 1 /\ obj' = Unset /\ result' = "ERROR"
  BY DoneType DEF IInv
<1>2. TypeOK'
  BY <1>1 DEF IInv, TypeOK, Statuses
<1>3. SilentFirst'
  BY <1>1 DEF IInv, SilentFirst
<1>4. UnsetAtFirst' /\ AtStart' /\ RunningInList' /\ CalledIsListed'
  BY <1>1 DEF UnsetAtFirst, AtStart, RunningInList, CalledIsListed
<1> QED
  BY <1>2, <1>3, <1>4 DEF IInv

LEMMA ListLeftIInv == IInv /\ (FindFails \/ ListEnds) => IInv'
<1> SUFFICES ASSUME IInv, FindFails \/ ListEnds PROVE IInv'
  OBVIOUS
<1>1. PICK r \in Statuses : Done(r)
  BY DEF FindFails, ListEnds, Statuses, IInv, TypeOK
<1>2. UNCHANGED <<conf, dyn, made, user, ran, added>>
  BY DEF FindFails, ListEnds
<1> QED
  BY <1>1, <1>2, DoneIInv DEF IInv, TypeOK

(* What is found is what the entry names: were it missing it would be      *)
(* silent, so the first, in front of which obj is not set.                 *)
LEMMA FoundExists == ASSUME IInv, Find PROVE entry.h \in Existing
<1> SUFFICES ASSUME entry.h \notin Existing PROVE FALSE
  OBVIOUS
<1>1. pc = "find" /\ pos <= Len(hlist) /\ ~Missing /\ LookedUp \in Handler
  BY DEF Find
<1>2. pos \in 1..Len(hlist)
  BY <1>1 DEF IInv, TypeOK
<1>3. entry.silent
  BY <1>1 DEF Missing
<1>4. pos = 1
  BY <1>2, <1>3 DEF entry, IInv, SilentFirst
<1>5. obj = Unset
  BY <1>1, <1>4 DEF IInv, UnsetAtFirst
<1> QED
  BY <1>1, <1>5, NoneAssumption DEF LookedUp

LEMMA FindIInv == IInv /\ Find => IInv'
<1> SUFFICES ASSUME IInv, Find PROVE IInv'
  OBVIOUS
<1>1. /\ pc = "find" /\ pos <= Len(hlist) /\ LookedUp \in Handler
      /\ obj' = LookedUp /\ pc' = "running"
      /\ UNCHANGED <<conf, at, hlist, pos, result, dyn, made, user, answer, ran, added>>
  BY DEF Find
<1>2. obj' = hlist[pos].h
  BY <1>1, FoundExists DEF LookedUp, entry
<1>3. TypeOK'
  BY <1>1 DEF IInv, TypeOK
<1>4. SilentFirst' /\ UnsetAtFirst' /\ AtStart' /\ RunningInList' /\ CalledIsListed'
  BY <1>1, <1>2 DEF IInv, SilentFirst, UnsetAtFirst, AtStart, RunningInList, CalledIsListed
<1> QED
  BY <1>3, <1>4 DEF IInv

LEMMA FindNoneIInv == IInv /\ FindNone => IInv'
<1> SUFFICES ASSUME IInv, FindNone PROVE IInv'
  OBVIOUS
<1>1. /\ pc = "find" /\ pos <= Len(hlist) /\ obj' = None /\ pos' = pos + 1
      /\ result' \in {"DECLINED", result}
      /\ UNCHANGED <<conf, at, pc, hlist, dyn, made, user, answer, ran, added>>
  BY DEF FindNone
<1>2. pos' \in 1..Len(hlist) + 1 /\ pos' # 1 /\ pos \in 1..Len(hlist)
  BY <1>1 DEF IInv, TypeOK
<1>3. TypeOK'
  BY <1>1, <1>2 DEF IInv, TypeOK, Statuses
<1>4. SilentFirst' /\ UnsetAtFirst' /\ AtStart' /\ RunningInList' /\ CalledIsListed'
  BY <1>1, <1>2 DEF IInv, SilentFirst, UnsetAtFirst, AtStart, RunningInList, CalledIsListed
<1> QED
  BY <1>3, <1>4 DEF IInv

(* A handler returns.                                                      *)
LEMMA HandlerReturnsIInv ==
    ASSUME IInv, NEW r \in Statuses, HandlerReturns(r)
    PROVE  IInv'
<1>1. phase \in Phases
  BY PhaseType DEF IInv, TypeOK, phase
<1>2. pc = "running" /\ pos \in 1..Len(hlist)
  BY DEF HandlerReturns, IInv, TypeOK, RunningInList
<1>3. obj \in Handler
  <2>1. hlist[pos] \in Entry
    BY <1>2 DEF IInv, TypeOK
  <2> QED
    BY <1>2, <2>1 DEF IInv, CalledIsListed, Entry
<1>4. ran' \in Seq([phase : Phases, h : Handler, r : Statuses])
  BY <1>1, <1>3 DEF HandlerReturns, IInv, TypeOK
<1>5. UNCHANGED <<conf, dyn, made, user, added>>
  BY DEF HandlerReturns
<1>6. CASE r \in Expected(phase)
  <2>1. /\ result' = r /\ pos' = pos + 1 /\ pc' = "find"
        /\ UNCHANGED <<at, hlist, obj, answer>>
    BY <1>6 DEF HandlerReturns
  <2>2. TypeOK'
    BY <1>2, <1>4, <1>5, <2>1 DEF IInv, TypeOK
  <2>3. SilentFirst' /\ UnsetAtFirst' /\ AtStart' /\ RunningInList' /\ CalledIsListed'
    BY <1>2, <1>5, <2>1
       DEF IInv, SilentFirst, UnsetAtFirst, AtStart, RunningInList, CalledIsListed
  <2> QED
    BY <2>2, <2>3 DEF IInv
<1>7. CASE r \notin Expected(phase)
  BY <1>4, <1>5, <1>7, DoneIInv DEF HandlerReturns
<1> QED
  BY <1>6, <1>7

LEMMA SetUserIInv == IInv /\ SetUser => IInv'
BY DEF SetUser, IInv, TypeOK, SilentFirst, UnsetAtFirst, AtStart, RunningInList, CalledIsListed

(* What a handler adds is not silent.                                      *)
LEMMA AddHandlerIInv ==
    ASSUME IInv, NEW p \in Phases, NEW h \in Handler, AddHandler(p, h)
    PROVE  IInv'
<1>1. PICK e \in Entry : e = NewEntry(h) /\ ~e.silent
  <2>1. NewEntry(h) \in Entry
    BY DEF NewEntry, Entry
  <2>2. NewEntry(h).silent = FALSE
    BY DEF NewEntry
  <2> QED
    BY <2>1, <2>2
<1>2. /\ pc = "running" /\ Added(p, h)
      /\ added' = Append(added, [phase |-> p, h |-> h])
      /\ UNCHANGED <<conf, at, pc, pos, obj, result, made, user, answer, ran>>
  BY DEF AddHandler
<1>3. added' \in Seq([phase : Phases, h : Handler])
  BY <1>2 DEF IInv, TypeOK
<1>4. CASE p = phase
  <2>1. PICK l \in Seq(Entry) : l = hlist
    BY DEF IInv, TypeOK
  <2>2. hlist' = Append(l, e) /\ UNCHANGED dyn
    BY <1>1, <1>2, <1>4, <2>1 DEF Added
  <2>3. /\ Append(l, e) \in Seq(Entry) /\ Len(Append(l, e)) = Len(l) + 1
        /\ \A k \in 1..Len(l) : Append(l, e)[k] = l[k]
        /\ Append(l, e)[Len(l) + 1] = e
    OBVIOUS
  <2>4. pos \in 1..Len(l)
    BY <1>2, <2>1 DEF IInv, TypeOK, RunningInList
  <2>5. TypeOK'
    BY <1>2, <1>3, <2>2, <2>3, <2>4 DEF IInv, TypeOK
  <2>6. \A k \in 2..Len(hlist') : ~hlist'[k].silent
    <3> SUFFICES ASSUME NEW k \in 2..Len(hlist') PROVE ~hlist'[k].silent
      OBVIOUS
    <3>1. k \in 2..Len(l) \/ k = Len(l) + 1
      BY <2>2, <2>3
    <3> QED
      BY <3>1, <1>1, <2>1, <2>2, <2>3 DEF IInv, SilentFirst
  <2>7. SilentFirst'
    BY <2>2, <2>6 DEF IInv, SilentFirst
  <2>8. UnsetAtFirst' /\ AtStart' /\ RunningInList' /\ CalledIsListed'
    BY <1>2, <2>1, <2>2, <2>3, <2>4
       DEF IInv, UnsetAtFirst, AtStart, RunningInList, CalledIsListed
  <2> QED
    BY <2>5, <2>7, <2>8 DEF IInv
<1>5. CASE p # phase
  <2>1. PICK l \in Seq(Entry) : l = dyn[p]
    BY DEF IInv, TypeOK
  <2>2. dyn' = [dyn EXCEPT ![p] = Append(l, e)] /\ UNCHANGED hlist
    BY <1>1, <1>2, <1>5, <2>1 DEF Added
  <2>3. /\ Append(l, e) \in Seq(Entry) /\ Len(Append(l, e)) = Len(l) + 1
        /\ \A k \in 1..Len(l) : Append(l, e)[k] = l[k]
        /\ Append(l, e)[Len(l) + 1] = e
    OBVIOUS
  <2>4. TypeOK'
    BY <1>2, <1>3, <2>2, <2>3 DEF IInv, TypeOK
  <2>5. \A k \in 1..Len(Append(l, e)) : ~Append(l, e)[k].silent
    BY <1>1, <2>1, <2>3 DEF IInv, SilentFirst
  <2>6. SilentFirst'
    BY <2>2, <2>5 DEF IInv, TypeOK, SilentFirst
  <2>7. UnsetAtFirst' /\ AtStart' /\ RunningInList' /\ CalledIsListed'
    BY <1>2, <2>2 DEF IInv, UnsetAtFirst, AtStart, RunningInList, CalledIsListed
  <2> QED
    BY <2>4, <2>6, <2>7 DEF IInv
<1> QED
  BY <1>4, <1>5

LEMMA NextIInv == IInv /\ [Next]_vars => IInv'
<1> SUFFICES ASSUME IInv, [Next]_vars PROVE IInv'
  OBVIOUS
<1>1. CASE Skip \/ NoHandler \/ NoInterpreter
  BY <1>1, SkipIInv
<1>2. CASE Dispatch
  BY <1>2, DispatchIInv
<1>3. CASE InDispatch
  BY <1>3, FindIInv, ListLeftIInv, FindNoneIInv DEF InDispatch
<1>4. ASSUME NEW r \in Statuses, HandlerReturns(r) PROVE IInv'
  BY <1>4, HandlerReturnsIInv
<1>5. CASE SetUser
  BY <1>5, SetUserIInv
<1>6. ASSUME NEW p \in Phases, NEW h \in Handler, AddHandler(p, h) PROVE IInv'
  BY <1>6, AddHandlerIInv
<1>7. CASE UNCHANGED vars
  BY <1>7 DEF vars, IInv, TypeOK, SilentFirst, UnsetAtFirst, AtStart, RunningInList, CalledIsListed
<1> QED
  BY <1>1, <1>2, <1>3, <1>4, <1>5, <1>6, <1>7 DEF Next

-----------------------------------------------------------------------------
(* The invariant holds at all times, for any configuration.                *)
THEOREM InvariantHolds == Spec => []IInv
BY InitIInv, NextIInv, PTL DEF Spec

(* Every variable keeps its type.                                          *)
THEOREM TypeCorrect == Spec => []TypeOK
<1>1. IInv => TypeOK
  BY DEF IInv
<1> QED
  BY InvariantHolds, <1>1, PTL

(* What HandlerDispatch() calls is the function the list names.            *)
THEOREM Called == Spec => []CalledIsListed
<1>1. IInv => CalledIsListed
  BY DEF IInv
<1> QED
  BY InvariantHolds, <1>1, PTL

-----------------------------------------------------------------------------
(***************************************************************************)
(* Refusals: after one, only the phases that log and clean up are left.    *)
(***************************************************************************)
Approval == {"OK", "DECLINED"}

\* PythonAuthenHandler with PythonAuthoritative Off may refuse, and the request goes on.
Waived(e) == e.phase = "authen" /\ e.r = "UNAUTHORIZED" /\ ~conf.authoritative

\* The phase of a handler that refused is over, and Apache has gone on to the log.
Behind(e) == /\ e.phase \in Phases
             /\ e.r \notin Approval =>
                  /\ pc = "over" \/ Place(e.phase) < at
                  /\ Waived(e) \/ Place("log") <= at

RefusedBehind == \A j \in DOMAIN ran : Behind(ran[j])

\* Apache takes no request for authentic without a user.
UserKnown == answer["authen"] = "OK" => user

RInv == UserKnown /\ RefusedBehind /\ RefusalStands

(* Apache goes on from a phase, to one behind it.                          *)
LEMMA AnswerForward ==
    ASSUME TypeOK, NEW r \in Statuses \cup {"refused", "noInterpreter"}, Answer(r)
    PROVE  /\ pc' = "over" \/ at < at'
           /\ at <= at'
           /\ r \notin Approval => Place("log") <= at'
<1>1. phase \in Phases /\ Place(phase) = at /\ at \in 1..12
  BY PhaseType, LogPlace DEF TypeOK, phase
<1> QED
  BY <1>1, LogPlace DEF Answer, After, Approval

(* What has run stays behind when Apache goes on.                          *)
LEMMA StaysBehind ==
    ASSUME TypeOK, at <= at', at' \in DOMAIN Order, pc = "over" => pc' = "over", conf' = conf,
           NEW e, Behind(e)
    PROVE  Behind(e)'
<1>1. at \in 1..12 /\ at' \in 1..12
  BY LogPlace DEF TypeOK
<1>2. PICK k \in 1..12 : k = Place(e.phase)
  <2>1. e.phase \in Phases
    BY DEF Behind
  <2>2. \A p \in Phases : \E k \in 1..12 : Order[k] = p
    BY DEF Phases, Order
  <2> QED
    BY <2>1, <2>2, PhaseType, LogPlace
<1> QED
  BY <1>1, <1>2, LogPlace DEF Behind, Waived

(* Nothing has run.                                                        *)
LEMMA SameRan ==
    ASSUME RInv, ran' = ran, conf' = conf, UserKnown', RefusedBehind'
    PROVE  RInv'
<1>1. RefusalStands'
  BY DEF RInv, RefusalStands, UserKnown
<1> QED
  BY <1>1 DEF RInv

(* A phase is answered, and nothing has run.                               *)
LEMMA AnswerRInv ==
    ASSUME IInv, RInv, NEW r \in Statuses \cup {"refused", "noInterpreter"}, Answer(r), pc # "over",
           phase = "authen" /\ r = "OK" => user, UNCHANGED <<conf, user, ran>>
    PROVE  RInv'
<1>1. /\ at' \in DOMAIN Order /\ at <= at' /\ answer' = [answer EXCEPT ![phase] = r]
  BY AnswerType, AnswerForward DEF IInv, Answer
<1>2. RefusedBehind'
  BY <1>1, StaysBehind DEF IInv, RInv, RefusedBehind
<1>3. UserKnown'
  BY <1>1 DEF RInv, UserKnown, IInv, TypeOK
<1> QED
  BY <1>2, <1>3, SameRan

(* The status that HandlerDispatch() returns is no approval of a request   *)
(* without a user.                                                         *)
LEMMA ReturnedType ==
    ASSUME NEW r \in Statuses
    PROVE  /\ Returned(r) \in Statuses
           /\ phase = "authen" /\ Returned(r) = "OK" => user
           /\ r \notin Approval =>
                \/ Returned(r) = r
                \/ phase = "authen" /\ r = "UNAUTHORIZED" /\ ~conf.authoritative
BY DEF Returned, Statuses, Approval

(* A handler returns: those before it that refused are of earlier phases.  *)
LEMMA HandlerReturnsRInv ==
    ASSUME IInv, RInv, NEW r \in Statuses, HandlerReturns(r)
    PROVE  RInv'
<1> DEFINE n == Len(ran) + 1
<1>0. PICK e : e = [phase |-> phase, h |-> obj, r |-> r]
  OBVIOUS
<1>1. phase \in Phases /\ Place(phase) = at /\ at \in 1..12
  BY PhaseType, LogPlace DEF IInv, TypeOK, phase
<1>2. /\ pc = "running" /\ ran' = Append(ran, e) /\ conf' = conf /\ user' = user
      /\ ran \in Seq([phase : Phases, h : Handler, r : Statuses])
  BY <1>0 DEF HandlerReturns, IInv, TypeOK
<1>3. /\ DOMAIN ran = 1..Len(ran) /\ DOMAIN ran' = 1..n /\ n \in Nat
      /\ \A k \in DOMAIN ran : ran'[k] = ran[k]
      /\ ran'[n] = e
  BY <1>2
<1>4. \A k \in DOMAIN ran' : k \in DOMAIN ran \/ k = n
  BY <1>3
<1>5. ASSUME NEW j \in DOMAIN ran, ran[j].r \notin Approval
      PROVE  ran[j].phase # phase /\ (Waived(ran[j]) \/ phase \in {"log", "cleanup"})
  <2>1. Place(ran[j].phase) < at /\ (Waived(ran[j]) \/ Place("log") <= at)
    BY <1>2, <1>5 DEF RInv, RefusedBehind, Behind
  <2>2. at >= 11 => phase \in {"log", "cleanup"}
    <3>1. at >= 11 => at = 11 \/ at = 12
      BY <1>1
    <3>2. Order[11] = "log" /\ Order[12] = "cleanup"
      BY DEF Order
    <3> QED
      BY <3>1, <3>2 DEF phase
  <2> QED
    BY <1>1, <2>1, <2>2, LogPlace
<1>6. UserKnown' /\ at <= at' /\ at' \in DOMAIN Order /\ (r \notin Approval => Behind(e)')
  <2>1. CASE r \in Expected(phase)
    <3>1. UNCHANGED <<at, answer>> /\ r \in Approval
      BY <2>1 DEF HandlerReturns, Expected, Approval
    <3> QED
      BY <1>1, <1>2, <3>1, LogPlace DEF RInv, UserKnown
  <2>2. CASE r \notin Expected(phase)
    <3>1. PICK s \in Statuses : s = Returned(r) /\ Answer(s)
      BY <2>2, ReturnedType DEF HandlerReturns, Done
    <3>2. /\ at' \in DOMAIN Order /\ answer' = [answer EXCEPT ![phase] = s]
          /\ pc' = "over" \/ at < at'
          /\ at <= at'
          /\ s \notin Approval => Place("log") <= at'
      BY <3>1, AnswerType, AnswerForward DEF IInv, Answer
    <3>3. UserKnown'
      BY <1>2, <3>1, <3>2, ReturnedType DEF RInv, UserKnown, IInv, TypeOK
    <3>4. r \notin Approval => Behind(e)'
      <4>1. r \notin Approval => s = r \/ Waived(e)
        BY <1>0, <3>1, ReturnedType DEF Waived
      <4> QED
        BY <1>0, <1>1, <1>2, <3>2, <4>1 DEF Behind, Waived
    <3> QED
      BY <3>2, <3>3, <3>4
  <2> QED
    BY <2>1, <2>2
<1>7. Behind(e)'
  BY <1>0, <1>1, <1>6 DEF Behind
<1>8. RefusedBehind'
  <2>1. \A f : Behind(f) => Behind(f)'
    BY <1>2, <1>6, StaysBehind DEF IInv
  <2>2. \A k \in DOMAIN ran' : \E f : f = ran'[k] /\ Behind(f)'
    BY <1>3, <1>4, <1>7, <2>1 DEF RInv, RefusedBehind
  <2> QED
    BY <2>2 DEF RefusedBehind, Behind, Waived
<1>9. \A j, k \in DOMAIN ran' : j < k /\ ran'[j].r \notin Approval =>
           /\ ran'[k].phase # ran'[j].phase
           /\ ran'[k].phase \in {"log", "cleanup"} \/ Waived(ran'[j])
  <2> SUFFICES ASSUME NEW j \in DOMAIN ran', NEW k \in DOMAIN ran', j < k, ran'[j].r \notin Approval
               PROVE  /\ ran'[k].phase # ran'[j].phase
                      /\ ran'[k].phase \in {"log", "cleanup"} \/ Waived(ran'[j])
    OBVIOUS
  <2>1. j \in DOMAIN ran /\ ran'[j] = ran[j]
    <3>1. j \in 1..n /\ k \in 1..n /\ n \in Nat
      BY <1>3
    <3> QED
      BY <1>2, <1>3, <3>1
  <2>2. CASE k \in DOMAIN ran
    <3>1. ran'[k] = ran[k]
      BY <1>3, <2>2
    <3> QED
      BY <2>1, <2>2, <3>1 DEF RInv, RefusalStands, Approval, Waived
  <2>3. CASE k = n
    <3>1. ran'[k].phase = phase
      BY <1>0, <1>3, <2>3
    <3> QED
      BY <1>5, <2>1, <3>1
  <2> QED
    BY <1>4, <2>2, <2>3
<1>10. RefusalStands'
  BY <1>2, <1>6, <1>9 DEF RefusalStands, UserKnown, Approval, Waived
<1> QED
  BY <1>6, <1>8, <1>10 DEF RInv

LEMMA NextRInv == IInv /\ RInv /\ [Next]_vars => RInv'
<1> SUFFICES ASSUME IInv, RInv, [Next]_vars PROVE RInv'
  OBVIOUS
<1>1. CASE Skip \/ NoHandler \/ NoInterpreter
  <2>1. PICK r \in {"DECLINED", "refused", "noInterpreter"} : Answer(r)
    BY <1>1 DEF Skip, NoHandler, NoInterpreter
  <2>2. pc = "apache" /\ UNCHANGED <<conf, user, ran>>
    BY <1>1 DEF Skip, NoHandler, NoInterpreter
  <2>3. r \in Statuses \cup {"refused", "noInterpreter"} /\ r # "OK"
    BY <2>1 DEF Statuses
  <2> QED
    BY <2>1, <2>2, <2>3, AnswerRInv
<1>2. CASE FindFails \/ ListEnds
  <2>1. PICK r \in Statuses : Done(r)
    BY <1>2 DEF FindFails, ListEnds, Statuses, IInv, TypeOK
  <2>2. pc = "find" /\ UNCHANGED <<conf, user, ran>>
    BY <1>2 DEF FindFails, ListEnds
  <2> QED
    BY <2>1, <2>2, AnswerRInv, ReturnedType DEF Done
<1>3. ASSUME UNCHANGED <<conf, at, answer, ran>>, user => user', pc = "over" => pc' = "over" PROVE RInv'
  <2>1. UserKnown'
    BY <1>3 DEF RInv, UserKnown
  <2>2. at \in DOMAIN Order /\ at <= at'
    BY <1>3, LogPlace DEF IInv, TypeOK
  <2>3. RefusedBehind'
    BY <1>3, <2>2, StaysBehind DEF IInv, RInv, RefusedBehind
  <2> QED
    BY <1>3, <2>1, <2>3, SameRan
<1>4. CASE Dispatch \/ Find \/ FindNone \/ SetUser
  BY <1>3, <1>4 DEF Dispatch, Find, FindNone, SetUser
<1>5. ASSUME NEW r \in Statuses, HandlerReturns(r) PROVE RInv'
  BY <1>5, HandlerReturnsRInv
<1>6. ASSUME NEW p \in Phases, NEW h \in Handler, AddHandler(p, h) PROVE RInv'
  BY <1>3, <1>6 DEF AddHandler
<1>7. CASE UNCHANGED vars
  BY <1>3, <1>7 DEF vars
<1> QED
  BY <1>1, <1>2, <1>4, <1>5, <1>6, <1>7 DEF Next, InDispatch

(* A handler that refuses the request, or fails, is the last but for those *)
(* that log and clean up, whatever is configured and added; and no request *)
(* is taken for authentic before there is a user.                          *)
THEOREM Refusals == Spec => []RefusalStands
<1>1. Init => RInv
  <2> SUFFICES ASSUME Init PROVE RInv
    OBVIOUS
  <2>1. DOMAIN ran = {} /\ answer["authen"] = "none"
    BY DEF Init, Phases
  <2> QED
    BY <2>1 DEF RInv, UserKnown, RefusedBehind, RefusalStands
<1>2. RInv => RefusalStands
  BY DEF RInv
<1> QED
  BY InvariantHolds, NextRInv, <1>1, <1>2, PTL DEF Spec

-----------------------------------------------------------------------------
(* The order in which handlers run.                                        *)

\* A phase whose list has not been made.
Coming(p) == Place(p) > at \/ (Place(p) = at /\ pc = "apache")

\* In a phase to come nothing has run, and what was added for it waits in dyn.
NotYet ==
    \A p \in Phases : Coming(p) =>
        RanIn(p) = <<>> /\ answer[p] = "none" /\ Names(dyn[p]) = Names(OfPhase(added, p))

\* The list of the phase under way is what is due in it; what has run are the handlers of it
\* that exist, up to the present one.
Underway ==
    pc \in {"find", "running"} =>
        /\ Names(hlist) = DueIn(phase)
        /\ RanIn(phase) = Keep(SubSeq(Names(hlist), 1, pos - 1), Existing)
        /\ answer[phase] = "none"
        /\ pc = "running" => hlist[pos].h \in Existing

\* What RunInOrder says of one phase.
Stopped(p) == Last(OfPhase(ran, p)).r \notin Expected(p) \/ answer[p] \in {"ERROR", "DONE"}
InOrder(p) ==
    /\ IsPrefix(RanIn(p), Keep(DueIn(p), Existing))
    /\ answer[p] # "none" /\ RanIn(p) # <<>> => RanIn(p) = Keep(DueIn(p), Existing) \/ Stopped(p)

OInv == NotYet /\ Underway /\ \A p \in Phases : InOrder(p)

LEMMA OrderIs == RunInOrder <=> \A p \in Phases : InOrder(p)
BY DEF RunInOrder, InOrder, Stopped

RanSet   == [phase : Phases, h : Handler, r : Statuses]
AddSet   == [phase : Phases, h : Handler]
HNames   == Seq(Handler)

(* What is of a phase grows with what is added at the end.                 *)
LEMMA OfPhaseFacts ==
    ASSUME NEW V, NEW p
    PROVE  /\ OfPhase(<<>>, p) = <<>>
           /\ \A s \in Seq(V) : OfPhase(s, p) \in Seq(V)
           /\ \A s \in Seq(V), x \in V :
                 OfPhase(Append(s, x), p) = IF x.phase = p THEN Append(OfPhase(s, p), x) ELSE OfPhase(s, p)
<1> DEFINE P == {e \in V : e.phase = p}
<1>1. OfPhase(<<>>, p) = <<>>
  BY KeepEmpty DEF OfPhase
<1>2. ASSUME NEW s \in Seq(V) PROVE OfPhase(s, p) = Keep(s, P)
  <2> DEFINE R == Range(s)
             A == {e \in R : e.phase = p}
  <2>1. s \in Seq(R) /\ R \subseteq V
    <3>1. DOMAIN s = 1..Len(s) /\ \A i \in DOMAIN s : s[i] \in V
      OBVIOUS
    <3> QED
      BY <3>1 DEF Range
  <2>2. R \cap A = R \cap P
    BY <2>1
  <2> HIDE DEF A, P, R
  <2>3. Keep(s, A) = Keep(s, P)
    BY <2>1, <2>2, KeepSame
  <2> QED
    BY <2>3 DEF OfPhase, A, R
<1>3. ASSUME NEW s \in Seq(V), NEW x \in V
      PROVE  OfPhase(Append(s, x), p) = IF x.phase = p THEN Append(OfPhase(s, p), x) ELSE OfPhase(s, p)
  <2>1. Append(s, x) \in Seq(V)
    OBVIOUS
  <2>2. x \in P <=> x.phase = p
    OBVIOUS
  <2> HIDE DEF P
  <2>3. Keep(Append(s, x), P) = IF x \in P THEN Append(Keep(s, P), x) ELSE Keep(s, P)
    BY KeepAppend
  <2> QED
    BY <1>2, <2>1, <2>2, <2>3
<1>4. ASSUME NEW s \in Seq(V) PROVE OfPhase(s, p) \in Seq(V)
  <2> HIDE DEF P
  <2> QED
    BY <1>2, <1>4, KeepType
<1> QED
  BY <1>1, <1>3, <1>4

(* The names of entries, of what ran and of what was added.                *)
LEMMA NamesFacts ==
    ASSUME NEW V, \A e \in V : e.h \in Handler
    PROVE  /\ Names(<<>>) = <<>>
           /\ \A s \in Seq(V) : /\ Names(s) \in HNames /\ Len(Names(s)) = Len(s)
                                /\ \A k \in 1..Len(s) : Names(s)[k] = s[k].h
           /\ \A s \in Seq(V), x \in V : Names(Append(s, x)) = Append(Names(s), x.h)
<1>1. Names(<<>>) = <<>>
  BY DEF Names
<1>2. ASSUME NEW s \in Seq(V)
      PROVE  Names(s) \in HNames /\ Len(Names(s)) = Len(s) /\ \A k \in 1..Len(s) : Names(s)[k] = s[k].h
  <2>1. Names(s) = [k \in 1..Len(s) |-> s[k].h] /\ Len(s) \in Nat
    BY DEF Names
  <2>2. \A k \in 1..Len(s) : s[k].h \in Handler
    OBVIOUS
  <2>3. Names(s) \in [1..Len(s) -> Handler]
    BY <2>1, <2>2
  <2> QED
    BY <2>1, <2>3 DEF HNames
<1>3. ASSUME NEW s \in Seq(V), NEW x \in V PROVE Names(Append(s, x)) = Append(Names(s), x.h)
  <2> DEFINE a == Append(s, x)
             n == Names(s)
             m == Append(n, x.h)
  <2>1. a \in Seq(V) /\ Len(a) = Len(s) + 1 /\ a[Len(s) + 1] = x /\ Len(s) \in Nat /\ \A k \in 1..Len(s) : a[k] = s[k]
    OBVIOUS
  <2>2. n \in Seq(Handler) /\ Len(n) = Len(s) /\ \A k \in 1..Len(s) : n[k] = s[k].h
    BY <1>2 DEF HNames
  <2>3. Names(a) \in Seq(Handler) /\ Len(Names(a)) = Len(a) /\ \A k \in 1..Len(a) : Names(a)[k] = a[k].h
    BY <1>2, <2>1 DEF HNames
  <2>4. x.h \in Handler
    OBVIOUS
  <2> HIDE DEF n
  <2>5. m \in Seq(Handler) /\ Len(m) = Len(s) + 1 /\ m[Len(s) + 1] = x.h /\ \A k \in 1..Len(s) : m[k] = n[k]
    BY <2>2, <2>4
  <2> HIDE DEF a, m
  <2>6. \A k \in 1..Len(s) + 1 : Names(a)[k] = m[k]
    BY <2>1, <2>2, <2>3, <2>5
  <2>7. Names(a) = m
    BY <2>1, <2>3, <2>5, <2>6, SeqEqual
  <2> QED
    BY <2>7 DEF a, m, n
<1> QED
  BY <1>1, <1>2, <1>3

(* The beginnings of a list of names.                                      *)
LEMMA Beginnings ==
    ASSUME NEW a \in HNames, NEW k \in 0..Len(a)
    PROVE  /\ SubSeq(a, 1, k) \in HNames /\ SubSeq(a, 1, Len(a)) = a /\ SubSeq(a, 1, 0) = <<>>
           /\ IsPrefix(Keep(SubSeq(a, 1, k), Existing), Keep(a, Existing))
           /\ k < Len(a) => SubSeq(a, 1, k + 1) = Append(SubSeq(a, 1, k), a[k + 1])
           /\ \A x \in Handler : SubSeq(Append(a, x), 1, k) = SubSeq(a, 1, k)
<1>0. a \in Seq(Handler) /\ Len(a) \in Nat /\ k \in Nat /\ k <= Len(a)
  BY DEF HNames
<1>1. SubSeq(a, 1, k) \in HNames /\ Len(SubSeq(a, 1, k)) = k /\ \A i \in 1..k : SubSeq(a, 1, k)[i] = a[i]
  BY <1>0, SubSeqProperties DEF HNames
<1>2. SubSeq(a, 1, Len(a)) = a
  BY <1>0
<1>3. SubSeq(a, 1, 0) = <<>>
  BY <1>0
<1>4. IsPrefix(Keep(SubSeq(a, 1, k), Existing), Keep(a, Existing))
  <2> DEFINE b == SubSeq(a, 1, k)
             c == SubSeq(a, k + 1, Len(a))
             x == Keep(b, Existing)
             y == Keep(c, Existing)
  <2>1. c \in Seq(Handler) /\ Len(c) = Len(a) - k /\ \A i \in 1..Len(a) - k : c[i] = a[k + i]
    BY <1>0, SubSeqProperties
  <2>2. b \in Seq(Handler) /\ Len(b) = k /\ \A i \in 1..k : b[i] = a[i]
    BY <1>1 DEF HNames
  <2> HIDE DEF b, c
  <2> DEFINE z == b \o c
  <2>3. z \in Seq(Handler) /\ Len(z) = Len(b) + Len(c)
        /\ \A i \in 1..Len(b) + Len(c) : z[i] = IF i <= Len(b) THEN b[i] ELSE c[i - Len(b)]
    BY <2>1, <2>2, ConcatProperties
  <2> HIDE DEF z
  <2>4. \A i \in 1..Len(z) : z[i] = a[i]
    <3> SUFFICES ASSUME NEW i \in 1..Len(a) PROVE z[i] = a[i]
      BY <1>0, <2>1, <2>2, <2>3
    <3>1. CASE i <= k
      BY <1>0, <3>1, <2>1, <2>2, <2>3
    <3>2. CASE i > k
      <4>1. i - k \in 1..Len(a) - k /\ k + (i - k) = i
        BY <3>2, <1>0
      <4> QED
        BY <3>2, <4>1, <2>1, <2>2, <2>3, <1>0
    <3> QED
      BY <3>1, <3>2, <1>0
  <2>5. z = a
    <3>1. Len(z) = Len(a)
      BY <1>0, <2>1, <2>2, <2>3
    <3> QED
      BY <1>0, <2>3, <2>4, <3>1, SeqEqual
  <2>6. Keep(a, Existing) = x \o y
    <3>1. Keep(z, Existing) = x \o y
      BY <2>1, <2>2, KeepConcat DEF z
    <3> QED
      BY <2>5, <3>1
  <2>7. x \in Seq(Handler) /\ y \in Seq(Handler)
    BY <2>1, <2>2, KeepType
  <2> HIDE DEF x, y
  <2>8. IsPrefix(x, x \o y)
    <3>1. x \o y \in Seq(Handler) /\ Len(x \o y) = Len(x) + Len(y) /\ Len(x) \in Nat /\ Len(y) \in Nat
          /\ \A i \in 1..Len(x) : (x \o y)[i] = x[i]
      BY <2>7, ConcatProperties
    <3>2. SubSeq(x, 1, Len(x)) = x
      BY <2>7
    <3> DEFINE w == x \o y
    <3>3. w \in Seq(Handler) /\ Len(w) = Len(x) + Len(y) /\ \A i \in 1..Len(x) : w[i] = x[i]
      BY <3>1
    <3> HIDE DEF w
    <3>4. SubSeq(w, 1, Len(x)) \in Seq(Handler) /\ Len(SubSeq(w, 1, Len(x))) = Len(x)
          /\ \A i \in 1..Len(x) : SubSeq(w, 1, Len(x))[i] = w[i]
      BY <3>1, <3>3, SubSeqProperties
    <3>5. SubSeq(w, 1, Len(x)) = x
      BY <2>7, <3>3, <3>4, SeqEqual
    <3>6. IsPrefix(x, w)
      BY <3>1, <3>2, <3>3, <3>5 DEF IsPrefix
    <3> QED
      BY <3>6 DEF w
  <2> QED
    BY <2>6, <2>8 DEF x, b
<1>5. ASSUME k < Len(a) PROVE SubSeq(a, 1, k + 1) = Append(SubSeq(a, 1, k), a[k + 1])
  <2> DEFINE b == SubSeq(a, 1, k)
             c == SubSeq(a, 1, k + 1)
             d == Append(b, a[k + 1])
  <2>1. c \in Seq(Handler) /\ Len(c) = k + 1 /\ \A i \in 1..k + 1 : c[i] = a[i]
    BY <1>0, <1>5, SubSeqProperties
  <2>2. b \in Seq(Handler) /\ Len(b) = k /\ \A i \in 1..k : b[i] = a[i]
    BY <1>1 DEF HNames
  <2>3. a[k + 1] \in Handler
    BY <1>0, <1>5
  <2> HIDE DEF b, c
  <2>4. d \in Seq(Handler) /\ Len(d) = k + 1 /\ d[k + 1] = a[k + 1] /\ \A i \in 1..k : d[i] = b[i]
    BY <1>0, <2>2, <2>3
  <2> HIDE DEF d
  <2>5. \A i \in 1..k + 1 : c[i] = d[i]
    BY <1>0, <2>1, <2>2, <2>4
  <2>6. c = d
    BY <2>1, <2>4, <2>5, SeqEqual
  <2> QED
    BY <2>6 DEF b, c, d
<1>6. ASSUME NEW x \in Handler PROVE SubSeq(Append(a, x), 1, k) = SubSeq(a, 1, k)
  <2> DEFINE b == Append(a, x)
  <2>1. b \in Seq(Handler) /\ Len(b) = Len(a) + 1 /\ \A i \in 1..Len(a) : b[i] = a[i]
    BY <1>0
  <2> HIDE DEF b
  <2>2. SubSeq(b, 1, k) \in Seq(Handler) /\ Len(SubSeq(b, 1, k)) = k /\ \A i \in 1..k : SubSeq(b, 1, k)[i] = b[i]
    BY <1>0, <2>1, SubSeqProperties
  <2>3. SubSeq(a, 1, k) \in Seq(Handler) /\ \A i \in 1..k : SubSeq(b, 1, k)[i] = SubSeq(a, 1, k)[i]
    BY <1>0, <1>1, <2>1, <2>2 DEF HNames
  <2>4. SubSeq(b, 1, k) = SubSeq(a, 1, k)
    BY <1>1, <2>2, <2>3, SeqEqual
  <2> QED
    BY <2>4 DEF b
<1> QED
  BY <1>1, <1>2, <1>3, <1>4, <1>5, <1>6

(* hlist_copy() keeps the names, and lists are joined.                     *)
LEMMA HandlersNames ==
    ASSUME TypeOK, NEW p \in Phases
    PROVE  Names(Handlers(p)) = Names(Configured(p)) \o Names(dyn[p])
<1>0. \A e \in Entry : e.h \in Handler
  BY DEF Entry
<1>1. ASSUME NEW l \in Seq(Entry) PROVE Names(Copy(l)) = Names(l)
  <2>1. Copy(l) \in Seq(Entry) /\ Len(Copy(l)) = Len(l)
    BY CopyType
  <2>2. \A k \in 1..Len(l) : Copy(l)[k].h = l[k].h
    <3> SUFFICES ASSUME NEW k \in 1..Len(l) PROVE Copy(l)[k].h = l[k].h
      OBVIOUS
    <3>1. k \in DOMAIN l
      OBVIOUS
    <3>2. PICK e \in Entry : e = l[k]
      OBVIOUS
    <3>3. Copy(l)[k] = e \/ Copy(l)[k] = [e EXCEPT !.silent = FALSE]
      BY <3>1, <3>2 DEF Copy
    <3> QED
      BY <3>2, <3>3 DEF Entry
  <2> DEFINE c == Copy(l)
  <2>3. c \in Seq(Entry) /\ Len(c) = Len(l) /\ \A k \in 1..Len(l) : c[k].h = l[k].h
    BY <2>1, <2>2
  <2> HIDE DEF c
  <2>4. /\ Names(c) \in Seq(Handler) /\ Len(Names(c)) = Len(c) /\ \A k \in 1..Len(c) : Names(c)[k] = c[k].h
        /\ Names(l) \in Seq(Handler) /\ Len(Names(l)) = Len(l) /\ \A k \in 1..Len(l) : Names(l)[k] = l[k].h
    BY <1>0, <2>3, NamesFacts DEF HNames
  <2>5. Names(c) = Names(l)
    BY <2>3, <2>4, SeqEqual
  <2> QED
    BY <2>5 DEF c
<1>2. ASSUME NEW e \in Seq(Entry), NEW f \in Seq(Entry) PROVE Names(e \o f) = Names(e) \o Names(f)
  <2> DEFINE both == e \o f
             m == Names(e)
             n == Names(f)
             joined == m \o n
  <2>1. both \in Seq(Entry) /\ Len(both) = Len(e) + Len(f) /\ Len(e) \in Nat /\ Len(f) \in Nat
        /\ \A k \in 1..Len(e) + Len(f) : both[k] = IF k <= Len(e) THEN e[k] ELSE f[k - Len(e)]
    BY ConcatProperties
  <2>2. /\ m \in Seq(Handler) /\ Len(m) = Len(e) /\ \A k \in 1..Len(e) : m[k] = e[k].h
        /\ n \in Seq(Handler) /\ Len(n) = Len(f) /\ \A k \in 1..Len(f) : n[k] = f[k].h
    BY <1>0, NamesFacts DEF HNames
  <2> HIDE DEF both, m, n
  <2>3. joined \in Seq(Handler) /\ Len(joined) = Len(m) + Len(n)
        /\ \A k \in 1..Len(m) + Len(n) : joined[k] = IF k <= Len(m) THEN m[k] ELSE n[k - Len(m)]
    <3>1. m \in Seq(Handler) /\ n \in Seq(Handler)
      BY <2>2
    <3>2. Len(m \o n) = Len(m) + Len(n) /\ m \o n \in Seq(Handler)
      BY <3>1, ConcatProperties
    <3>3. \A k \in 1..Len(m) + Len(n) : (m \o n)[k] = IF k <= Len(m) THEN m[k] ELSE n[k - Len(m)]
      BY <3>1, ConcatProperties
    <3> QED
      BY <3>2, <3>3
  <2>4. Names(both) \in Seq(Handler) /\ Len(Names(both)) = Len(both) /\ \A k \in 1..Len(both) : Names(both)[k] = both[k].h
    BY <1>0, <2>1, NamesFacts DEF HNames
  <2> HIDE DEF joined
  <2>5. \A k \in 1..Len(e) + Len(f) : Names(both)[k] = joined[k]
    <3> SUFFICES ASSUME NEW k \in 1..Len(e) + Len(f) PROVE Names(both)[k] = joined[k]
      OBVIOUS
    <3>0. k \in 1..Len(both) /\ k \in 1..Len(m) + Len(n) /\ Len(m) = Len(e) /\ Names(both)[k] = both[k].h
      BY <2>1, <2>2, <2>4
    <3>1. CASE k <= Len(e)
      <4>1. both[k] = e[k] /\ k \in 1..Len(e)
        BY <2>1, <3>1
      <4>2. joined[k] = m[k]
        BY <2>3, <3>0, <3>1
      <4>3. m[k] = e[k].h
        BY <2>2, <4>1
      <4> QED
        BY <3>0, <4>1, <4>2, <4>3
    <3>2. CASE k > Len(e)
      <4>1. k - Len(e) \in 1..Len(f) /\ ~(k <= Len(e))
        BY <2>1, <3>2
      <4>2. both[k] = f[k - Len(e)]
        BY <2>1, <4>1
      <4>3. joined[k] = n[k - Len(m)]
        BY <2>3, <3>0, <4>1
      <4>4. n[k - Len(e)] = f[k - Len(e)].h
        BY <2>2, <4>1
      <4> QED
        BY <3>0, <4>2, <4>3, <4>4
    <3> QED
      BY <2>1, <3>1, <3>2
  <2>6. Names(both) = joined
    <3>1. Len(Names(both)) = Len(joined) /\ Len(joined) = Len(e) + Len(f)
      BY <2>1, <2>2, <2>3, <2>4
    <3> QED
      BY <2>3, <2>4, <2>5, <3>1, SeqEqual
  <2> QED
    BY <2>6 DEF joined, both, m, n
<1>3. PICK c \in Seq(Entry) : c = Configured(p)
  BY ConfiguredType
<1>4. PICK d \in Seq(Entry) : d = dyn[p]
  BY DEF TypeOK
<1>5. CASE c = <<>>
  <2>1. Names(Handlers(p)) = Names(d)
    BY <1>1, <1>3, <1>4, <1>5 DEF Handlers
  <2>2. Names(c) = <<>> /\ Names(d) \in Seq(Handler)
    BY <1>0, <1>5, NamesFacts DEF HNames
  <2>3. Names(c) \o Names(d) = Names(d)
    BY <2>2, ConcatEmptySeq
  <2> QED
    BY <1>3, <1>4, <2>1, <2>3
<1>6. CASE c # <<>>
  <2>1. Handlers(p) = Copy(c) \o d /\ Copy(c) \in Seq(Entry)
    BY <1>3, <1>4, <1>6, CopyType DEF Handlers
  <2> QED
    BY <1>1, <1>2, <1>3, <1>4, <2>1
<1> QED
  BY <1>5, <1>6

LEMMA Placed == \A p \in Phases : Place(p) \in 1..12 /\ Order[Place(p)] = p
<1> SUFFICES ASSUME NEW p \in Phases PROVE Place(p) \in 1..12 /\ Order[Place(p)] = p
  OBVIOUS
<1>1. \E k \in 1..12 : Order[k] = p
  BY DEF Phases, Order
<1> QED
  BY <1>1, PhaseType, LogPlace

(* The lists that are compared are sequences of names.                     *)
LEMMA Typed ==
    /\ \A e \in Entry : e.h \in Handler
    /\ \A e \in RanSet : e.h \in Handler
    /\ \A e \in AddSet : e.h \in Handler
BY DEF Entry, RanSet, AddSet

LEMMA OrderTypes ==
    ASSUME TypeOK, NEW p \in Phases
    PROVE  /\ OfPhase(ran, p) \in Seq(RanSet) /\ RanIn(p) \in HNames
           /\ Names(OfPhase(added, p)) \in HNames /\ Names(Configured(p)) \in HNames
           /\ DueIn(p) \in HNames
           /\ hlist \in Seq(Entry) /\ Names(hlist) \in HNames /\ Len(Names(hlist)) = Len(hlist)
           /\ \A k \in 1..Len(hlist) : Names(hlist)[k] = hlist[k].h
<1>1. ran \in Seq(RanSet) /\ added \in Seq(AddSet) /\ hlist \in Seq(Entry)
  BY DEF TypeOK, RanSet, AddSet
<1>2. OfPhase(ran, p) \in Seq(RanSet) /\ OfPhase(added, p) \in Seq(AddSet)
  BY <1>1, OfPhaseFacts
<1>3. RanIn(p) \in HNames /\ Names(OfPhase(added, p)) \in HNames
  BY <1>2, Typed, NamesFacts DEF RanIn
<1>4. Configured(p) \in Seq(Entry)
  BY ConfiguredType
<1>5. Names(Configured(p)) \in HNames
  BY <1>4, Typed, NamesFacts
<1>6. DueIn(p) \in HNames
  <2>1. \A x, y \in HNames : x \o y \in HNames
    BY ConcatProperties DEF HNames
  <2> QED
    BY <1>3, <1>5, <2>1 DEF DueIn
<1>7. /\ Names(hlist) \in HNames /\ Len(Names(hlist)) = Len(hlist)
      /\ \A k \in 1..Len(hlist) : Names(hlist)[k] = hlist[k].h
  BY <1>1, Typed, NamesFacts
<1> QED
  BY <1>1, <1>2, <1>3, <1>5, <1>6, <1>7

LEMMA DueType ==
    ASSUME conf' \in Configs, added' \in Seq(AddSet), NEW p \in Phases
    PROVE  DueIn(p)' \in HNames
<1>1. Configured(p)' \in Seq(Entry)
  BY ConfAssumption DEF Configured
<1>2. Names(Configured(p)') \in HNames /\ Names(OfPhase(added', p)) \in HNames
  <2>1. OfPhase(added', p) \in Seq(AddSet)
    BY OfPhaseFacts
  <2> QED
    BY <1>1, <2>1, Typed, NamesFacts
<1>3. \A x, y \in HNames : x \o y \in HNames
  BY ConcatProperties DEF HNames
<1>4. DueIn(p)' = Names(Configured(p)') \o Names(OfPhase(added', p))
  BY DEF DueIn
<1> QED
  BY <1>2, <1>3, <1>4

(* What is due in a phase does not change once it has begun.               *)
LEMMA DueSame ==
    ASSUME conf' = conf, NEW p \in Phases, p \in {"init", "postread", "trans"} \/ answer'["trans"] = answer["trans"]
    PROVE  /\ Configured(p)' = Configured(p)
           /\ OfPhase(added', p) = OfPhase(added, p) => DueIn(p)' = DueIn(p)
<1>1. Configured(p)' = Configured(p)
  BY DEF Configured, DirKnown
<1>2. DueIn(p)' = Names(Configured(p)') \o Names(OfPhase(added', p))
  BY DEF DueIn
<1> QED
  BY <1>1, <1>2 DEF DueIn

(* A phase in which nothing happens, and one in which nothing has run.     *)
LEMMA InOrderSame ==
    ASSUME conf' = conf, NEW p \in Phases, p \in {"init", "postread", "trans"} \/ answer'["trans"] = answer["trans"],
           OfPhase(ran', p) = OfPhase(ran, p), OfPhase(added', p) = OfPhase(added, p), answer'[p] = answer[p],
           InOrder(p)
    PROVE  InOrder(p)'
<1>1. DueIn(p)' = DueIn(p)
  BY DueSame
<1>2. RanIn(p)' = RanIn(p)
  BY DEF RanIn
<1>3. Stopped(p)' <=> Stopped(p)
  BY DEF Stopped
<1> QED
  BY <1>1, <1>2, <1>3 DEF InOrder

LEMMA InOrderEmpty ==
    ASSUME conf' \in Configs, added' \in Seq(AddSet), NEW p \in Phases, RanIn(p)' = <<>>
    PROVE  InOrder(p)'
<1> DEFINE d == Keep(DueIn(p)', Existing)
<1>1. d \in Seq(Handler)
  BY DueType, KeepType DEF HNames
<1> HIDE DEF d
<1>2. IsPrefix(<<>>, d)
  <2>1. Len(<<>>) = 0 /\ Len(d) \in Nat /\ SubSeq(<<>>, 1, 0) = <<>> /\ SubSeq(d, 1, 0) = <<>>
    BY <1>1
  <2> QED
    BY <2>1 DEF IsPrefix
<1> QED
  BY <1>2 DEF d, InOrder

(* A phase is answered.                                                    *)
LEMMA AnswerOrder ==
    ASSUME TypeOK, OInv, NEW now \in Phases, now = phase, NEW r \in Statuses \cup {"refused", "noInterpreter"}, Answer(r), pc # "over",
           conf' = conf, added' = added, dyn' = dyn, \A q \in Phases \ {now} : OfPhase(ran', q) = OfPhase(ran, q),
           IsPrefix(RanIn(now)', Keep(DueIn(now), Existing)),
           RanIn(now)' # <<>> => \/ RanIn(now)' = Keep(DueIn(now), Existing)
                                 \/ Last(OfPhase(ran', now)).r \notin Expected(now)
                                 \/ r \in {"ERROR", "DONE"}
    PROVE  OInv'
<1>0. now = phase /\ Place(now) = at /\ at \in 1..12 /\ Order[at] = now
  BY PhaseType, LogPlace DEF TypeOK, phase
<1>1. answer' = [answer EXCEPT ![now] = r] /\ (pc' = "over" \/ at < at') /\ at <= at' /\ pc' \in {"apache", "over"}
      /\ at' \in 1..12
  BY <1>0, AnswerForward, AnswerType, LogPlace DEF Answer
<1>2. answer \in [Phases -> Statuses \cup {"none", "refused", "noInterpreter"}] /\ conf' \in Configs /\ added' \in Seq(AddSet)
  BY DEF TypeOK, AddSet
<1>3. answer'[now] = r /\ \A q \in Phases \ {now} : answer'[q] = answer[q]
  BY <1>1, <1>2
<1>4. \A q \in Phases \ {now} : Place(q) < at \/ Place(q) > at
  BY <1>0, Placed
<1>5. \A q \in Phases : Place(q) <= at => q \in {"init", "postread", "trans"} \/ answer'["trans"] = answer["trans"]
  <2> SUFFICES ASSUME NEW q \in Phases, Place(q) <= at, answer'["trans"] # answer["trans"]
               PROVE  q \in {"init", "postread", "trans"}
    OBVIOUS
  <2>1. now = "trans"
    BY <1>3 DEF Phases
  <2>2. at = 3
    <3>1. Order[3] = "trans" /\ 3 \in DOMAIN Order
      BY LogPlace DEF Order
    <3> QED
      BY <1>0, <2>1, <3>1, PhaseType
  <2>3. Place(q) \in 1..3 /\ Order[Place(q)] = q
    BY <2>2, Placed
  <2>4. Order[1] = "init" /\ Order[2] = "postread" /\ Order[3] = "trans"
    BY DEF Order
  <2> QED
    BY <2>3, <2>4
<1>6. NotYet'
  <2> SUFFICES ASSUME NEW q \in Phases, Coming(q)'
               PROVE  RanIn(q)' = <<>> /\ answer'[q] = "none" /\ Names(dyn'[q]) = Names(OfPhase(added', q))
    BY DEF NotYet
  <2>1. Place(q) > at
    BY <1>0, <1>1, Placed DEF Coming
  <2>2. q # now /\ Coming(q)
    BY <1>0, <2>1, Placed DEF Coming
  <2>3. RanIn(q)' = RanIn(q)
    BY <1>0, <2>2 DEF RanIn
  <2> QED
    BY <1>3, <2>2, <2>3 DEF OInv, NotYet
<1>7. Underway'
  BY <1>1 DEF Underway
<1>8. ASSUME NEW q \in Phases PROVE InOrder(q)'
  <2>1. CASE q = now
    <3>1. DueIn(now)' = DueIn(now)
      BY <1>0, <1>5, DueSame
    <3>2. RanIn(now)' # <<>> => RanIn(now)' = Keep(DueIn(now), Existing) \/ Stopped(now)'
      BY <1>0, <1>3 DEF Stopped
    <3>3. InOrder(now)'
      BY <1>0, <3>1, <3>2 DEF InOrder
    <3> QED
      BY <2>1, <3>3
  <2>2. CASE Place(q) < at
    <3>1. q # now /\ Place(q) <= at
      BY <1>0, <2>2, Placed
    <3>2. InOrder(q)
      BY DEF OInv
    <3> QED
      BY <1>0, <1>3, <1>5, <3>1, <3>2, InOrderSame
  <2>3. CASE Place(q) > at
    <3>1. q # now /\ Coming(q)
      BY <1>0, <2>3, Placed DEF Coming
    <3>2. RanIn(q)' = <<>>
      BY <1>0, <3>1 DEF RanIn, OInv, NotYet
    <3> QED
      BY <1>2, <3>2, InOrderEmpty
  <2> QED
    BY <1>4, <2>1, <2>2, <2>3
<1> QED
  BY <1>6, <1>7, <1>8 DEF OInv

(* A step within a phase.                                                  *)
LEMMA WithinOrder ==
    ASSUME TypeOK, OInv, NEW now \in Phases, now = phase, UNCHANGED <<conf, at, answer>>,
           pc' \in {"find", "running"}, pc # "over", added' \in Seq(AddSet),
           \A q \in Phases \ {now} : /\ OfPhase(ran', q) = OfPhase(ran, q)
                                     /\ Place(q) < at => OfPhase(added', q) = OfPhase(added, q)
                                     /\ Place(q) > at => Names(dyn'[q]) = Names(OfPhase(added', q)),
           Underway', InOrder(now)'
    PROVE  OInv'
<1>1. Place(now) = at /\ at \in 1..12 /\ conf' \in Configs
  BY PhaseType, LogPlace DEF TypeOK, phase
<1>2. \A q \in Phases \ {now} : Place(q) < at \/ Place(q) > at
  BY <1>1, Placed DEF phase
<1>3. \A q \in Phases : Place(q) > at => q # now /\ Coming(q) /\ RanIn(q) = <<>> /\ answer[q] = "none"
  BY <1>1, Placed DEF Coming, OInv, NotYet
<1>4. \A q \in Phases : Place(q) > at => RanIn(q)' = <<>>
  BY <1>3 DEF RanIn
<1>5. NotYet'
  <2> SUFFICES ASSUME NEW q \in Phases, Coming(q)'
               PROVE  RanIn(q)' = <<>> /\ answer'[q] = "none" /\ Names(dyn'[q]) = Names(OfPhase(added', q))
    BY DEF NotYet
  <2>1. Place(q) > at
    BY DEF Coming
  <2>2. q \in Phases \ {now}
    BY <1>3, <2>1
  <2> QED
    BY <1>3, <1>4, <2>1, <2>2
<1>6. ASSUME NEW q \in Phases PROVE InOrder(q)'
  <2>1. CASE Place(q) < at
    <3>1. q # now
      BY <1>1, <2>1
    <3>2. InOrder(q)
      BY DEF OInv
    <3>3. OfPhase(ran', q) = OfPhase(ran, q) /\ OfPhase(added', q) = OfPhase(added, q)
      BY <2>1, <3>1
    <3> QED
      BY <3>2, <3>3, InOrderSame
  <2>2. CASE Place(q) > at
    BY <1>1, <1>4, <2>2, InOrderEmpty
  <2>3. CASE q = now
    BY <2>3
  <2> QED
    BY <1>2, <2>1, <2>2, <2>3
<1> QED
  BY <1>5, <1>6 DEF OInv

(* A step that only looks.                                                 *)
LEMMA LooksOrder ==
    ASSUME TypeOK, OInv, UNCHANGED <<conf, at, answer, dyn, ran, added>>, pc \in {"find", "running"},
           pc' \in {"find", "running"}, Underway'
    PROVE  OInv'
<1>1. PICK now \in Phases : now = phase /\ Place(now) = at /\ at \in 1..12
  BY PhaseType, LogPlace DEF TypeOK, phase
<1>2. added' \in Seq(AddSet)
  BY DEF TypeOK, AddSet
<1>3. \A q \in Phases \ {now} : /\ OfPhase(ran', q) = OfPhase(ran, q)
                                /\ Place(q) < at => OfPhase(added', q) = OfPhase(added, q)
                                /\ Place(q) > at => Names(dyn'[q]) = Names(OfPhase(added', q))
  BY <1>1 DEF OInv, NotYet, Coming
<1>4. InOrder(now)'
  <2>1. InOrder(now)
    BY DEF OInv
  <2> QED
    BY <2>1, InOrderSame
<1> QED
  BY <1>1, <1>2, <1>3, <1>4, WithinOrder

LEMMA InitOrder == Init => OInv
<1> SUFFICES ASSUME Init PROVE OInv
  OBVIOUS
<1>1. ran = <<>> /\ added = <<>> /\ pc = "apache" /\ conf \in Configs
  BY DEF Init
<1>2. ASSUME NEW p \in Phases
      PROVE  RanIn(p) = <<>> /\ answer[p] = "none" /\ Names(dyn[p]) = Names(OfPhase(added, p)) /\ OfPhase(ran, p) = <<>>
  <2>1. OfPhase(<<>>, p) = <<>>
    BY OfPhaseFacts
  <2>2. Names(<<>>) = <<>>
    BY Typed, NamesFacts
  <2> QED
    BY <1>1, <2>1, <2>2 DEF Init, RanIn
<1>3. NotYet
  BY <1>2 DEF NotYet
<1>4. Underway
  BY <1>1 DEF Underway
<1>5. TypeOK
  BY InitIInv DEF IInv
<1>6. ASSUME NEW p \in Phases PROVE InOrder(p)
  <2> DEFINE d == Keep(DueIn(p), Existing)
  <2>1. d \in Seq(Handler)
    BY <1>5, OrderTypes, KeepType DEF HNames
  <2> HIDE DEF d
  <2>2. Len(<<>>) = 0 /\ Len(d) \in Nat /\ SubSeq(<<>>, 1, 0) = <<>> /\ SubSeq(d, 1, 0) = <<>>
    BY <2>1
  <2>3. IsPrefix(<<>>, d)
    BY <2>2 DEF IsPrefix
  <2> QED
    BY <1>2, <2>3 DEF d, InOrder
<1> QED
  BY <1>3, <1>4, <1>6 DEF OInv

(* Apache goes on without Python.                                          *)
LEMMA SkipOrder == ASSUME IInv, OInv, Skip \/ NoHandler \/ NoInterpreter PROVE OInv'
<1>1. PICK now \in Phases : now = phase /\ Place(now) = at /\ at \in 1..12
  BY PhaseType, LogPlace DEF IInv, TypeOK, phase
<1>2. PICK r \in Statuses \cup {"refused", "noInterpreter"} : Answer(r)
  BY DEF Skip, NoHandler, NoInterpreter, Statuses
<1>3. pc = "apache" /\ UNCHANGED <<conf, dyn, ran, added>>
  BY DEF Skip, NoHandler, NoInterpreter
<1>4. RanIn(now) = <<>> /\ RanIn(now)' = <<>> /\ InOrder(now)
  BY <1>1, <1>3 DEF OInv, NotYet, Coming, RanIn
<1>5. IsPrefix(RanIn(now)', Keep(DueIn(now), Existing))
  BY <1>4 DEF InOrder
<1> QED
  BY <1>1, <1>2, <1>3, <1>4, <1>5, AnswerOrder DEF IInv

(* A list is made of what is due.                                          *)
LEMMA DispatchOrder == ASSUME IInv, OInv, Dispatch PROVE OInv'
<1>0. PICK now \in Phases : now = phase /\ Place(now) = at /\ at \in 1..12
  BY PhaseType, LogPlace DEF IInv, TypeOK, phase
<1>1. /\ hlist' = Handlers(now) /\ pc' = "find" /\ pc = "apache"
      /\ UNCHANGED <<conf, at, pos, answer, dyn, ran, added>>
  BY <1>0 DEF Dispatch
<1>2. RanIn(now) = <<>> /\ answer[now] = "none" /\ Names(dyn[now]) = Names(OfPhase(added, now))
  BY <1>0, <1>1 DEF OInv, NotYet, Coming
<1>3. Names(hlist') = DueIn(now)
  BY <1>1, <1>2, HandlersNames DEF IInv, DueIn
<1>4. DueIn(now)' = DueIn(now) /\ RanIn(now)' = RanIn(now)
  BY <1>1, DueSame DEF RanIn
<1>5. pos' = 1
  BY <1>1 DEF IInv, AtStart
<1>6. Keep(SubSeq(Names(hlist'), 1, pos' - 1), Existing) = <<>>
  <2>1. Names(hlist') \in HNames
    BY <1>3, OrderTypes DEF IInv
  <2>2. SubSeq(Names(hlist'), 1, 0) = <<>>
    <3> DEFINE l == Names(hlist')
    <3>1. l \in Seq(Handler)
      BY <2>1 DEF HNames
    <3> HIDE DEF l
    <3>2. SubSeq(l, 1, 0) = <<>>
      BY <3>1
    <3> QED
      BY <3>2 DEF l
  <2>3. pos' - 1 = 0
    BY <1>5
  <2>4. SubSeq(Names(hlist'), 1, pos' - 1) = <<>>
    BY <2>2, <2>3
  <2> QED
    BY <2>4, KeepEmpty
<1>7. phase' = now
  BY <1>0, <1>1 DEF phase
<1>8. Underway'
  BY <1>1, <1>2, <1>3, <1>4, <1>6, <1>7 DEF Underway
<1>9. InOrder(now)'
  <2>1. InOrder(now)
    BY DEF OInv
  <2> QED
    BY <1>1, <2>1, InOrderSame
<1>10. \A q \in Phases \ {now} : /\ OfPhase(ran', q) = OfPhase(ran, q)
                                 /\ Place(q) < at => OfPhase(added', q) = OfPhase(added, q)
                                 /\ Place(q) > at => Names(dyn'[q]) = Names(OfPhase(added', q))
  BY <1>1 DEF OInv, NotYet, Coming
<1>11. added' \in Seq(AddSet)
  BY <1>1 DEF IInv, TypeOK, AddSet
<1> QED
  BY <1>0, <1>1, <1>8, <1>9, <1>10, <1>11, WithinOrder DEF IInv

(* The position in a list whose names are known.                           *)
LEMMA AtPlace ==
    ASSUME IInv, OInv, pc \in {"find", "running"}
    PROVE  \E now \in Phases, l \in HNames :
              /\ now = phase /\ l = Names(hlist) /\ l = DueIn(now) /\ Len(l) = Len(hlist)
              /\ RanIn(now) = Keep(SubSeq(l, 1, pos - 1), Existing)
              /\ answer[now] = "none" /\ InOrder(now)
              /\ pos \in 1..Len(l) + 1
              /\ \A k \in 1..Len(l) : l[k] = hlist[k].h
<1>1. PICK now \in Phases : now = phase
  BY PhaseType DEF IInv, TypeOK, phase
<1>2. PICK l \in HNames : l = Names(hlist) /\ Len(l) = Len(hlist) /\ \A k \in 1..Len(l) : l[k] = hlist[k].h
  BY <1>1, OrderTypes DEF IInv
<1>3. l = DueIn(now) /\ RanIn(now) = Keep(SubSeq(l, 1, pos - 1), Existing) /\ answer[now] = "none" /\ InOrder(now)
  BY <1>1, <1>2 DEF OInv, Underway
<1>4. pos \in 1..Len(l) + 1
  BY <1>2 DEF IInv, TypeOK
<1> QED
  BY <1>1, <1>2, <1>3, <1>4

(* A handler is passed: it counts if it exists.                            *)
LEMMA Passes ==
    ASSUME NEW l \in HNames, NEW k \in 1..Len(l)
    PROVE  /\ Keep(SubSeq(l, 1, k), Existing) =
                  IF l[k] \in Existing THEN Append(Keep(SubSeq(l, 1, k - 1), Existing), l[k])
                  ELSE Keep(SubSeq(l, 1, k - 1), Existing)
           /\ IsPrefix(Keep(SubSeq(l, 1, k), Existing), Keep(l, Existing))
           /\ IsPrefix(Keep(SubSeq(l, 1, k - 1), Existing), Keep(l, Existing))
<1> DEFINE m == k - 1
           b == SubSeq(l, 1, m)
<1>1. m \in 0..Len(l) /\ m < Len(l) /\ m + 1 = k /\ k \in 0..Len(l)
  BY DEF HNames
<1> HIDE DEF m
<1>2. b \in HNames /\ IsPrefix(Keep(b, Existing), Keep(l, Existing)) /\ SubSeq(l, 1, m + 1) = Append(b, l[m + 1])
  BY <1>1, Beginnings
<1>3. IsPrefix(Keep(SubSeq(l, 1, k), Existing), Keep(l, Existing))
  BY <1>1, Beginnings
<1>4. l[k] \in Handler
  BY DEF HNames
<1> HIDE DEF b
<1>5. Keep(Append(b, l[k]), Existing) = IF l[k] \in Existing THEN Append(Keep(b, Existing), l[k]) ELSE Keep(b, Existing)
  BY <1>2, <1>4, KeepAppend DEF HNames
<1> QED
  BY <1>1, <1>2, <1>3, <1>5 DEF b, m

(* A function is found, or a missing one is passed over.                   *)
LEMMA FindOrder == ASSUME IInv, OInv, Find PROVE OInv'
<1>1. /\ pc = "find" /\ pc' = "running"
      /\ UNCHANGED <<conf, at, hlist, pos, answer, dyn, ran, added>>
  BY DEF Find
<1>2. hlist[pos].h \in Existing
  BY FoundExists DEF entry
<1>3. PICK now \in Phases : now = phase
  BY <1>1, AtPlace
<1>4. Underway'
  <2>1. phase' = now /\ DueIn(now)' = DueIn(now) /\ RanIn(now)' = RanIn(now) /\ answer' = answer
    BY <1>1, <1>3, DueSame DEF phase, RanIn
  <2> QED
    BY <1>1, <1>2, <1>3, <2>1 DEF OInv, Underway
<1> QED
  BY <1>1, <1>4, LooksOrder DEF IInv

LEMMA FindNoneOrder == ASSUME IInv, OInv, FindNone PROVE OInv'
<1>1. /\ pc = "find" /\ pos <= Len(hlist) /\ pc' = "find" /\ pos' = pos + 1
      /\ UNCHANGED <<conf, at, hlist, answer, dyn, ran, added>>
  BY DEF FindNone
<1>2. PICK now \in Phases, l \in HNames :
              /\ now = phase /\ l = Names(hlist) /\ l = DueIn(now) /\ Len(l) = Len(hlist)
              /\ RanIn(now) = Keep(SubSeq(l, 1, pos - 1), Existing)
              /\ answer[now] = "none"
              /\ pos \in 1..Len(l) + 1
              /\ \A k \in 1..Len(l) : l[k] = hlist[k].h
  BY <1>1, AtPlace
<1>3. pos \in 1..Len(l) /\ pos' - 1 = pos
  BY <1>1, <1>2 DEF HNames
<1>4. hlist[pos].h \notin Existing
  <2>1. entry.h \in Existing => LookedUp = entry.h
    BY DEF LookedUp
  <2>2. LookedUp = None
    BY DEF FindNone
  <2> QED
    BY <2>1, <2>2, NoneAssumption, ExistAssumption DEF entry
<1>5. Keep(SubSeq(l, 1, pos), Existing) = RanIn(now)
  <2>1. l[pos] \notin Existing
    BY <1>2, <1>3, <1>4
  <2> QED
    BY <1>2, <1>3, <2>1, Passes
<1>6. Underway'
  <2>1. phase' = now /\ DueIn(now)' = DueIn(now) /\ RanIn(now)' = RanIn(now) /\ answer' = answer
    BY <1>1, <1>2, DueSame DEF phase, RanIn
  <2> QED
    BY <1>1, <1>2, <1>3, <1>5, <2>1 DEF Underway
<1> QED
  BY <1>1, <1>6, LooksOrder DEF IInv

(* HandlerDispatch() returns without having called the present entry.      *)
LEMMA ListLeftOrder == ASSUME IInv, OInv, FindFails \/ ListEnds PROVE OInv'
<1>1. pc = "find" /\ UNCHANGED <<conf, dyn, ran, added>>
  BY DEF FindFails, ListEnds
<1>2. PICK now \in Phases, l \in HNames :
              /\ now = phase /\ l = Names(hlist) /\ l = DueIn(now) /\ Len(l) = Len(hlist)
              /\ RanIn(now) = Keep(SubSeq(l, 1, pos - 1), Existing) /\ InOrder(now)
              /\ pos \in 1..Len(l) + 1
  BY <1>1, AtPlace
<1>3. IsPrefix(RanIn(now)', Keep(DueIn(now), Existing)) /\ RanIn(now)' = RanIn(now)
  BY <1>1, <1>2 DEF InOrder, RanIn
<1>4. PICK r \in Statuses : Answer(r) /\ (RanIn(now) = Keep(DueIn(now), Existing) \/ r \in {"ERROR", "DONE"})
  <2>1. CASE FindFails
    <3>1. PICK s \in {"ERROR", "DONE"} : Done(s)
      BY <2>1 DEF FindFails
    <3>2. Returned(s) = s /\ s \in Statuses
      BY <3>1 DEF Returned, Statuses
    <3> QED
      BY <3>1, <3>2 DEF Done
  <2>2. CASE ListEnds
    <3>1. Returned(result) \in Statuses /\ Answer(Returned(result))
      BY <2>2, ReturnedType DEF ListEnds, Done, IInv, TypeOK
    <3>2. pos - 1 = Len(l)
      BY <1>2, <2>2 DEF ListEnds, HNames
    <3>3. SubSeq(l, 1, Len(l)) = l
      BY <1>2 DEF HNames
    <3>4. RanIn(now) = Keep(DueIn(now), Existing)
      BY <1>2, <3>2, <3>3
    <3> QED
      BY <3>1, <3>4
  <2> QED
    BY <2>1, <2>2
<1>5. \A q \in Phases \ {now} : OfPhase(ran', q) = OfPhase(ran, q)
  BY <1>1
<1> QED
  BY <1>1, <1>2, <1>3, <1>4, <1>5, AnswerOrder DEF IInv

Longer(s, x) == Append(s, x)

LEMMA OfPhaseMore ==
    ASSUME NEW V, NEW s \in Seq(V), NEW x \in V, NEW m, m = Longer(s, x), NEW p
    PROVE  /\ x.phase = p => OfPhase(m, p) = Longer(OfPhase(s, p), x)
           /\ x.phase # p => OfPhase(m, p) = OfPhase(s, p)
<1>1. \A i \in Seq(V), j \in V :
          OfPhase(Append(i, j), p) = IF j.phase = p THEN Append(OfPhase(i, p), j) ELSE OfPhase(i, p)
  BY OfPhaseFacts
<1>2. OfPhase(Append(s, x), p) = IF x.phase = p THEN Append(OfPhase(s, p), x) ELSE OfPhase(s, p)
  BY <1>1
<1> QED
  BY <1>2 DEF Longer

(* A handler returns: the next entry has run.                              *)
LEMMA HandlerReturnsOrder == ASSUME IInv, OInv, NEW r \in Statuses, HandlerReturns(r) PROVE OInv'
<1>1. pc = "running" /\ UNCHANGED <<conf, dyn, added>>
  BY DEF HandlerReturns
<1>2. PICK now \in Phases, l \in HNames :
              /\ now = phase /\ l = Names(hlist) /\ l = DueIn(now) /\ Len(l) = Len(hlist)
              /\ RanIn(now) = Keep(SubSeq(l, 1, pos - 1), Existing)
              /\ answer[now] = "none" /\ pos \in 1..Len(l) + 1
              /\ \A k \in 1..Len(l) : l[k] = hlist[k].h
  BY <1>1, AtPlace
<1>3. pos \in 1..Len(l) /\ obj = l[pos] /\ l[pos] \in Existing /\ obj \in Handler
  <2>1. pos \in 1..Len(l)
    BY <1>1, <1>2 DEF IInv, RunningInList, HNames
  <2>2. l[pos] = hlist[pos].h
    BY <1>2, <2>1
  <2>3. obj = hlist[pos].h /\ hlist[pos].h \in Existing
    BY <1>1 DEF IInv, CalledIsListed, OInv, Underway
  <2> QED
    BY <2>1, <2>2, <2>3, ExistAssumption
<1>4. PICK e \in RanSet : e = [phase |-> now, h |-> obj, r |-> r] /\ e.phase = now /\ e.h = obj /\ e.r = r
  <2>1. [phase |-> now, h |-> obj, r |-> r] \in RanSet
    BY <1>3 DEF RanSet
  <2> QED
    BY <2>1
<1>5. ran' = Append(ran, e) /\ ran \in Seq(RanSet)
  BY <1>2, <1>4 DEF HandlerReturns, IInv, TypeOK, RanSet
<1>6. \A q \in Phases \ {now} : OfPhase(ran', q) = OfPhase(ran, q)
  <2> SUFFICES ASSUME NEW q \in Phases \ {now} PROVE OfPhase(ran', q) = OfPhase(ran, q)
    OBVIOUS
  <2>1. e.phase # q
    BY <1>4
  <2>2. ran' = Longer(ran, e) /\ ran \in Seq(RanSet)
    BY <1>5 DEF Longer
  <2> QED
    BY <2>1, <2>2, OfPhaseMore
<1>7. OfPhase(ran', now) = Append(OfPhase(ran, now), e) /\ OfPhase(ran, now) \in Seq(RanSet)
  BY <1>4, <1>5, OfPhaseFacts
<1>8. RanIn(now)' = Keep(SubSeq(l, 1, pos), Existing)
  <2>1. RanIn(now)' = Names(OfPhase(ran', now))
    BY DEF RanIn
  <2>2. RanIn(now)' = Append(RanIn(now), obj)
    BY <1>4, <1>7, <2>1, Typed, NamesFacts DEF RanIn
  <2> QED
    BY <1>2, <1>3, <2>2, Passes
<1>9. IsPrefix(RanIn(now)', Keep(DueIn(now), Existing))
  BY <1>2, <1>3, <1>8, Passes
<1>10. CASE r \in Expected(phase)
  <2>1. /\ pos' = pos + 1 /\ pc' = "find"
        /\ UNCHANGED <<at, hlist, obj, answer>>
    BY <1>10 DEF HandlerReturns
  <2>2. phase' = now /\ DueIn(now)' = DueIn(now)
    BY <1>1, <1>2, <2>1, DueSame DEF phase
  <2>3. pos' - 1 = pos
    BY <1>3, <2>1
  <2>4. Underway'
    BY <1>2, <1>8, <2>1, <2>2, <2>3 DEF Underway
  <2>5. InOrder(now)'
    BY <1>2, <1>9, <2>1, <2>2 DEF InOrder
  <2>6. \A q \in Phases \ {now} : /\ OfPhase(ran', q) = OfPhase(ran, q)
                                  /\ Place(q) < at => OfPhase(added', q) = OfPhase(added, q)
                                  /\ Place(q) > at => Names(dyn'[q]) = Names(OfPhase(added', q))
    BY <1>1, <1>6 DEF OInv, NotYet, Coming
  <2>7. added' \in Seq(AddSet)
    BY <1>1 DEF IInv, TypeOK, AddSet
  <2> QED
    BY <1>1, <1>2, <2>1, <2>4, <2>5, <2>6, <2>7, WithinOrder DEF IInv
<1>11. CASE r \notin Expected(phase)
  <2>1. PICK s \in Statuses : Answer(s)
    BY <1>11, ReturnedType DEF HandlerReturns, Done
  <2>2. Last(OfPhase(ran', now)).r \notin Expected(now)
    <3> DEFINE o == OfPhase(ran, now)
    <3>1. o \in Seq(RanSet)
      BY <1>7
    <3> HIDE DEF o
    <3>2. Last(Append(o, e)) = e
      BY <3>1 DEF Last
    <3> QED
      BY <1>2, <1>4, <1>7, <1>11, <3>2 DEF o
  <2> QED
    BY <1>1, <1>2, <1>6, <1>9, <2>1, <2>2, AnswerOrder DEF IInv
<1> QED
  BY <1>10, <1>11

(* A handler is added at the end of the present list, or for later.        *)
LEMMA AddHandlerOrder ==
    ASSUME IInv, OInv, NEW p \in Phases, NEW h \in Handler, AddHandler(p, h)
    PROVE  OInv'
<1>1. /\ pc = "running" /\ pc' = "running" /\ Place(p) >= at
      /\ UNCHANGED <<conf, at, pos, answer, ran>>
  BY DEF AddHandler
<1>2. PICK now \in Phases, l \in HNames :
              /\ now = phase /\ l = Names(hlist) /\ l = DueIn(now) /\ Len(l) = Len(hlist)
              /\ RanIn(now) = Keep(SubSeq(l, 1, pos - 1), Existing)
              /\ answer[now] = "none" /\ pos \in 1..Len(l) + 1 /\ InOrder(now)
              /\ \A k \in 1..Len(l) : l[k] = hlist[k].h
  BY <1>1, AtPlace
<1>3. Place(now) = at /\ at \in 1..12 /\ hlist \in Seq(Entry) /\ dyn \in [Phases -> Seq(Entry)] /\ added \in Seq(AddSet)
  BY <1>2, PhaseType, LogPlace DEF IInv, TypeOK, phase, AddSet
<1>4. PICK e \in Entry : e = NewEntry(h) /\ e.h = h
  <2>1. NewEntry(h) \in Entry
    BY DEF NewEntry, Entry
  <2>2. NewEntry(h).h = h
    BY DEF NewEntry
  <2> QED
    BY <2>1, <2>2
<1>5. PICK a \in AddSet : a = [phase |-> p, h |-> h] /\ a.phase = p /\ a.h = h
  <2>1. [phase |-> p, h |-> h] \in AddSet
    BY DEF AddSet
  <2> QED
    BY <2>1
<1>6. added' = Append(added, a) /\ added' \in Seq(AddSet)
  <2>1. added' = Append(added, a)
    BY <1>5 DEF AddHandler
  <2> QED
    BY <1>3, <2>1
<1>7. \A q \in Phases : OfPhase(added', q) = IF q = p THEN Append(OfPhase(added, q), a) ELSE OfPhase(added, q)
  <2> SUFFICES ASSUME NEW q \in Phases
               PROVE  OfPhase(added', q) = IF q = p THEN Append(OfPhase(added, q), a) ELSE OfPhase(added, q)
    OBVIOUS
  <2>1. added' = Longer(added, a) /\ added \in Seq(AddSet)
    BY <1>3, <1>6 DEF Longer
  <2>2. a.phase = q => OfPhase(added', q) = Longer(OfPhase(added, q), a)
    BY <2>1, OfPhaseMore
  <2>3. a.phase # q => OfPhase(added', q) = OfPhase(added, q)
    BY <2>1, OfPhaseMore
  <2> QED
    BY <1>5, <2>2, <2>3 DEF Longer
<1>8. \A q \in Phases : Names(OfPhase(added', q)) = IF q = p THEN Append(Names(OfPhase(added, q)), h)
                                                    ELSE Names(OfPhase(added, q))
  <2> SUFFICES ASSUME NEW q \in Phases, q = p
               PROVE  Names(OfPhase(added', q)) = Append(Names(OfPhase(added, q)), h)
    BY <1>7
  <2>1. OfPhase(added, q) \in Seq(AddSet)
    BY <1>3, OfPhaseFacts
  <2>2. Names(Append(OfPhase(added, q), a)) = Append(Names(OfPhase(added, q)), a.h)
    BY <2>1, Typed, NamesFacts
  <2> QED
    BY <1>5, <1>7, <2>2
<1>9. phase' = now /\ RanIn(now)' = RanIn(now) /\ Configured(now)' = Configured(now)
  BY <1>1, <1>2, DueSame DEF phase, RanIn
<1>10. hlist[pos].h \in Existing /\ pos \in 1..Len(l) /\ l[pos] = hlist[pos].h
  BY <1>1, <1>2 DEF OInv, Underway, IInv, RunningInList, HNames
<1>11. CASE p = now
  <2>1. hlist' = Append(hlist, e) /\ dyn' = dyn
    BY <1>2, <1>4, <1>11 DEF AddHandler, Added
  <2>2. Names(hlist') = Append(l, h)
    <3>1. Names(Append(hlist, e)) = Append(Names(hlist), e.h)
      BY <1>3, Typed, NamesFacts
    <3> QED
      BY <1>2, <1>4, <2>1, <3>1
  <2>3. DueIn(now)' = Append(l, h)
    <3>1. DueIn(now)' = Names(Configured(now)') \o Names(OfPhase(added', now))
      BY DEF DueIn
    <3>2. Names(Configured(now)) \in Seq(Handler) /\ Names(OfPhase(added, now)) \in Seq(Handler)
      BY OrderTypes DEF IInv, HNames
    <3> DEFINE c == Names(Configured(now))
               d == Names(OfPhase(added, now))
    <3>3. c \o Append(d, h) = Append(c \o d, h)
      BY <3>2, AppendJoined
    <3>4. DueIn(now)' = c \o Append(d, h)
      BY <1>8, <1>9, <1>11, <3>1
    <3> QED
      BY <1>2, <3>3, <3>4 DEF DueIn
  <2>4. hlist'[pos].h \in Existing
    <3>1. hlist'[pos] = hlist[pos]
      BY <1>2, <1>3, <1>10, <2>1
    <3> QED
      BY <1>10, <3>1
  <2> DEFINE m == pos - 1
  <2>5. m \in 0..Len(l)
    BY <1>2 DEF HNames
  <2> HIDE DEF m
  <2>6. SubSeq(Append(l, h), 1, m) = SubSeq(l, 1, m)
    BY <2>5, Beginnings
  <2>7. RanIn(now)' = Keep(SubSeq(Append(l, h), 1, pos' - 1), Existing)
    BY <1>1, <1>2, <1>9, <2>6 DEF m
  <2>8. Underway'
    BY <1>1, <1>2, <1>9, <2>2, <2>3, <2>4, <2>7 DEF Underway
  <2>9. InOrder(now)'
    <3>1. Append(l, h) \in HNames /\ m \in 0..Len(Append(l, h))
      BY <2>5 DEF HNames
    <3> DEFINE n == Append(l, h)
    <3>2. n \in HNames /\ m \in 0..Len(n)
      BY <3>1
    <3> HIDE DEF n
    <3>3. IsPrefix(Keep(SubSeq(n, 1, m), Existing), Keep(n, Existing))
      BY <3>2, Beginnings
    <3>4. IsPrefix(RanIn(now)', Keep(DueIn(now)', Existing))
      BY <1>1, <2>3, <2>7, <3>3 DEF m, n
    <3> QED
      BY <1>1, <1>2, <3>4 DEF InOrder
  <2>10. \A q \in Phases \ {now} : /\ OfPhase(ran', q) = OfPhase(ran, q)
                                   /\ Place(q) < at => OfPhase(added', q) = OfPhase(added, q)
                                   /\ Place(q) > at => Names(dyn'[q]) = Names(OfPhase(added', q))
    BY <1>1, <1>7, <1>8, <1>11, <2>1 DEF OInv, NotYet, Coming
  <2> QED
    BY <1>1, <1>2, <1>6, <2>8, <2>9, <2>10, WithinOrder DEF IInv
<1>12. CASE p # now
  <2>1. dyn' = [dyn EXCEPT ![p] = Append(@, e)] /\ hlist' = hlist
    BY <1>2, <1>4, <1>12 DEF AddHandler, Added
  <2>2. Place(p) > at /\ Place(p) \in 1..12
    <3>1. Place(p) \in 1..12 /\ Order[Place(p)] = p
      BY Placed
    <3>2. Place(p) # at
      BY <1>2, <1>12, <3>1 DEF phase
    <3> QED
      BY <1>1, <1>3, <3>1, <3>2
  <2>3. DueIn(now)' = DueIn(now)
    BY <1>1, <1>7, <1>12, DueSame
  <2>4. Underway'
    BY <1>1, <1>2, <1>9, <1>10, <2>1, <2>3 DEF OInv, Underway
  <2>5. InOrder(now)'
    BY <1>1, <1>2, <1>7, <1>12, InOrderSame
  <2>6. ASSUME NEW q \in Phases \ {now}
        PROVE  /\ Place(q) < at => OfPhase(added', q) = OfPhase(added, q)
               /\ Place(q) > at => Names(dyn'[q]) = Names(OfPhase(added', q))
    <3>1. CASE q = p
      <4>1. dyn'[q] = Append(dyn[q], e) /\ dyn[q] \in Seq(Entry)
        BY <1>3, <2>1, <3>1
      <4>2. Names(dyn'[q]) = Append(Names(dyn[q]), h)
        BY <1>4, <4>1, Typed, NamesFacts
      <4>3. Names(dyn[q]) = Names(OfPhase(added, q))
        BY <2>2, <3>1 DEF OInv, NotYet, Coming
      <4>4. ~(Place(q) < at)
        BY <1>3, <2>2, <3>1
      <4> QED
        BY <1>8, <3>1, <4>2, <4>3, <4>4
    <3>2. CASE q # p
      <4>1. dyn'[q] = dyn[q]
        BY <1>3, <2>1, <3>2
      <4> QED
        BY <1>7, <3>2, <4>1 DEF OInv, NotYet, Coming
    <3> QED
      BY <3>1, <3>2
  <2> QED
    BY <1>1, <1>2, <1>6, <2>4, <2>5, <2>6, WithinOrder DEF IInv
<1> QED
  BY <1>11, <1>12

LEMMA NextOrder == IInv /\ OInv /\ [Next]_vars => OInv'
<1> SUFFICES ASSUME IInv, OInv, [Next]_vars PROVE OInv'
  OBVIOUS
<1>1. CASE Skip \/ NoHandler \/ NoInterpreter
  BY <1>1, SkipOrder
<1>2. CASE Dispatch
  BY <1>2, DispatchOrder
<1>3. CASE InDispatch
  BY <1>3, FindOrder, FindNoneOrder, ListLeftOrder DEF InDispatch
<1>4. ASSUME NEW r \in Statuses, HandlerReturns(r) PROVE OInv'
  BY <1>4, HandlerReturnsOrder
<1>5. ASSUME UNCHANGED <<conf, at, pc, hlist, pos, dyn, answer, ran, added>> PROVE OInv'
  <2>1. \A p \in Phases : InOrder(p)'
    BY <1>5, InOrderSame DEF OInv
  <2>2. \A p \in Phases : RanIn(p)' = RanIn(p) /\ DueIn(p)' = DueIn(p)
    BY <1>5, DueSame DEF RanIn
  <2>3. NotYet'
    BY <1>5, <2>2 DEF OInv, NotYet, Coming
  <2>4. Underway'
    <3>1. PICK now \in Phases : now = phase
      BY PhaseType DEF IInv, TypeOK, phase
    <3>2. phase' = now
      BY <1>5, <3>1 DEF phase
    <3> QED
      BY <1>5, <2>2, <3>1, <3>2 DEF OInv, Underway
  <2> QED
    BY <2>1, <2>3, <2>4 DEF OInv
<1>6. CASE SetUser
  BY <1>5, <1>6 DEF SetUser
<1>7. ASSUME NEW p \in Phases, NEW h \in Handler, AddHandler(p, h) PROVE OInv'
  BY <1>7, AddHandlerOrder
<1>8. CASE UNCHANGED vars
  BY <1>5, <1>8 DEF vars
<1> QED
  BY <1>1, <1>2, <1>3, <1>4, <1>6, <1>7, <1>8 DEF Next

(* Handlers run in the order of the configuration and of req.add_handler(), *)
(* none twice and none that was not asked for, and all that exist unless    *)
(* one of them stops the phase, for any configuration and whatever is added *)
(* to a list while it is worked through.                                    *)
THEOREM InTheirOrder == Spec => []RunInOrder
<1>1. OInv => RunInOrder
  BY OrderIs DEF OInv
<1> QED
  BY InvariantHolds, InitOrder, NextOrder, <1>1, PTL DEF Spec
=============================================================================
