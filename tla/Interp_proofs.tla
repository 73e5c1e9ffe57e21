--------------------------- MODULE Interp_proofs ---------------------------
EXTENDS InterpLease, SequenceTheorems, FiniteSetTheorems, TLAPS

LEMMA PrefixFacts ==
  ASSUME NEW S, NEW s \in Seq(S), NEW n \in Nat, n <= Len(s)
  PROVE  /\ SubSeq(s, 1, n) \in Seq(S)
         /\ Len(SubSeq(s, 1, n)) = n
         /\ \A k \in 1..n : SubSeq(s, 1, n)[k] = s[k]
<1>1. SubSeq(s, 1, n) \in Seq(S)  BY SMT
<1>2. Len(SubSeq(s, 1, n)) = n    BY SMT
<1>3. \A k \in 1..n : SubSeq(s, 1, n)[k] = s[k]  BY SMT
<1>4. QED BY <1>1, <1>2, <1>3

LEMMA FrontFacts ==
  ASSUME NEW S, NEW s \in Seq(S), s # <<>>
  PROVE  /\ Front(s) \in Seq(S)
         /\ Len(Front(s)) = Len(s) - 1
         /\ \A k \in 1..Len(s) - 1 : Front(s)[k] = s[k]
         /\ Last(s) \in S
         /\ Len(s) \in Nat \ {0}
<1>1. Len(s) \in Nat \ {0} /\ \A k \in 1..Len(s) : s[k] \in S
  BY EmptySeq, ElementOfSeq, LenProperties
<1>2. Last(s) \in S
  BY <1>1 DEF Last
<1>3. \A n \in Nat : n <= Len(s) => /\ SubSeq(s, 1, n) \in Seq(S)
                                    /\ Len(SubSeq(s, 1, n)) = n
                                    /\ \A k \in 1..n : SubSeq(s, 1, n)[k] = s[k]
  BY PrefixFacts
<1>4. Len(s) - 1 \in Nat /\ Len(s) - 1 <= Len(s)
  BY <1>1
<1>5. Front(s) = SubSeq(s, 1, Len(s) - 1)
  BY DEF Front
<1>6. QED
  BY <1>1, <1>2, <1>3, <1>4, <1>5, Zenon

-----------------------------------------------------------------------------
(***************************************************************************)
(* What a step does to the stack of one thread.                            *)
(***************************************************************************)
LEMMA TopFacts ==
  ASSUME TypeOK, NEW t \in Thread, stack[t] # <<>>
  PROVE  /\ Len(stack[t]) \in Nat \ {0}
         /\ Top(t) = stack[t][Len(stack[t])]
         /\ Top(t) \in Frame
  BY FrontFacts, Zenon DEF TypeOK, Top, Last

LEMMA PushFacts ==
  ASSUME TypeOK, NEW t \in Thread, NEW i \in Interps, NEW ts \in Nat, Push(t, i, ts)
  PROVE  /\ stack' \in [Thread -> Seq(Frame)]
         /\ \A u \in Thread : u # t => stack'[u] = stack[u]
         /\ Len(stack[t]) \in Nat /\ Len(stack'[t]) = Len(stack[t]) + 1
         /\ \A k \in 1..Len(stack[t]) : stack'[t][k] = stack[t][k]
         /\ stack'[t][Len(stack[t]) + 1] = [interp |-> i, ts |-> ts, held |-> FALSE]
         /\ stack'[t] # <<>>
<1> DEFINE f == [interp |-> i, ts |-> ts, held |-> FALSE]
<1>1. f \in Frame
  BY DEF Frame
<1>2. stack[t] \in Seq(Frame)
  BY DEF TypeOK
<1>3. stack' = [stack EXCEPT ![t] = Append(stack[t], f)]
  BY DEF Push
<1> HIDE DEF f
<1>4. /\ Append(stack[t], f) \in Seq(Frame)
      /\ Append(stack[t], f) # <<>>
      /\ Len(Append(stack[t], f)) = Len(stack[t]) + 1
      /\ \A k \in 1..Len(stack[t]) : Append(stack[t], f)[k] = stack[t][k]
      /\ Append(stack[t], f)[Len(stack[t]) + 1] = f
  BY <1>1, <1>2, AppendProperties
<1>5. Len(stack[t]) \in Nat
  BY <1>2, LenProperties
<1>6. stack'[t] = Append(stack[t], f)
  BY <1>3 DEF TypeOK
<1>7. QED
  BY <1>3, <1>4, <1>5, <1>6 DEF TypeOK, f

LEMMA PopFacts ==
  ASSUME TypeOK, NEW t \in Thread, stack[t] # <<>>, Pop(t)
  PROVE  /\ stack' \in [Thread -> Seq(Frame)]
         /\ \A u \in Thread : u # t => stack'[u] = stack[u]
         /\ Len(stack[t]) \in Nat \ {0} /\ Len(stack'[t]) = Len(stack[t]) - 1
         /\ \A k \in 1..Len(stack[t]) - 1 : stack'[t][k] = stack[t][k]
<1>1. stack[t] \in Seq(Frame)
  BY DEF TypeOK
<1>2. stack' = [stack EXCEPT ![t] = Front(stack[t])]
  BY DEF Pop
<1>3. stack'[t] = Front(stack[t])
  BY <1>2 DEF TypeOK
<1>4. QED
  BY <1>1, <1>2, <1>3, FrontFacts DEF TypeOK

-----------------------------------------------------------------------------
(***************************************************************************)
(* The inductive invariant. The properties proved are its first parts; the *)
(* rest says what the stack of a thread looks like at each program point.  *)
(***************************************************************************)
\* A thread in Python code, or about to resume it, is inside a call.
Stacked == \A t \in Thread : pc[t] \in InPython \cup {"resume"} => stack[t] # <<>>

\* The holder of the GIL runs Python on the tstate of its innermost call.
CurrentMine ==
    /\ \A t \in Thread : gil = t /\ pc[t] \in InPython => current = Top(t).ts
    /\ gil = NoThread => current = 0

\* C code that keeps the GIL runs on behalf of the innermost call, which has not moved.
HeldCall == \A t \in Thread : \A k \in 1..Len(stack[t]) : stack[t][k].held =>
    /\ k = Len(stack[t])
    /\ gil = t /\ current = stack[t][k].ts /\ pc[t] \in {"apache", "want"}

\* The calls of a thread that got past make_obcallback().
Settled(t) == IF pc[t] \in {"create", "makecb"} THEN Len(stack[t]) - 1 ELSE Len(stack[t])

CallbackSet == \A t \in Thread : \A k \in 1..Settled(t) : obcb[stack[t][k].interp] = "set"

\* A thread calls make_obcallback() for an interpreter that has its interpreterdata.
Saved == \A t \in Thread : pc[t] = "makecb" => obcb[Top(t).interp] # "none"

\* Numbers above ninterp are unused, and the table only names saved interpreters.
Numbered ==
    /\ \A i \in Interps : i > ninterp => obcb[i] = "none"
    /\ \A ts \in 1..Len(home) : home[ts] <= ninterp
    /\ \A n \in Name : \A k \in 1..Len(table[n]) : obcb[table[n][k].idata] # "none"

\* The interpreter a thread is making is not saved, and has the one tstate.
Creating == \A t \in Thread : pc[t] = "create" =>
    /\ obcb[Top(t).interp] = "none"
    /\ \A ts \in 1..Len(home) : home[ts] = Top(t).interp => ts = Top(t).ts

IInv == /\ TypeOK /\ TstateExclusive /\ TstateAtHome /\ NoTstateLost
        /\ Stacked /\ CurrentMine /\ HeldCall
        /\ CallbackSet /\ Saved /\ Numbered /\ Creating

-----------------------------------------------------------------------------
LEMMA InitInv == Init => IInv
<1> SUFFICES ASSUME Init PROVE IInv
  OBVIOUS
<1> USE BoundAssumption, ThreadAssumption, NameAssumption DEF Init
<1>1. 1 \in Interps
  BY DEF Interps
<1>2. /\ \A t \in Thread : stack[t] = <<>> /\ Len(stack[t]) = 0 /\ pc[t] = "apache"
      /\ \A i \in Interps : pool[i] = <<>> /\ Len(pool[i]) = 0
      /\ Len(home) = 1 /\ home[1] = 1
  OBVIOUS
<1>3. TypeOK
  <2>1. table \in [Name -> Seq(Entry)]
    <3>1. [idata |-> 1, owner |-> NoThread, dangling |-> FALSE] \in Entry
      BY <1>1 DEF Entry
    <3>2. QED BY <3>1
  <2>2. home \in Seq(Interps)
    BY <1>1
  <2>3. stack \in [Thread -> Seq(Frame)] /\ pool \in [Interps -> Seq(Nat)]
    OBVIOUS
  <2>4. obcb \in [Interps -> {"none", "null", "set"}] /\ names \in [Interps -> Name \cup {NoName}]
    OBVIOUS
  <2>5. /\ gil \in Thread \cup {NoThread} /\ current \in Nat
        /\ inits \in [Interps -> Nat] /\ ninterp \in Interps
    BY <1>1
  <2>6. /\ pc \in [Thread -> {"apache", "want", "lookup", "resume"} \cup InPython]
        /\ want \in [Thread -> Name \cup {NoName}]
        /\ \A t \in Thread : pc[t] \in {"want", "lookup", "create"} => want[t] \in Name
    BY DEF InPython
  <2>7. QED BY <2>1, <2>2, <2>3, <2>4, <2>5, <2>6 DEF TypeOK
<1>4. TstateExclusive /\ TstateAtHome
  BY <1>2 DEF TstateExclusive, TstateAtHome, OnStack
<1>5. NoTstateLost
  BY <1>2 DEF NoTstateLost
<1>6. Stacked /\ CurrentMine /\ HeldCall /\ CallbackSet /\ Saved /\ Creating
  BY <1>2 DEF Stacked, CurrentMine, HeldCall, CallbackSet, Saved, Creating, Settled, InPython
<1>7. Numbered
  <2>1. \A n \in Name : \A k \in 1..Len(table[n]) : table[n][k].idata = 1
    OBVIOUS
  <2>2. QED BY <1>1, <1>2, <2>1 DEF Numbered, Interps
<1>8. QED BY <1>3, <1>4, <1>5, <1>6, <1>7 DEF IInv

-----------------------------------------------------------------------------
(***************************************************************************)
(* One lemma per action, or per group of actions with the same shape.      *)
(***************************************************************************)
\* Steps that only move the GIL or a program counter.
LEMMA QuietStep ==
  ASSUME IInv, NEW t \in Thread,
         \/ \E n \in Name : Phase(t, n)
         \/ Restore(t) \/ SwitchOut(t) \/ SwitchIn(t) \/ CallOut(t)
  PROVE  IInv'
<1> USE DEF IInv
<1>1. UNCHANGED <<stack, table, obcb, names, inits, pool, home, ninterp>>
  BY DEF Phase, Restore, SwitchOut, SwitchIn, CallOut
<1>2. \A u \in Thread : u # t => pc'[u] = pc[u] /\ want'[u] = want[u]
  BY DEF Phase, Restore, SwitchOut, SwitchIn, CallOut, Goto, TypeOK
<1>3. pc'[t] \in {"want", "lookup", "create", "makecb", "run", "apache"}
      /\ (pc'[t] \in {"create", "makecb"} \/ pc[t] \in {"create", "makecb"} => pc'[t] = pc[t])
  BY DEF Phase, Restore, SwitchOut, SwitchIn, CallOut, Goto, TypeOK, InPython
<1>4. TypeOK'
  <2>1. gil' \in Thread \cup {NoThread} /\ current' \in Nat
    <3>1. CASE SwitchIn(t)
      <4>1. Top(t) \in Frame
        BY <3>1, TopFacts DEF SwitchIn, Stacked
      <4>2. QED BY <3>1, <4>1 DEF SwitchIn, Frame, TypeOK
    <3>2. CASE ~SwitchIn(t)
      BY <3>2 DEF Phase, Restore, SwitchOut, CallOut, TypeOK, Global
    <3>3. QED BY <3>1, <3>2
  <2>2. pc' \in [Thread -> {"apache", "want", "lookup", "resume"} \cup InPython]
    BY DEF Phase, Restore, SwitchOut, SwitchIn, CallOut, Goto, TypeOK, InPython
  <2>3. /\ want' \in [Thread -> Name \cup {NoName}]
        /\ \A u \in Thread : pc'[u] \in {"want", "lookup", "create"} => want'[u] \in Name
    BY ZenonT(30) DEF Phase, Restore, SwitchOut, SwitchIn, CallOut, Goto, TypeOK, InPython
  <2>4. QED BY <1>1, <2>1, <2>2, <2>3 DEF TypeOK
<1>5. TstateExclusive' /\ TstateAtHome' /\ NoTstateLost'
  BY <1>1 DEF TstateExclusive, TstateAtHome, NoTstateLost, OnStack, InPool
<1>6. Stacked'
  <2>1. pc'[t] \in InPython => stack[t] # <<>>
    BY <1>3 DEF Phase, Restore, SwitchOut, SwitchIn, CallOut, Goto, TypeOK, InPython, Stacked
  <2>2. QED BY <1>1, <1>2, <1>3, <2>1 DEF Stacked, InPython
<1>7. CurrentMine'
  BY <1>1, ThreadAssumption
     DEF Phase, Restore, SwitchOut, SwitchIn, CallOut, Goto, TypeOK, InPython, CurrentMine, Top
<1>8. CallbackSet'
  <2>1. \A u \in Thread : Settled(u)' = Settled(u)
    BY <1>1, <1>2, <1>3 DEF Settled
  <2>2. QED BY <1>1, <2>1 DEF CallbackSet
<1>9. Numbered' /\ Creating' /\ Saved'
  <2>1. \A u \in Thread : Top(u)' = Top(u)
    BY <1>1 DEF Top
  <2>2. QED BY <1>1, <1>2, <1>3, <2>1 DEF Numbered, Creating, Saved
<1>10. HeldCall'
  <2>1. CASE \E n \in Name : Phase(t, n)
    BY <1>1, <1>2, <1>3, <2>1 DEF HeldCall, Phase, Goto, TypeOK
  <2>2. CASE SwitchOut(t) \/ CallOut(t)
    BY <1>1, <2>2 DEF HeldCall, SwitchOut, CallOut, InPython
  <2>3. CASE Restore(t) \/ SwitchIn(t)
    BY <1>1, <2>3, ThreadAssumption DEF HeldCall, Restore, SwitchIn
  <2>4. QED BY <2>1, <2>2, <2>3
<1>11. QED BY <1>4, <1>5, <1>6, <1>7, <1>8, <1>9, <1>10

\* Steps into and out of C code: only the "held" mark of the innermost call changes.
LEMMA HeldStep ==
  ASSUME IInv, NEW t \in Thread, CallOutHeld(t) \/ Return(t)
  PROVE  IInv'
<1> USE DEF IInv
<1>1. UNCHANGED <<gil, current, want, table, obcb, names, inits, pool, home, ninterp>>
  BY DEF CallOutHeld, Return
<1>2. stack[t] # <<>>
  BY DEF CallOutHeld, Return, Stacked, InPython
<1>3. Len(stack[t]) \in Nat \ {0} /\ \A u \in Thread : stack[u] \in Seq(Frame)
  BY <1>2, TopFacts DEF TypeOK
<1>4. \E b \in BOOLEAN : /\ b => CallOutHeld(t)
                         /\ stack' = [stack EXCEPT ![t] = [stack[t] EXCEPT ![Len(stack[t])] =
                                         [stack[t][Len(stack[t])] EXCEPT !.held = b]]]
  BY DEF CallOutHeld, Return
<1>5. /\ stack' \in [Thread -> Seq(Frame)]
      /\ \A u \in Thread : Len(stack'[u]) = Len(stack[u]) /\ 1..Len(stack'[u]) = 1..Len(stack[u])
      /\ \A u \in Thread : \A k \in 1..Len(stack[u]) :
            stack'[u][k].ts = stack[u][k].ts /\ stack'[u][k].interp = stack[u][k].interp
      /\ \A u \in Thread : \A k \in 1..Len(stack[u]) : stack'[u][k].held =>
            \/ stack[u][k].held /\ ~(u = t /\ k = Len(stack[t]))
            \/ u = t /\ k = Len(stack[t]) /\ CallOutHeld(t)
  <2>1. PICK b \in BOOLEAN : /\ b => CallOutHeld(t)
                             /\ stack' = [stack EXCEPT ![t] = [stack[t] EXCEPT ![Len(stack[t])] =
                                             [stack[t][Len(stack[t])] EXCEPT !.held = b]]]
    BY <1>4
  <2> DEFINE f == [stack[t][Len(stack[t])] EXCEPT !.held = b]
             s == [stack[t] EXCEPT ![Len(stack[t])] = f]
  <2>2. stack[t][Len(stack[t])] \in Frame
    BY <1>2, TopFacts
  <2>3. /\ f \in Frame /\ f.held = b
        /\ f.ts = stack[t][Len(stack[t])].ts /\ f.interp = stack[t][Len(stack[t])].interp
    BY <2>2 DEF Frame
  <2>4. /\ s \in Seq(Frame) /\ Len(s) = Len(stack[t])
        /\ \A k \in 1..Len(stack[t]) : s[k] = IF k = Len(stack[t]) THEN f ELSE stack[t][k]
    <3> HIDE DEF f
    <3>1. \A k \in 1..Len(stack[t]) : stack[t][k] \in Frame
      BY <1>3, ElementOfSeq
    <3>2. QED BY <1>3, <2>3, <3>1, ExceptSeq
  <2>5. stack' = [stack EXCEPT ![t] = s] /\ stack'[t] = s
    BY <2>1 DEF TypeOK
  <2> HIDE DEF f, s
  <2>6. \A u \in Thread : Len(stack'[u]) = Len(stack[u])
    BY <2>4, <2>5 DEF TypeOK
  <2>7. QED BY <2>1, <2>3, <2>4, <2>5, <2>6 DEF TypeOK
<1>6. pc' = [pc EXCEPT ![t] = pc'[t]] /\ pc'[t] \in {"apache", "run", "resume"} /\ pc[t] \in {"apache", "run"}
  BY DEF CallOutHeld, Return, Goto, TypeOK
<1>7. TypeOK'
  <2>1. pc' \in [Thread -> {"apache", "want", "lookup", "resume"} \cup InPython]
    BY <1>6 DEF TypeOK, InPython
  <2>2. \A u \in Thread : pc'[u] \in {"want", "lookup", "create"} => want'[u] \in Name
    BY <1>1, <1>6 DEF TypeOK
  <2>3. QED BY <1>1, <1>5, <2>1, <2>2 DEF TypeOK
<1>8. TstateExclusive' /\ TstateAtHome' /\ NoTstateLost'
  <2>1. ASSUME NEW ts PROVE OnStack(ts)' <=> OnStack(ts)
    <3>1. \A u \in Thread : (\E k \in 1..Len(stack'[u]) : stack'[u][k].ts = ts)
                        <=> (\E k \in 1..Len(stack[u]) : stack[u][k].ts = ts)
      BY <1>5
    <3>2. QED BY <3>1 DEF OnStack
  <2>2. TstateExclusive'
    <3>1. \A t1, t2 \in Thread : \A k1 \in 1..Len(stack'[t1]), k2 \in 1..Len(stack'[t2]) :
            stack'[t1][k1].ts = stack'[t2][k2].ts => t1 = t2 /\ k1 = k2
      BY SMTT(30), <1>5 DEF TstateExclusive
    <3>2. QED BY <1>1, <2>1, <3>1 DEF TstateExclusive
  <2>3. TstateAtHome'
    BY <1>1, <1>5 DEF TstateAtHome
  <2>4. QED BY <1>1, <2>1, <2>2, <2>3 DEF NoTstateLost, InPool
<1>9. \A u \in Thread : stack[u] # <<>> =>
        /\ stack'[u] # <<>>
        /\ Top(u)'.ts = Top(u).ts /\ Top(u)'.interp = Top(u).interp
  <2> SUFFICES ASSUME NEW u \in Thread, stack[u] # <<>>
               PROVE  /\ stack'[u] # <<>>
                      /\ Top(u)'.ts = Top(u).ts /\ Top(u)'.interp = Top(u).interp
    OBVIOUS
  <2>1. Len(stack[u]) \in Nat \ {0} /\ Top(u) = stack[u][Len(stack[u])]
    BY TopFacts
  <2>2. stack'[u] # <<>>
    BY <1>5, <2>1
  <2>3. Top(u)' = stack'[u][Len(stack'[u])]
    BY DEF Top, Last
  <2>4. QED BY <1>5, <2>1, <2>2, <2>3
<1>10. Stacked'
  BY <1>2, <1>6, <1>9 DEF Stacked, TypeOK, InPython
<1>11. CurrentMine'
  <2>1. ASSUME NEW u \in Thread, gil' = u, pc'[u] \in InPython
        PROVE  current' = Top(u)'.ts
    <3>1. CASE u # t
      BY <1>1, <1>6, <1>9, <2>1, <3>1 DEF CurrentMine, Stacked, TypeOK
    <3>2. CASE u = t
      <4>1. Return(t) /\ Top(t).held
        BY <2>1, <3>2 DEF CallOutHeld, Return, Goto, TypeOK, InPython
      <4>2. current = Top(t).ts
        BY <1>2, <1>3, <4>1, TopFacts DEF HeldCall
      <4>3. QED BY <1>1, <1>2, <1>9, <3>2, <4>2
    <3>3. QED BY <3>1, <3>2
  <2>2. QED BY <1>1, <2>1 DEF CurrentMine
<1>12. CallbackSet'
  <2>1. \A u \in Thread : Settled(u)' = Settled(u)
    BY <1>5, <1>6 DEF Settled, TypeOK
  <2>2. \A u \in Thread : Settled(u) <= Len(stack[u]) /\ Settled(u) \in Int
    BY <1>3, LenProperties DEF Settled
  <2>3. ASSUME NEW u \in Thread, NEW k \in 1..Settled(u)
        PROVE  obcb[stack'[u][k].interp] = "set"
    <3>1. k \in 1..Len(stack[u])
      BY <1>3, <2>2, LenProperties
    <3>2. QED BY <1>5, <3>1 DEF CallbackSet
  <2>4. QED BY <1>1, <2>1, <2>3 DEF CallbackSet
<1>13. Numbered' /\ Creating' /\ Saved'
  <2>1. \A u \in Thread : pc'[u] = "create" => pc[u] = "create" /\ stack[u] # <<>>
    BY <1>6 DEF Stacked, TypeOK, InPython
  <2>2. Creating'
    BY <1>1, <1>9, <2>1 DEF Creating
  <2>3. \A u \in Thread : pc'[u] = "makecb" => pc[u] = "makecb" /\ stack[u] # <<>>
    BY <1>6 DEF Stacked, TypeOK, InPython
  <2>4. Saved'
    BY <1>1, <1>9, <2>3 DEF Saved
  <2>5. QED BY <1>1, <2>2, <2>4 DEF Numbered
<1>14. HeldCall'
  <2>1. \A u \in Thread : \A k \in 1..Len(stack'[u]) : stack'[u][k].held =>
          /\ k = Len(stack'[u])
          /\ gil = u /\ current = stack'[u][k].ts /\ pc'[u] \in {"apache", "want"}
    <3>1. ASSUME NEW u \in Thread, NEW k \in 1..Len(stack[u]), stack'[u][k].held
          PROVE  /\ k = Len(stack[u])
                 /\ gil = u /\ current = stack[u][k].ts /\ pc'[u] \in {"apache", "want"}
      <4>1. CASE stack[u][k].held /\ ~(u = t /\ k = Len(stack[t]))
        <5>1. k = Len(stack[u]) /\ gil = u /\ current = stack[u][k].ts /\ pc[u] \in {"apache", "want"}
          BY <4>1 DEF HeldCall
        <5>2. QED BY <1>6, <4>1, <5>1 DEF TypeOK
      <4>2. CASE u = t /\ k = Len(stack[t]) /\ CallOutHeld(t)
        <5>1. current = stack[t][Len(stack[t])].ts
          BY <1>2, <4>2, TopFacts DEF CallOutHeld, CurrentMine, InPython
        <5>2. QED BY <4>2, <5>1 DEF CallOutHeld, Goto, TypeOK
      <4>3. QED BY <1>5, <3>1, <4>1, <4>2
    <3>2. QED BY <1>5, <3>1
  <2>2. QED BY <1>1, <2>1 DEF HeldCall
<1>15. QED BY <1>7, <1>8, <1>10, <1>11, <1>12, <1>13, <1>14

\* What all three ways to get a tstate have in common: the thread holds the GIL in
\* get_interpreter() and a frame with a free tstate goes on its stack.
LEMMA PushStep ==
  ASSUME IInv, NEW t \in Thread, NEW i \in Interps, NEW ts \in Nat,
         gil = t, pc[t] = "lookup", Push(t, i, ts), current' = ts,
         UNCHANGED <<gil, obcb>>, pc' = [pc EXCEPT ![t] = pc'[t]],
         \/ pc'[t] \in {"create", "makecb"}
         \/ pc'[t] = "run" /\ obcb[i] = "set",
         ~OnStack(ts)
  PROVE  /\ stack' \in [Thread -> Seq(Frame)]
         /\ \A t1, t2 \in Thread : \A k1 \in 1..Len(stack'[t1]), k2 \in 1..Len(stack'[t2]) :
              stack'[t1][k1].ts = stack'[t2][k2].ts => t1 = t2 /\ k1 = k2
         /\ \A x : OnStack(x)' <=> OnStack(x) \/ x = ts
         /\ \A u \in Thread : \A k \in 1..Len(stack'[u]) :
              \/ k \in 1..Len(stack[u]) /\ stack'[u][k] = stack[u][k]
              \/ stack'[u][k].ts = ts /\ stack'[u][k].interp = i
         /\ Top(t)'.interp = i /\ Top(t)'.ts = ts
         /\ \A u \in Thread : u # t => Top(u)' = Top(u) /\ pc'[u] = pc[u]
         /\ Stacked' /\ CurrentMine' /\ HeldCall' /\ CallbackSet'
<1> USE DEF IInv
<1> DEFINE f == [interp |-> i, ts |-> ts, held |-> FALSE]
           d == Len(stack[t])
<1>1. /\ stack' \in [Thread -> Seq(Frame)]
      /\ \A u \in Thread : u # t => stack'[u] = stack[u]
      /\ d \in Nat /\ Len(stack'[t]) = d + 1
      /\ \A k \in 1..d : stack'[t][k] = stack[t][k]
      /\ stack'[t][d + 1] = f
      /\ stack'[t] # <<>>
  BY PushFacts
<1>2. f.interp = i /\ f.ts = ts /\ f.held = FALSE
  OBVIOUS
<1>3. \A u \in Thread : u # t => pc'[u] = pc[u]
  BY DEF TypeOK
<1> HIDE DEF f, d
<1>4. \A u \in Thread : \A k \in 1..Len(stack'[u]) :
        \/ k \in 1..Len(stack[u]) /\ stack'[u][k] = stack[u][k]
        \/ u = t /\ k = d + 1 /\ stack'[u][k] = f
  <2>1. ASSUME NEW u \in Thread, NEW k \in 1..Len(stack'[u]), u # t
        PROVE  k \in 1..Len(stack[u]) /\ stack'[u][k] = stack[u][k]
    BY <1>1, <2>1
  <2>2. ASSUME NEW k \in 1..Len(stack'[t]), k # d + 1
        PROVE  k \in 1..Len(stack[t]) /\ stack'[t][k] = stack[t][k]
    <3>1. k \in 1..d
      BY <1>1, <2>2
    <3>2. QED BY <1>1, <3>1 DEF d
  <2>3. QED BY <1>1, <2>1, <2>2
<1>5. ASSUME NEW t1 \in Thread, NEW t2 \in Thread,
             NEW k1 \in 1..Len(stack'[t1]), NEW k2 \in 1..Len(stack'[t2]),
             stack'[t1][k1].ts = stack'[t2][k2].ts
      PROVE  t1 = t2 /\ k1 = k2
  <2>1. CASE stack'[t1][k1] = f /\ t1 = t /\ k1 = d + 1
    BY SMTT(30), <1>2, <1>4, <1>5, <2>1 DEF OnStack
  <2>2. CASE stack'[t2][k2] = f /\ t2 = t /\ k2 = d + 1
    BY <1>2, <1>4, <1>5, <2>2 DEF OnStack
  <2>3. CASE /\ k1 \in 1..Len(stack[t1]) /\ stack'[t1][k1] = stack[t1][k1]
             /\ k2 \in 1..Len(stack[t2]) /\ stack'[t2][k2] = stack[t2][k2]
    BY <1>5, <2>3 DEF TstateExclusive
  <2>4. QED BY <1>4, <2>1, <2>2, <2>3
<1>6. ASSUME NEW x PROVE OnStack(x)' <=> OnStack(x) \/ x = ts
  <2>1. OnStack(x)' => OnStack(x) \/ x = ts
    BY <1>2, <1>4 DEF OnStack
  <2>2. ASSUME NEW u \in Thread, NEW k \in 1..Len(stack[u])
        PROVE  k \in 1..Len(stack'[u]) /\ stack'[u][k] = stack[u][k]
    BY <1>1 DEF d
  <2>3. OnStack(x) => OnStack(x)'
    BY <2>2 DEF OnStack
  <2>4. x = ts => OnStack(x)'
    <3>1. d + 1 \in 1..Len(stack'[t])
      BY <1>1
    <3>2. QED BY <1>1, <1>2, <3>1 DEF OnStack
  <2>5. QED BY <2>1, <2>3, <2>4
<1>7. /\ Top(t)' = f
      /\ \A u \in Thread : u # t => Top(u)' = Top(u)
  BY <1>1 DEF Top, Last
<1>8. Stacked'
  BY <1>1, <1>3 DEF Stacked, InPython
<1>9. CurrentMine'
  BY <1>2, <1>7, ThreadAssumption DEF CurrentMine
<1>10. HeldCall'
  <2>1. \A u \in Thread : \A k \in 1..Len(stack[u]) : ~stack[u][k].held
    BY DEF HeldCall
  <2>2. \A u \in Thread : \A k \in 1..Len(stack'[u]) : ~stack'[u][k].held
    BY <1>2, <1>4, <2>1
  <2>3. QED BY <2>2 DEF HeldCall
<1>11. CallbackSet'
  <2>1. ASSUME NEW u \in Thread, NEW k \in 1..Settled(u)'
        PROVE  obcb[stack'[u][k].interp] = "set"
    <3>1. CASE u # t
      BY <1>1, <1>3, <2>1, <3>1 DEF CallbackSet, Settled
    <3>2. CASE u = t /\ pc'[t] = "run"
      <4>1. k \in 1..d + 1 /\ Settled(t) = d
        BY <1>1, <2>1, <3>2 DEF Settled, d
      <4>2. CASE k = d + 1
        BY <1>1, <1>2, <3>2, <4>2
      <4>3. CASE k \in 1..d
        BY <1>1, <3>2, <4>1, <4>3 DEF CallbackSet
      <4>4. QED BY <1>1, <4>1, <4>2, <4>3
    <3>3. CASE u = t /\ pc'[t] \in {"create", "makecb"}
      BY SMTT(30), <1>1, <2>1, <3>3 DEF CallbackSet, Settled, d
    <3>4. QED BY <3>1, <3>2, <3>3
  <2>2. QED BY <2>1 DEF CallbackSet
<1>12. QED BY <1>1, <1>2, <1>3, <1>4, <1>5, <1>6, <1>7, <1>8, <1>9, <1>10, <1>11

LEMMA HitPooledStep ==
  ASSUME IInv, NEW t \in Thread, HitPooled(t)
  PROVE  IInv'
<1> USE DEF IInv
<1>1. PICK k \in Matches(want[t]) \ {0} :
        /\ pool[table[want[t]][k].idata] # <<>>
        /\ Enter(t, table[want[t]][k].idata, Last(pool[table[want[t]][k].idata]))
        /\ pool' = [pool EXCEPT ![table[want[t]][k].idata] = Front(@)]
  BY DEF HitPooled
<1> DEFINE i == table[want[t]][k].idata
           n == Len(pool[i])
           ts == Last(pool[i])
<1>2. i \in Interps /\ obcb[i] # "none"
  <2>1. want[t] \in Name /\ table[want[t]] \in Seq(Entry)
    BY DEF HitPooled, TypeOK
  <2>2. k \in 1..Len(table[want[t]])
    BY <2>1, LenProperties DEF Matches
  <2>3. table[want[t]][k] \in Entry
    BY <2>1, <2>2, ElementOfSeq
  <2>4. QED BY <2>1, <2>2, <2>3 DEF Entry, Numbered
<1>3. /\ n \in Nat \ {0} /\ ts = pool[i][n] /\ ts \in Nat
      /\ Front(pool[i]) \in Seq(Nat) /\ Len(Front(pool[i])) = n - 1
      /\ \A l \in 1..n - 1 : Front(pool[i])[l] = pool[i][l]
  <2>1. pool[i] \in Seq(Nat) /\ pool[i] # <<>>
    BY <1>1, <1>2 DEF TypeOK
  <2>2. QED BY <2>1, FrontFacts DEF Last
<1>4. ts \in 1..Len(home) /\ home[ts] = i /\ ~OnStack(ts)
  <2>0. n = Len(pool[i])
    OBVIOUS
  <2> HIDE DEF i, n, ts
  <2>1. n \in 1..Len(pool[i]) /\ ts = pool[i][n]
    BY <1>3, <2>0
  <2>2. ts \in 1..Len(home) /\ home[ts] = i
    BY <1>2, <2>1 DEF TstateAtHome
  <2>3. ~OnStack(ts)
    BY <1>2, <2>1 DEF TstateExclusive
  <2>4. QED BY <2>2, <2>3
<1>5. Enter(t, i, ts) /\ pool' = [pool EXCEPT ![i] = Front(pool[i])]
      /\ home' = home /\ pc[t] = "lookup" /\ gil = t
  BY <1>1 DEF HitPooled
<1> HIDE DEF i, n, ts
<1>6. UNCHANGED <<gil, table, obcb, names, inits, ninterp, home>>
  BY <1>5 DEF Enter
<1>7. /\ Push(t, i, ts) /\ current' = ts
      /\ pc' = [pc EXCEPT ![t] = pc'[t]]
      /\ pc'[t] = "makecb" \/ (pc'[t] = "run" /\ obcb[i] = "set")
      /\ want' = [want EXCEPT ![t] = NoName]
  <2>1. pc' = [pc EXCEPT ![t] = IF obcb[i] = "set" THEN "run" ELSE "makecb"]
    BY <1>5 DEF Enter, Goto
  <2>2. pc'[t] = IF obcb[i] = "set" THEN "run" ELSE "makecb"
    BY <2>1 DEF TypeOK
  <2>3. pc' = [pc EXCEPT ![t] = pc'[t]]
    BY <2>1, <2>2
  <2>4. Push(t, i, ts) /\ current' = ts /\ want' = [want EXCEPT ![t] = NoName]
    BY <1>5 DEF Enter
  <2>5. QED BY <2>2, <2>3, <2>4
<1>8. /\ stack' \in [Thread -> Seq(Frame)]
      /\ \A t1, t2 \in Thread : \A k1 \in 1..Len(stack'[t1]), k2 \in 1..Len(stack'[t2]) :
            stack'[t1][k1].ts = stack'[t2][k2].ts => t1 = t2 /\ k1 = k2
      /\ \A x : OnStack(x)' <=> OnStack(x) \/ x = ts
      /\ \A u \in Thread : \A l \in 1..Len(stack'[u]) :
            \/ l \in 1..Len(stack[u]) /\ stack'[u][l] = stack[u][l]
            \/ stack'[u][l].ts = ts /\ stack'[u][l].interp = i
      /\ Top(t)'.interp = i
      /\ \A u \in Thread : u # t => Top(u)' = Top(u) /\ pc'[u] = pc[u]
      /\ Stacked' /\ CurrentMine' /\ HeldCall' /\ CallbackSet'
  BY SMTT(30), <1>2, <1>3, <1>4, <1>5, <1>6, <1>7, PushStep
<1>9. /\ pool' \in [Interps -> Seq(Nat)]
      /\ \A j \in Interps : \A l \in 1..Len(pool'[j]) :
            l \in 1..Len(pool[j]) /\ pool'[j][l] = pool[j][l] /\ (j = i => l # n)
      /\ \A j \in Interps : \A l \in 1..Len(pool[j]) :
            \/ j = i /\ l = n
            \/ l \in 1..Len(pool'[j]) /\ pool'[j][l] = pool[j][l]
  <2> DEFINE s == Front(pool[i])
  <2>1. pool' = [pool EXCEPT ![i] = s] /\ s \in Seq(Nat) /\ Len(s) = n - 1
        /\ \A l \in 1..n - 1 : s[l] = pool[i][l]
    BY <1>3, <1>5
  <2> HIDE DEF s
  <2>2. pool' \in [Interps -> Seq(Nat)] /\ pool'[i] = s
        /\ \A j \in Interps : j # i => pool'[j] = pool[j]
    BY <1>2, <2>1 DEF TypeOK
  <2>3. ASSUME NEW j \in Interps, NEW l \in 1..Len(pool'[j])
        PROVE  l \in 1..Len(pool[j]) /\ pool'[j][l] = pool[j][l] /\ (j = i => l # n)
    <3>1. CASE j = i
      <4>1. l \in 1..n - 1
        BY <2>1, <2>2, <2>3, <3>1
      <4>2. QED BY SMTT(30), <1>3, <2>1, <2>2, <3>1, <4>1 DEF n
    <3>2. CASE j # i
      BY <2>2, <2>3, <3>2
    <3>3. QED BY <3>1, <3>2
  <2>4. ASSUME NEW j \in Interps, NEW l \in 1..Len(pool[j]), ~(j = i /\ l = n)
        PROVE  l \in 1..Len(pool'[j]) /\ pool'[j][l] = pool[j][l]
    <3>1. CASE j = i
      <4>1. l \in 1..n - 1
        BY <1>3, <2>4, <3>1 DEF n
      <4>2. QED BY <2>1, <2>2, <3>1, <4>1
    <3>2. CASE j # i
      BY <2>2, <2>4, <3>2
    <3>3. QED BY <3>1, <3>2
  <2>5. QED BY <2>2, <2>3, <2>4
<1>10. TypeOK'
  <2>1. /\ pc' \in [Thread -> {"apache", "want", "lookup", "resume"} \cup InPython]
        /\ want' \in [Thread -> Name \cup {NoName}]
        /\ \A u \in Thread : pc'[u] \in {"want", "lookup", "create"} => want'[u] \in Name
    BY <1>7 DEF TypeOK, InPython
  <2>2. QED BY <1>3, <1>6, <1>7, <1>8, <1>9, <2>1 DEF TypeOK
<1>11. TstateExclusive'
  <2>1. \A j1, j2 \in Interps : \A l1 \in 1..Len(pool'[j1]), l2 \in 1..Len(pool'[j2]) :
          pool'[j1][l1] = pool'[j2][l2] => j1 = j2 /\ l1 = l2
    BY <1>9 DEF TstateExclusive
  <2>2. ASSUME NEW j \in Interps, NEW l \in 1..Len(pool'[j])
        PROVE  ~OnStack(pool[j][l])'
    <3>1. l \in 1..Len(pool[j]) /\ pool'[j][l] = pool[j][l] /\ (j = i => l # n)
      BY <1>9
    <3>2. ~OnStack(pool[j][l]) /\ (pool[j][l] = pool[i][n] => j = i /\ l = n)
      <4>1. n \in 1..Len(pool[i])
        BY <1>3 DEF n
      <4>2. QED BY <1>2, <3>1, <4>1 DEF TstateExclusive
    <3>3. pool[j][l] # ts
      BY <1>3, <3>1, <3>2
    <3>4. ASSUME NEW x, x = pool[j][l] PROVE ~OnStack(x)'
      BY <1>8, <3>2, <3>3, <3>4
    <3>5. QED BY <3>1, <3>4 DEF OnStack
  <2>3. QED
    <3>1. \A t1, t2 \in Thread : \A k1 \in 1..Len(stack'[t1]), k2 \in 1..Len(stack'[t2]) :
            stack'[t1][k1].ts = stack'[t2][k2].ts => t1 = t2 /\ k1 = k2
      BY <1>8
    <3>2. QED BY <2>1, <2>2, <3>1, Zenon DEF TstateExclusive
<1>12. TstateAtHome'
  <2>1. ASSUME NEW u \in Thread, NEW l \in 1..Len(stack'[u])
        PROVE  stack'[u][l].ts \in 1..Len(home) /\ home[stack'[u][l].ts] = stack'[u][l].interp
    <3>1. CASE l \in 1..Len(stack[u]) /\ stack'[u][l] = stack[u][l]
      BY <3>1 DEF TstateAtHome
    <3>2. CASE stack'[u][l].ts = ts /\ stack'[u][l].interp = i
      BY <1>4, <3>2
    <3>3. QED BY <1>8, <2>1, <3>1, <3>2
  <2>2. \A j \in Interps : \A l \in 1..Len(pool'[j]) :
          pool'[j][l] \in 1..Len(home) /\ home[pool'[j][l]] = j
    <3>1. ASSUME NEW j \in Interps, NEW l \in 1..Len(pool'[j])
          PROVE  pool'[j][l] \in 1..Len(home) /\ home[pool'[j][l]] = j
      <4>1. l \in 1..Len(pool[j]) /\ pool'[j][l] = pool[j][l]
        BY <1>9, <3>1
      <4>2. QED BY <4>1 DEF TstateAtHome
    <3>2. QED BY <3>1
  <2>3. QED BY <1>6, <2>1, <2>2 DEF TstateAtHome
<1>13. NoTstateLost'
  <2>1. ASSUME NEW x \in 2..Len(home), obcb[home[x]] # "none"
        PROVE  InPool(home[x], x)' \/ OnStack(x)'
    <3>1. home[x] \in Interps
      <4>1. Len(home) \in Nat /\ x \in 1..Len(home)
        BY LenProperties DEF TypeOK
      <4>2. QED BY <4>1, ElementOfSeq DEF TypeOK
    <3>2. CASE OnStack(x)
      BY <1>8, <3>2
    <3>3. CASE InPool(home[x], x)
      <4>1. PICK l \in 1..Len(pool[home[x]]) : pool[home[x]][l] = x
        BY <3>3 DEF InPool
      <4>2. CASE home[x] = i /\ l = n
        BY <1>3, <1>8, <4>1, <4>2
      <4>3. CASE l \in 1..Len(pool'[home[x]]) /\ pool'[home[x]][l] = pool[home[x]][l]
        BY <1>6, <4>1, <4>3 DEF InPool
      <4>4. QED BY <1>9, <3>1, <4>2, <4>3
    <3>4. QED BY <2>1, <3>2, <3>3 DEF NoTstateLost
  <2>2. QED BY <1>6, <2>1 DEF NoTstateLost
<1>14. Numbered' /\ Creating'
  <2>1. \A u \in Thread : pc'[u] = "create" => u # t
    BY <1>7
  <2>2. ASSUME NEW u \in Thread, pc'[u] = "create"
        PROVE  pc[u] = "create" /\ Top(u)' = Top(u)
    BY <1>8, <2>1, <2>2
  <2>3. Creating'
    BY <1>6, <2>2 DEF Creating
  <2>4. QED BY <1>6, <2>3 DEF Numbered
<1>15. Saved'
  <2>1. \A u \in Thread : pc'[u] = "makecb" /\ u # t => pc[u] = "makecb" /\ Top(u)' = Top(u)
    BY <1>8
  <2>2. Top(t)'.interp = i
    BY <1>8
  <2>3. QED BY <1>2, <1>6, <2>1, <2>2 DEF Saved
<1>16. QED BY <1>8, <1>10, <1>11, <1>12, <1>13, <1>14, <1>15

\* A new tstate: no frame and no array has its number yet.
LEMMA NewTstateStep ==
  ASSUME IInv, NEW t \in Thread, NEW i \in Interps,
         gil = t, pc[t] = "lookup", Push(t, i, Len(home) + 1), current' = Len(home) + 1,
         home' = Append(home, i), UNCHANGED <<gil, obcb, pool>>, pc' = [pc EXCEPT ![t] = pc'[t]],
         \/ pc'[t] \in {"create", "makecb"}
         \/ pc'[t] = "run" /\ obcb[i] = "set"
  PROVE  /\ stack' \in [Thread -> Seq(Frame)]
         /\ home' \in Seq(Interps) /\ Len(home') = Len(home) + 1 /\ Len(home) \in Nat
         /\ home'[Len(home) + 1] = i
         /\ \A x \in 1..Len(home) : home'[x] = home[x]
         /\ Top(t)'.interp = i /\ Top(t)'.ts = Len(home) + 1
         /\ \A u \in Thread : u # t => Top(u)' = Top(u) /\ pc'[u] = pc[u]
         /\ TstateExclusive' /\ TstateAtHome' /\ NoTstateLost'
         /\ Stacked' /\ CurrentMine' /\ HeldCall' /\ CallbackSet'
<1> USE DEF IInv
<1> DEFINE ts == Len(home) + 1
<1>1. /\ home' \in Seq(Interps) /\ Len(home') = ts /\ Len(home) \in Nat
      /\ home'[ts] = i
      /\ \A x \in 1..Len(home) : home'[x] = home[x]
  <2>1. home \in Seq(Interps)
    BY DEF TypeOK
  <2>2. QED BY <2>1, AppendProperties, LenProperties
<1>2. ts \in Nat /\ ts \notin 1..Len(home) /\ \A x \in 1..Len(home) : x \in 1..ts
  BY <1>1
<1>3. ~OnStack(ts)
  BY <1>2 DEF OnStack, TstateAtHome
<1>4. /\ Push(t, i, ts) /\ current' = ts
      /\ Len(home') = ts /\ home'[ts] = i
  BY <1>1
<1> HIDE DEF ts
<1>5. /\ stack' \in [Thread -> Seq(Frame)]
      /\ \A t1, t2 \in Thread : \A k1 \in 1..Len(stack'[t1]), k2 \in 1..Len(stack'[t2]) :
            stack'[t1][k1].ts = stack'[t2][k2].ts => t1 = t2 /\ k1 = k2
      /\ \A x : OnStack(x)' <=> OnStack(x) \/ x = ts
      /\ \A u \in Thread : \A l \in 1..Len(stack'[u]) :
            \/ l \in 1..Len(stack[u]) /\ stack'[u][l] = stack[u][l]
            \/ stack'[u][l].ts = ts /\ stack'[u][l].interp = i
      /\ Top(t)'.interp = i /\ Top(t)'.ts = ts
      /\ \A u \in Thread : u # t => Top(u)' = Top(u) /\ pc'[u] = pc[u]
      /\ Stacked' /\ CurrentMine' /\ HeldCall' /\ CallbackSet'
  BY <1>2, <1>3, <1>4, PushStep
<1>6. \A j \in Interps : \A l \in 1..Len(pool[j]) :
        pool[j][l] \in 1..Len(home) /\ home[pool[j][l]] = j /\ ~OnStack(pool[j][l])
  BY DEF TstateAtHome, TstateExclusive
<1>7. TstateExclusive'
  <2>1. \A j1, j2 \in Interps : \A l1 \in 1..Len(pool'[j1]), l2 \in 1..Len(pool'[j2]) :
          pool'[j1][l1] = pool'[j2][l2] => j1 = j2 /\ l1 = l2
    BY DEF TstateExclusive
  <2>2. ASSUME NEW j \in Interps, NEW l \in 1..Len(pool'[j])
        PROVE  ~OnStack(pool[j][l])'
    <3>1. pool' = pool /\ ~OnStack(pool[j][l]) /\ pool[j][l] # ts
      BY <1>2, <1>6
    <3>2. ASSUME NEW x, x = pool[j][l] PROVE ~OnStack(x)'
      BY <1>5, <3>1, <3>2
    <3>3. QED BY <3>1, <3>2 DEF OnStack
  <2>3. QED
    <3>1. \A t1, t2 \in Thread : \A k1 \in 1..Len(stack'[t1]), k2 \in 1..Len(stack'[t2]) :
            stack'[t1][k1].ts = stack'[t2][k2].ts => t1 = t2 /\ k1 = k2
      BY <1>5
    <3>2. QED BY <2>1, <2>2, <3>1 DEF TstateExclusive
<1>8. TstateAtHome'
  <2>1. ASSUME NEW u \in Thread, NEW l \in 1..Len(stack'[u])
        PROVE  stack'[u][l].ts \in 1..ts /\ home'[stack'[u][l].ts] = stack'[u][l].interp
    <3>1. CASE l \in 1..Len(stack[u]) /\ stack'[u][l] = stack[u][l]
      <4>1. stack[u][l].ts \in 1..Len(home) /\ home[stack[u][l].ts] = stack[u][l].interp
        BY <3>1 DEF TstateAtHome
      <4>2. QED BY <1>1, <1>2, <3>1, <4>1
    <3>2. CASE stack'[u][l].ts = ts /\ stack'[u][l].interp = i
      <4>1. ts \in 1..ts
        BY <1>1 DEF ts
      <4>2. QED BY <1>4, <3>2, <4>1
    <3>3. QED BY ZenonT(30), <1>5, <2>1, <3>1, <3>2
  <2>2. ASSUME NEW j \in Interps, NEW l \in 1..Len(pool'[j])
        PROVE  pool'[j][l] \in 1..ts /\ home'[pool'[j][l]] = j
    <3>1. pool' = pool /\ pool[j][l] \in 1..Len(home) /\ home[pool[j][l]] = j
      BY <1>6
    <3>2. QED BY <1>1, <1>2, <3>1
  <2>3. QED BY <1>4, <2>1, <2>2 DEF TstateAtHome
<1>9. NoTstateLost'
  <2>1. ASSUME NEW x \in 2..ts, obcb[home'[x]] # "none"
        PROVE  InPool(home[x], x)' \/ OnStack(x)'
    <3>1. CASE x = ts
      BY <1>5, <3>1
    <3>2. CASE x \in 2..Len(home)
      <4>1. home'[x] = home[x]
        BY <1>1, <3>2
      <4>2. InPool(home[x], x) \/ OnStack(x)
        BY <2>1, <3>2, <4>1 DEF NoTstateLost
      <4>3. OnStack(x) => OnStack(x)'
        BY <1>5
      <4>4. InPool(home[x], x) => InPool(home[x], x)'
        <5>1. ASSUME NEW j, j = home[x] PROVE InPool(j, x) => InPool(j, x)'
          BY DEF InPool
        <5>2. QED BY <4>1, <5>1 DEF InPool
      <4>5. QED BY <4>2, <4>3, <4>4
    <3>3. QED BY <1>1, <2>1, <3>1, <3>2 DEF ts
  <2>2. QED BY <1>4, <2>1 DEF NoTstateLost
<1>10. QED BY <1>1, <1>5, <1>7, <1>8, <1>9 DEF ts

LEMMA HitNewStep ==
  ASSUME IInv, NEW t \in Thread, HitNew(t)
  PROVE  IInv'
<1> USE DEF IInv
<1>1. PICK k \in Matches(want[t]) \ {0} :
        /\ Enter(t, table[want[t]][k].idata, Len(home) + 1)
        /\ home' = Append(home, table[want[t]][k].idata)
  BY DEF HitNew
<1> DEFINE i == table[want[t]][k].idata
<1>2. i \in Interps /\ obcb[i] # "none"
  <2>1. want[t] \in Name /\ table[want[t]] \in Seq(Entry)
    BY DEF HitNew, TypeOK
  <2>2. k \in 1..Len(table[want[t]])
    BY <2>1, LenProperties DEF Matches
  <2>3. table[want[t]][k] \in Entry
    BY <2>1, <2>2, ElementOfSeq
  <2>4. QED BY <2>1, <2>2, <2>3 DEF Entry, Numbered
<1>3. /\ Enter(t, i, Len(home) + 1) /\ home' = Append(home, i)
      /\ pool' = pool /\ pc[t] = "lookup" /\ gil = t
  BY <1>1 DEF HitNew
<1> HIDE DEF i
<1>4. UNCHANGED <<gil, table, obcb, names, inits, ninterp, pool>>
  BY <1>3 DEF Enter
<1>5. /\ Push(t, i, Len(home) + 1) /\ current' = Len(home) + 1
      /\ pc' = [pc EXCEPT ![t] = pc'[t]]
      /\ \/ pc'[t] = "makecb"
         \/ pc'[t] = "run" /\ obcb[i] = "set"
      /\ want' = [want EXCEPT ![t] = NoName]
  <2>1. pc' = [pc EXCEPT ![t] = IF obcb[i] = "set" THEN "run" ELSE "makecb"]
    BY <1>3 DEF Enter, Goto
  <2>2. pc'[t] = IF obcb[i] = "set" THEN "run" ELSE "makecb"
    BY <2>1 DEF TypeOK
  <2>3. pc' = [pc EXCEPT ![t] = pc'[t]]
    BY <2>1, <2>2
  <2>4. /\ Push(t, i, Len(home) + 1) /\ current' = Len(home) + 1
        /\ want' = [want EXCEPT ![t] = NoName]
    BY <1>3 DEF Enter
  <2>5. QED BY <2>2, <2>3, <2>4
<1>6. /\ stack' \in [Thread -> Seq(Frame)]
      /\ home' \in Seq(Interps) /\ Len(home') = Len(home) + 1 /\ Len(home) \in Nat
      /\ home'[Len(home) + 1] = i
      /\ \A x \in 1..Len(home) : home'[x] = home[x]
      /\ Top(t)'.interp = i
      /\ \A u \in Thread : u # t => Top(u)' = Top(u) /\ pc'[u] = pc[u]
      /\ TstateExclusive' /\ TstateAtHome' /\ NoTstateLost'
      /\ Stacked' /\ CurrentMine' /\ HeldCall' /\ CallbackSet'
  BY <1>2, <1>3, <1>4, <1>5, NewTstateStep
<1>7. TypeOK'
  <2>1. /\ pc' \in [Thread -> {"apache", "want", "lookup", "resume"} \cup InPython]
        /\ want' \in [Thread -> Name \cup {NoName}]
        /\ \A u \in Thread : pc'[u] \in {"want", "lookup", "create"} => want'[u] \in Name
    BY <1>5 DEF TypeOK, InPython
  <2>2. QED BY SMTT(30), <1>4, <1>5, <1>6, <2>1 DEF TypeOK
<1>8. Numbered'
  <2>1. i <= ninterp
    BY <1>2 DEF Numbered, TypeOK, Interps
  <2>2. \A x \in 1..Len(home') : home'[x] <= ninterp
    BY <1>6, <2>1 DEF Numbered
  <2>3. QED BY <1>4, <2>2 DEF Numbered
<1>9. Creating'
  <2>1. ASSUME NEW u \in Thread, pc'[u] = "create"
        PROVE  pc[u] = "create" /\ Top(u)' = Top(u)
    BY <1>5, <1>6, <2>1
  <2>2. ASSUME NEW u \in Thread, pc'[u] = "create",
               NEW x \in 1..Len(home'), home'[x] = Top(u).interp
        PROVE  x = Top(u).ts
    <3>1. obcb[Top(u).interp] = "none"
      BY <2>1, <2>2 DEF Creating
    <3>2. x # Len(home) + 1
      BY <1>2, <1>6, <2>2, <3>1
    <3>3. x \in 1..Len(home) /\ home[x] = Top(u).interp
      BY <1>6, <2>2, <3>2
    <3>4. QED BY <2>1, <2>2, <3>3 DEF Creating
  <2>3. QED BY <1>4, <2>1, <2>2 DEF Creating
<1>10. Saved'
  <2>1. \A u \in Thread : pc'[u] = "makecb" /\ u # t => pc[u] = "makecb" /\ Top(u)' = Top(u)
    BY <1>6
  <2>2. Top(t)'.interp = i
    BY <1>6
  <2>3. QED BY <1>2, <1>4, <2>1, <2>2 DEF Saved
<1>11. QED BY <1>6, <1>7, <1>8, <1>9, <1>10

LEMMA MissStep ==
  ASSUME IInv, NEW t \in Thread, Miss(t)
  PROVE  IInv'
<1> USE DEF IInv
<1> DEFINE i == ninterp + 1
<1>1. i \in Interps /\ obcb[i] = "none" /\ ninterp \in Nat
  BY BoundAssumption DEF Miss, TypeOK, Interps, Numbered
<1>2. /\ ninterp' = i /\ home' = Append(home, i)
      /\ Push(t, i, Len(home) + 1) /\ current' = Len(home) + 1
      /\ gil = t /\ pc[t] = "lookup"
      /\ pc' = [pc EXCEPT ![t] = "create"] /\ pc'[t] = "create"
      /\ UNCHANGED <<gil, want, table, obcb, names, inits, pool>>
  BY DEF Miss, Goto, TypeOK
<1>3. pc' = [pc EXCEPT ![t] = pc'[t]]
  BY <1>2
<1>4. \A x \in 1..Len(home) : home[x] # i
  BY <1>1 DEF Numbered
<1>5. i > ninterp
  BY <1>1
<1> HIDE DEF i
<1>6. /\ stack' \in [Thread -> Seq(Frame)]
      /\ home' \in Seq(Interps) /\ Len(home') = Len(home) + 1 /\ Len(home) \in Nat
      /\ home'[Len(home) + 1] = i
      /\ \A x \in 1..Len(home) : home'[x] = home[x]
      /\ Top(t)'.interp = i /\ Top(t)'.ts = Len(home) + 1
      /\ \A u \in Thread : u # t => Top(u)' = Top(u) /\ pc'[u] = pc[u]
      /\ TstateExclusive' /\ TstateAtHome' /\ NoTstateLost'
      /\ Stacked' /\ CurrentMine' /\ HeldCall' /\ CallbackSet'
  BY <1>1, <1>2, <1>3, NewTstateStep
<1>7. TypeOK'
  <2>1. /\ pc' \in [Thread -> {"apache", "want", "lookup", "resume"} \cup InPython]
        /\ \A u \in Thread : pc'[u] \in {"want", "lookup", "create"} => want'[u] \in Name
    BY <1>2 DEF TypeOK, InPython
  <2>2. current' \in Nat /\ ninterp' \in Interps
    BY <1>1, <1>2, <1>6
  <2>3. QED BY <1>2, <1>6, <2>1, <2>2 DEF TypeOK
<1>8. Numbered'
  <2>1. \A j \in Interps : j > i => obcb[j] = "none"
    BY <1>1, <1>5 DEF Numbered, Interps
  <2>2. \A x \in 1..Len(home) : home[x] \in Interps /\ home[x] <= ninterp
    BY ElementOfSeq DEF Numbered, TypeOK
  <2>3. \A x \in 1..Len(home') : home'[x] <= i
    BY <1>1, <1>5, <1>6, <2>2 DEF Interps
  <2>4. QED BY <1>2, <2>1, <2>3 DEF Numbered
<1>9. Creating'
  <2>1. ASSUME NEW u \in Thread, pc'[u] = "create"
        PROVE  /\ obcb[Top(u)'.interp] = "none"
               /\ \A x \in 1..Len(home') : home'[x] = Top(u)'.interp => x = Top(u)'.ts
    <3>1. CASE u = t
      <4>1. \A x \in 1..Len(home') : home'[x] = i => x = Len(home) + 1
        <5>1. ASSUME NEW x \in 1..Len(home'), x # Len(home) + 1
              PROVE  home'[x] # i
          <6>1. x \in 1..Len(home)
            BY <1>6, <5>1
          <6>2. QED BY <1>4, <1>6, <6>1
        <5>2. QED BY <5>1
      <4>2. QED BY <1>1, <1>6, <3>1, <4>1
    <3>2. CASE u # t
      <4>1. pc[u] = "create" /\ Top(u)' = Top(u)
        BY <1>6, <2>1, <3>2
      <4>2. stack[u] # <<>>
        BY <4>1 DEF Stacked, InPython
      <4>3. Top(u).ts \in 1..Len(home) /\ home[Top(u).ts] = Top(u).interp
        <5>1. Top(u) = stack[u][Len(stack[u])] /\ Len(stack[u]) \in 1..Len(stack[u])
          BY <4>2, TopFacts
        <5>2. QED BY <5>1 DEF TstateAtHome
      <4>4. i # Top(u).interp
        BY <1>4, <4>3
      <4>5. \A x \in 1..Len(home') : home'[x] = Top(u).interp => x = Top(u).ts
        <5>1. ASSUME NEW x \in 1..Len(home'), home'[x] = Top(u).interp
              PROVE  x = Top(u).ts
          <6>1. x # Len(home) + 1
            BY <1>6, <4>4, <5>1
          <6>2. x \in 1..Len(home) /\ home[x] = Top(u).interp
            BY <1>6, <5>1, <6>1
          <6>3. QED BY <4>1, <6>2 DEF Creating
        <5>2. QED BY <5>1
      <4>6. QED BY <4>1, <4>5 DEF Creating
    <3>3. QED BY <3>1, <3>2
  <2>2. QED BY <1>2, <2>1 DEF Creating
<1>10. Saved'
  <2>1. \A u \in Thread : pc'[u] = "makecb" => pc[u] = "makecb" /\ Top(u)' = Top(u)
    BY <1>2, <1>6
  <2>2. QED BY <1>2, <2>1 DEF Saved
<1>11. QED BY <1>6, <1>7, <1>8, <1>9, <1>10

\* save_interpreter(): the frame is already there.
LEMMA CreateOkStep ==
  ASSUME IInv, NEW t \in Thread, CreateOk(t)
  PROVE  IInv'
<1> USE DEF IInv
<1> DEFINE n == want[t]
           i == Top(t).interp
<1>1. /\ pc[t] = "create" /\ gil = t /\ n \in Name
      /\ pc' = [pc EXCEPT ![t] = "makecb"]
      /\ want' = [want EXCEPT ![t] = NoName]
      /\ obcb' = [obcb EXCEPT ![i] = "null"] /\ names' = [names EXCEPT ![i] = n]
      /\ UNCHANGED <<gil, current, stack, inits, pool, home, ninterp>>
  BY DEF CreateOk, Goto, TypeOK
<1>2. PICK k \in Matches(n) :
        table' = [table EXCEPT ![n] =
           IF k = 0
           THEN Append(table[n], [idata    |-> i,
                                  owner    |-> IF n \in RequestNames THEN t ELSE NoThread,
                                  dangling |-> FALSE])
           ELSE [table[n] EXCEPT ![k] = [table[n][k] EXCEPT !.idata = i]]]
  BY DEF CreateOk
<1>3. /\ stack[t] # <<>> /\ Len(stack[t]) \in Nat \ {0}
      /\ Top(t) = stack[t][Len(stack[t])] /\ i \in Interps
      /\ Top(t).ts \in 1..Len(home) /\ home[Top(t).ts] = i
  <2>1. stack[t] # <<>>
    BY <1>1 DEF Stacked, InPython
  <2>2. Len(stack[t]) \in Nat \ {0} /\ Top(t) = stack[t][Len(stack[t])] /\ Top(t) \in Frame
    BY <2>1, TopFacts
  <2>3. Len(stack[t]) \in 1..Len(stack[t])
    BY <2>2
  <2>4. QED BY <2>1, <2>2, <2>3 DEF TstateAtHome, Frame
<1>4. i <= ninterp /\ obcb[i] = "none"
  BY <1>1, <1>3 DEF Numbered, Creating
<1>5. \A x \in 1..Len(home) : home[x] = i => x = Top(t).ts
  BY <1>1 DEF Creating
<1>6. table[n] \in Seq(Entry) /\ table' \in [Name -> Seq(Entry)]
      /\ \A m \in Name : \A l \in 1..Len(table'[m]) :
           \/ table'[m][l].idata = i
           \/ l \in 1..Len(table[m]) /\ table'[m][l] = table[m][l]
  <2> DEFINE s == table'[n]
  <2>1. table[n] \in Seq(Entry)
    BY <1>1 DEF TypeOK
  <2>2. table' = [table EXCEPT ![n] = s]
    BY <1>1, <1>2 DEF TypeOK
  <2>3. /\ s \in Seq(Entry)
        /\ \A l \in 1..Len(s) : s[l].idata = i \/ (l \in 1..Len(table[n]) /\ s[l] = table[n][l])
    <3>1. CASE k = 0
      <4> DEFINE e == [idata    |-> i,
                       owner    |-> IF n \in RequestNames THEN t ELSE NoThread,
                       dangling |-> FALSE]
      <4>1. e \in Entry /\ e.idata = i
        BY <1>3 DEF Entry
      <4>2. s = Append(table[n], e)
        BY <1>1, <1>2, <3>1 DEF TypeOK
      <4> HIDE DEF e, s
      <4>3. /\ s \in Seq(Entry) /\ Len(s) = Len(table[n]) + 1 /\ Len(table[n]) \in Nat
            /\ s[Len(table[n]) + 1] = e
            /\ \A l \in 1..Len(table[n]) : s[l] = table[n][l]
        BY <2>1, <4>1, <4>2, AppendProperties, LenProperties
      <4>4. QED BY <4>1, <4>3
    <3>2. CASE k # 0
      <4> DEFINE e == [table[n][k] EXCEPT !.idata = i]
      <4>1. k \in 1..Len(table[n]) /\ Len(table[n]) \in Nat
        BY <2>1, <3>2, LenProperties DEF Matches
      <4>2. \A l \in 1..Len(table[n]) : table[n][l] \in Entry
        BY <2>1, ElementOfSeq
      <4>3. e \in Entry /\ e.idata = i
        BY <1>3, <4>1, <4>2 DEF Entry
      <4>4. s = [table[n] EXCEPT ![k] = e]
        BY <1>1, <1>2, <3>2 DEF TypeOK
      <4> HIDE DEF e, s
      <4>5. /\ s \in Seq(Entry) /\ Len(s) = Len(table[n])
            /\ \A l \in 1..Len(table[n]) : s[l] = IF l = k THEN e ELSE table[n][l]
        BY <2>1, <4>1, <4>3, <4>4, ExceptSeq
      <4>6. QED BY <4>3, <4>5
    <3>3. QED BY <3>1, <3>2
  <2> HIDE DEF s
  <2>4. table' \in [Name -> Seq(Entry)] /\ table'[n] = s /\ \A m \in Name : m # n => table'[m] = table[m]
    BY <1>1, <2>2, <2>3 DEF TypeOK
  <2>5. QED BY <2>1, <2>3, <2>4
<1> HIDE DEF n, i
<1>7. \A u \in Thread : u # t => pc'[u] = pc[u]
  BY <1>1 DEF TypeOK
<1>8. \A j \in Interps : obcb'[j] = IF j = i THEN "null" ELSE obcb[j]
  BY <1>1 DEF TypeOK
<1>9. pc'[t] = "makecb"
  BY <1>1 DEF TypeOK
<1>10. TypeOK'
  <2>1. /\ pc' \in [Thread -> {"apache", "want", "lookup", "resume"} \cup InPython]
        /\ want' \in [Thread -> Name \cup {NoName}]
        /\ \A u \in Thread : pc'[u] \in {"want", "lookup", "create"} => want'[u] \in Name
    BY <1>1 DEF TypeOK, InPython
  <2>2. obcb' \in [Interps -> {"none", "null", "set"}] /\ names' \in [Interps -> Name \cup {NoName}]
    BY <1>1 DEF TypeOK
  <2>3. QED BY <1>1, <1>6, <2>1, <2>2 DEF TypeOK
<1>11. TstateExclusive' /\ TstateAtHome'
  <2>1. stack' = stack /\ pool' = pool /\ home' = home
    BY <1>1
  <2>2. TstateAtHome'
    BY <2>1 DEF TstateAtHome
  <2>3. QED BY SMTT(30), <2>1, <2>2 DEF TstateExclusive, OnStack
<1>12. \A u \in Thread : Top(u)' = Top(u) /\ Settled(u)' = Settled(u)
  BY <1>1, <1>7, <1>9 DEF Top, Settled
<1>13. OnStack(Top(t).ts)
  BY <1>3 DEF OnStack
<1>14. NoTstateLost'
  <2>1. ASSUME NEW x \in 2..Len(home), obcb'[home[x]] # "none"
        PROVE  InPool(home[x], x) \/ OnStack(x)
    <3>1. CASE home[x] = i
      <4>1. x \in 1..Len(home)
        BY <2>1, LenProperties DEF TypeOK
      <4>2. QED BY <1>5, <1>13, <3>1, <4>1
    <3>2. CASE home[x] # i
      <4>1. x \in 1..Len(home) /\ home[x] \in Interps
        BY <2>1, LenProperties, ElementOfSeq DEF TypeOK
      <4>2. QED BY <1>8, <2>1, <3>2, <4>1 DEF NoTstateLost
    <3>3. QED BY <3>1, <3>2
  <2>2. QED BY <1>1, <2>1 DEF NoTstateLost, InPool, OnStack
<1>15. Stacked' /\ CurrentMine' /\ HeldCall'
  BY <1>1, <1>3, <1>7, <1>9, <1>12 DEF Stacked, CurrentMine, HeldCall, InPython
<1>16. CallbackSet'
  <2>1. ASSUME NEW u \in Thread, NEW l \in 1..Settled(u)
        PROVE  obcb'[stack[u][l].interp] = "set"
    <3>1. l \in 1..Len(stack[u]) /\ stack[u] \in Seq(Frame)
      BY LenProperties DEF Settled, TypeOK
    <3>2. stack[u][l] \in Frame
      BY <3>1, ElementOfSeq
    <3>3. obcb[stack[u][l].interp] = "set"
      BY DEF CallbackSet
    <3>4. QED BY <1>4, <1>8, <3>2, <3>3 DEF Frame
  <2>2. QED BY <1>1, <1>12, <2>1 DEF CallbackSet
<1>17. ASSUME NEW u \in Thread, pc'[u] = "create"
       PROVE  /\ pc[u] = "create" /\ Top(u).interp # i /\ Top(u).interp \in Interps
  <2>1. u # t /\ pc[u] = "create" /\ stack[u] # <<>>
    BY <1>7, <1>9, <1>17 DEF Stacked, InPython
  <2>2. /\ Top(u) = stack[u][Len(stack[u])] /\ Len(stack[u]) \in 1..Len(stack[u])
        /\ Top(u) \in Frame
    BY <2>1, TopFacts
  <2>3. Top(u).ts \in 1..Len(home) /\ home[Top(u).ts] = Top(u).interp
    BY <2>2 DEF TstateAtHome
  <2>4. Top(u).ts # Top(t).ts
    <3>1. Len(stack[t]) \in 1..Len(stack[t])
      BY <1>3
    <3>2. QED BY <1>3, <2>1, <2>2, <3>1 DEF TstateExclusive
  <2>5. QED BY <1>5, <2>1, <2>2, <2>3, <2>4 DEF Frame
<1>18. Creating'
  BY <1>1, <1>8, <1>12, <1>17 DEF Creating
<1>19. Saved'
  <2>1. ASSUME NEW u \in Thread, pc'[u] = "makecb" PROVE obcb'[Top(u).interp] # "none"
    <3>1. CASE u = t
      BY <1>3, <1>8, <3>1 DEF i
    <3>2. CASE u # t
      <4>1. pc[u] = "makecb" /\ stack[u] # <<>>
        BY <1>7, <2>1, <3>2 DEF Stacked, InPython
      <4>2. Top(u).interp \in Interps
        BY <4>1, TopFacts DEF Frame
      <4>3. QED BY <1>8, <4>1, <4>2 DEF Saved
    <3>3. QED BY <3>1, <3>2
  <2>2. QED BY <1>12, <2>1 DEF Saved
<1>20. Numbered'
  <2>1. \A j \in Interps : j > ninterp => obcb'[j] = "none"
    BY <1>3, <1>4, <1>8 DEF Numbered, TypeOK, Interps
  <2>2. ASSUME NEW m \in Name, NEW l \in 1..Len(table'[m])
        PROVE  obcb'[table'[m][l].idata] # "none"
    <3>1. CASE table'[m][l].idata = i
      BY <1>3, <1>8, <3>1 DEF i
    <3>2. CASE l \in 1..Len(table[m]) /\ table'[m][l] = table[m][l]
      <4>1. table[m][l] \in Entry
        BY <3>2, ElementOfSeq DEF TypeOK
      <4>2. QED BY <1>8, <3>2, <4>1 DEF Numbered, Entry
    <3>3. QED BY <1>6, <3>1, <3>2
  <2>3. QED BY <1>1, <2>1, <2>2 DEF Numbered
<1>21. QED BY <1>10, <1>11, <1>14, <1>15, <1>16, <1>18, <1>19, <1>20

\* What all ways to leave get_interpreter()/release_interpreter() have in common: the
\* innermost frame of the thread that holds the GIL goes.
LEMMA PopStep ==
  ASSUME IInv, NEW t \in Thread,
         gil = t, pc[t] \in InPython, Pop(t),
         pc' = [pc EXCEPT ![t] = "apache"], obcb' = obcb,
         \/ gil' = t
         \/ gil' = NoThread /\ current' = 0
  PROVE  /\ stack' \in [Thread -> Seq(Frame)]
         /\ \A t1, t2 \in Thread : \A k1 \in 1..Len(stack'[t1]), k2 \in 1..Len(stack'[t2]) :
              stack'[t1][k1].ts = stack'[t2][k2].ts => t1 = t2 /\ k1 = k2
         /\ \A x : OnStack(x)' => OnStack(x) /\ x # Top(t).ts
         /\ \A x : OnStack(x) => OnStack(x)' \/ x = Top(t).ts
         /\ \A u \in Thread : \A k \in 1..Len(stack'[u]) :
              k \in 1..Len(stack[u]) /\ stack'[u][k] = stack[u][k]
         /\ \A u \in Thread : u # t => Top(u)' = Top(u) /\ pc'[u] = pc[u]
         /\ pc'[t] = "apache"
         /\ Top(t) \in Frame /\ OnStack(Top(t).ts)
         /\ Top(t).ts \in 1..Len(home) /\ home[Top(t).ts] = Top(t).interp
         /\ Stacked' /\ CurrentMine' /\ HeldCall' /\ CallbackSet' /\ Saved'
<1> USE DEF IInv
<1> DEFINE d == Len(stack[t])
<1>1. stack[t] # <<>>
  BY DEF Stacked
<1>2. /\ stack' \in [Thread -> Seq(Frame)]
      /\ \A u \in Thread : u # t => stack'[u] = stack[u]
      /\ d \in Nat \ {0} /\ Len(stack'[t]) = d - 1
      /\ \A k \in 1..d - 1 : stack'[t][k] = stack[t][k]
  BY <1>1, PopFacts
<1>3. Top(t) = stack[t][d] /\ Top(t) \in Frame
  BY <1>1, TopFacts
<1>4. d \in 1..Len(stack[t])
  BY <1>2
<1>5. pc'[t] = "apache" /\ \A u \in Thread : u # t => pc'[u] = pc[u]
  BY DEF TypeOK
<1> HIDE DEF d
<1>6. ASSUME NEW u \in Thread, NEW k \in 1..Len(stack'[u])
      PROVE  k \in 1..Len(stack[u]) /\ stack'[u][k] = stack[u][k] /\ ~(u = t /\ k = d)
  <2>1. CASE u # t
    BY <1>2, <1>6, <2>1
  <2>2. CASE u = t
    <3>1. k \in 1..d - 1
      BY <1>2, <1>6, <2>2
    <3>2. QED BY <1>2, <2>2, <3>1 DEF d
  <2>3. QED BY <2>1, <2>2
<1>7. ASSUME NEW u \in Thread, NEW k \in 1..Len(stack[u]), ~(u = t /\ k = d)
      PROVE  k \in 1..Len(stack'[u]) /\ stack'[u][k] = stack[u][k]
  <2>1. CASE u # t
    BY <1>2, <1>7, <2>1
  <2>2. CASE u = t
    <3>1. k \in 1..d - 1
      BY <1>2, <1>7, <2>2 DEF d
    <3>2. QED BY <1>2, <2>2, <3>1
  <2>3. QED BY <2>1, <2>2
<1>8. ASSUME NEW t1 \in Thread, NEW t2 \in Thread,
             NEW k1 \in 1..Len(stack'[t1]), NEW k2 \in 1..Len(stack'[t2]),
             stack'[t1][k1].ts = stack'[t2][k2].ts
      PROVE  t1 = t2 /\ k1 = k2
  <2>1. k1 \in 1..Len(stack[t1]) /\ stack'[t1][k1] = stack[t1][k1]
    BY <1>6
  <2>2. k2 \in 1..Len(stack[t2]) /\ stack'[t2][k2] = stack[t2][k2]
    BY <1>6
  <2>3. QED BY <1>8, <2>1, <2>2 DEF TstateExclusive
<1>9. ASSUME NEW x, OnStack(x)' PROVE OnStack(x) /\ x # Top(t).ts
  <2>1. PICK u \in Thread : \E k \in 1..Len(stack'[u]) : stack'[u][k].ts = x
    BY <1>9 DEF OnStack
  <2>2. PICK k \in 1..Len(stack'[u]) : stack'[u][k].ts = x
    BY <2>1
  <2>3. k \in 1..Len(stack[u]) /\ stack[u][k].ts = x /\ ~(u = t /\ k = d)
    BY <1>6, <2>2
  <2>4. x # stack[t][d].ts
    BY <1>4, <2>3 DEF TstateExclusive
  <2>5. QED BY <1>3, <2>3, <2>4 DEF OnStack
<1>10. ASSUME NEW x, OnStack(x), x # Top(t).ts PROVE OnStack(x)'
  <2>1. PICK u \in Thread : \E k \in 1..Len(stack[u]) : stack[u][k].ts = x
    BY <1>10 DEF OnStack
  <2>2. PICK k \in 1..Len(stack[u]) : stack[u][k].ts = x
    BY <2>1
  <2>3. ~(u = t /\ k = d)
    BY <1>3, <1>10, <2>2
  <2>4. k \in 1..Len(stack'[u]) /\ stack'[u][k].ts = x
    BY <1>7, <2>2, <2>3
  <2>5. QED BY <2>4 DEF OnStack
<1>11. \A u \in Thread : u # t => Top(u)' = Top(u)
  BY <1>2 DEF Top, Last
<1>12. OnStack(Top(t).ts) /\ Top(t).ts \in 1..Len(home) /\ home[Top(t).ts] = Top(t).interp
  <2>1. OnStack(Top(t).ts)
    BY <1>3, <1>4 DEF OnStack
  <2>2. QED BY <1>3, <1>4, <2>1 DEF TstateAtHome
<1>13. Stacked'
  BY <1>2, <1>5 DEF Stacked, InPython
<1>14. CurrentMine'
  BY <1>5, ThreadAssumption DEF CurrentMine, InPython
<1>15. HeldCall'
  <2>1. \A u \in Thread : \A k \in 1..Len(stack[u]) : ~stack[u][k].held
    BY DEF HeldCall, InPython
  <2>2. \A u \in Thread : \A k \in 1..Len(stack'[u]) : ~stack'[u][k].held
    BY <1>6, <2>1
  <2>3. QED BY <2>2 DEF HeldCall
<1>16. CallbackSet'
  <2>1. ASSUME NEW u \in Thread, NEW k \in 1..Settled(u)'
        PROVE  obcb[stack'[u][k].interp] = "set"
    <3>1. CASE u # t
      BY <1>2, <1>5, <2>1, <3>1 DEF CallbackSet, Settled
    <3>2. CASE u = t
      <4>1. k \in 1..d - 1
        BY <1>2, <1>5, <2>1, <3>2 DEF Settled
      <4>2. k \in 1..Settled(t)
        BY <1>2, <4>1 DEF Settled, d
      <4>3. QED BY <1>2, <3>2, <4>1, <4>2 DEF CallbackSet
    <3>3. QED BY <3>1, <3>2
  <2>2. QED BY <2>1 DEF CallbackSet
<1>17. Saved'
  BY <1>5, <1>11 DEF Saved
<1>18. QED BY <1>2, <1>3, <1>5, <1>6, <1>8, <1>9, <1>10, <1>11, <1>12, <1>13, <1>14, <1>15, <1>16, <1>17

\* get_interpreter() gives up on an interpreter it could not make or save.
LEMMA FailStep ==
  ASSUME IInv, NEW t \in Thread, CreateFail(t) \/ SaveFail(t)
  PROVE  IInv'
<1> USE DEF IInv
<1>1. /\ gil = t /\ gil' = t /\ pc[t] = "create" /\ pc[t] \in InPython /\ Pop(t)
      /\ pc' = [pc EXCEPT ![t] = "apache"]
      /\ want' = [want EXCEPT ![t] = NoName]
      /\ UNCHANGED <<table, obcb, names, inits, pool, home, ninterp>>
      /\ current' \in Nat
  BY DEF CreateFail, SaveFail, Goto, InPython, Global, TypeOK
<1>2. /\ stack' \in [Thread -> Seq(Frame)]
      /\ \A t1, t2 \in Thread : \A k1 \in 1..Len(stack'[t1]), k2 \in 1..Len(stack'[t2]) :
           stack'[t1][k1].ts = stack'[t2][k2].ts => t1 = t2 /\ k1 = k2
      /\ \A x : OnStack(x)' => OnStack(x)
      /\ \A x : OnStack(x) => OnStack(x)' \/ x = Top(t).ts
      /\ \A u \in Thread : \A k \in 1..Len(stack'[u]) :
           k \in 1..Len(stack[u]) /\ stack'[u][k] = stack[u][k]
      /\ \A u \in Thread : u # t => Top(u)' = Top(u) /\ pc'[u] = pc[u]
      /\ pc'[t] = "apache"
      /\ home[Top(t).ts] = Top(t).interp
      /\ Stacked' /\ CurrentMine' /\ HeldCall' /\ CallbackSet' /\ Saved'
  BY <1>1, PopStep
<1>3. obcb' = obcb /\ pool' = pool /\ home' = home
  BY <1>1
<1>4. TypeOK'
  <2>1. /\ pc' \in [Thread -> {"apache", "want", "lookup", "resume"} \cup InPython]
        /\ want' \in [Thread -> Name \cup {NoName}]
        /\ \A u \in Thread : pc'[u] \in {"want", "lookup", "create"} => want'[u] \in Name
    BY <1>1 DEF TypeOK, InPython
  <2>2. QED BY <1>1, <1>2, <2>1 DEF TypeOK
<1>5. TstateExclusive'
  <2>1. ASSUME NEW j \in Interps, NEW l \in 1..Len(pool[j]) PROVE ~OnStack(pool[j][l])'
    <3>1. ~OnStack(pool[j][l])
      BY DEF TstateExclusive
    <3>2. ASSUME NEW x, x = pool[j][l] PROVE ~OnStack(x)'
      BY <1>2, <3>1, <3>2
    <3>3. QED BY <1>3, <3>2 DEF OnStack
  <2>2. \A i, j \in Interps : \A k \in 1..Len(pool'[i]), l \in 1..Len(pool'[j]) :
          pool'[i][k] = pool'[j][l] => i = j /\ k = l
    BY <1>3 DEF TstateExclusive
  <2>3. \A t1, t2 \in Thread : \A k1 \in 1..Len(stack'[t1]), k2 \in 1..Len(stack'[t2]) :
          stack'[t1][k1].ts = stack'[t2][k2].ts => t1 = t2 /\ k1 = k2
    BY <1>2
  <2>4. QED BY <1>3, <2>1, <2>2, <2>3 DEF TstateExclusive
<1>6. TstateAtHome'
  <2>1. \A u \in Thread : \A k \in 1..Len(stack'[u]) :
          stack'[u][k].ts \in 1..Len(home) /\ home[stack'[u][k].ts] = stack'[u][k].interp
    BY <1>2 DEF TstateAtHome
  <2>2. QED BY <1>3, <2>1 DEF TstateAtHome
<1>7. NoTstateLost'
  <2>1. obcb[home[Top(t).ts]] = "none"
    BY <1>1, <1>2 DEF Creating
  <2>2. ASSUME NEW x \in 2..Len(home), obcb[home[x]] # "none"
        PROVE  InPool(home[x], x) \/ OnStack(x)'
    BY <1>2, <2>1, <2>2 DEF NoTstateLost
  <2>3. QED BY <1>3, <2>2 DEF NoTstateLost, InPool
<1>8. Creating'
  <2>1. \A u \in Thread : pc'[u] = "create" => pc[u] = "create" /\ Top(u)' = Top(u)
    BY <1>2
  <2>2. QED BY <1>3, <2>1 DEF Creating
<1>9. Numbered'
  BY <1>1 DEF Numbered
<1>10. QED BY <1>2, <1>4, <1>5, <1>6, <1>7, <1>8, <1>9

\* The current tstate, which is the innermost frame's, goes to the array of its interpreter.
LEMMA ReleaseStep ==
  ASSUME IInv, NEW t \in Thread, Release(t) \/ CallbackFail(t)
  PROVE  IInv'
<1> USE DEF IInv
<1> DEFINE i == Top(t).interp
           n == Len(pool[i])
           ts == Top(t).ts
<1>1. /\ gil = t /\ pc[t] \in {"run", "makecb"} /\ pc[t] \in InPython /\ Pop(t)
      /\ gil' = NoThread /\ current' = 0
      /\ pc' = [pc EXCEPT ![t] = "apache"]
      /\ UNCHANGED <<want, table, obcb, names, inits, home, ninterp>>
      /\ pool' = [pool EXCEPT ![i] = Append(pool[i], current)]
  BY DEF Release, CallbackFail, ReleaseInterpreter, Goto, InPython
<1>2. /\ stack' \in [Thread -> Seq(Frame)]
      /\ \A t1, t2 \in Thread : \A k1 \in 1..Len(stack'[t1]), k2 \in 1..Len(stack'[t2]) :
           stack'[t1][k1].ts = stack'[t2][k2].ts => t1 = t2 /\ k1 = k2
      /\ \A x : OnStack(x)' => OnStack(x) /\ x # ts
      /\ \A x : OnStack(x) => OnStack(x)' \/ x = ts
      /\ \A u \in Thread : \A k \in 1..Len(stack'[u]) :
           k \in 1..Len(stack[u]) /\ stack'[u][k] = stack[u][k]
      /\ \A u \in Thread : u # t => Top(u)' = Top(u) /\ pc'[u] = pc[u]
      /\ pc'[t] = "apache"
      /\ Top(t) \in Frame /\ OnStack(ts)
      /\ ts \in 1..Len(home) /\ home[ts] = i
      /\ Stacked' /\ CurrentMine' /\ HeldCall' /\ CallbackSet' /\ Saved'
  BY <1>1, PopStep
<1>3. current = ts /\ ts \in Nat /\ i \in Interps
  BY <1>1, <1>2 DEF CurrentMine, Frame
<1>4. obcb' = obcb /\ home' = home
  BY <1>1
<1>5. pool' = [pool EXCEPT ![i] = Append(pool[i], ts)]
  BY <1>1, <1>3
<1> HIDE DEF i, n, ts
<1>6. /\ pool' \in [Interps -> Seq(Nat)] /\ n \in Nat
      /\ \A j \in Interps : \A l \in 1..Len(pool'[j]) :
            \/ l \in 1..Len(pool[j]) /\ pool'[j][l] = pool[j][l]
            \/ j = i /\ l = n + 1 /\ pool'[j][l] = ts
      /\ \A j \in Interps : \A l \in 1..Len(pool[j]) :
            l \in 1..Len(pool'[j]) /\ pool'[j][l] = pool[j][l]
      /\ n + 1 \in 1..Len(pool'[i]) /\ pool'[i][n + 1] = ts
  <2> DEFINE s == Append(pool[i], ts)
  <2>1. pool[i] \in Seq(Nat)
    BY <1>3 DEF TypeOK
  <2>2. /\ s \in Seq(Nat) /\ n \in Nat /\ Len(s) = n + 1 /\ s[n + 1] = ts
        /\ \A l \in 1..n : s[l] = pool[i][l]
    BY <1>3, <2>1, AppendProperties, LenProperties DEF n
  <2> HIDE DEF s
  <2>3. pool' = [pool EXCEPT ![i] = s]
    BY <1>5 DEF s
  <2>4. pool' \in [Interps -> Seq(Nat)] /\ pool'[i] = s
        /\ \A j \in Interps : j # i => pool'[j] = pool[j]
    BY <1>3, <2>2, <2>3 DEF TypeOK
  <2>5. ASSUME NEW j \in Interps, NEW l \in 1..Len(pool'[j]), ~(j = i /\ l = n + 1)
        PROVE  l \in 1..Len(pool[j]) /\ pool'[j][l] = pool[j][l]
    <3>1. CASE j = i
      <4>1. l \in 1..n
        BY <2>2, <2>4, <2>5, <3>1
      <4>2. QED BY <2>2, <2>4, <3>1, <4>1 DEF n
    <3>2. CASE j # i
      BY <2>4, <2>5, <3>2
    <3>3. QED BY <3>1, <3>2
  <2>6. ASSUME NEW j \in Interps, NEW l \in 1..Len(pool[j])
        PROVE  l \in 1..Len(pool'[j]) /\ pool'[j][l] = pool[j][l]
    <3>1. CASE j = i
      <4>1. l \in 1..n
        BY <2>6, <3>1 DEF n
      <4>2. QED BY <2>2, <2>4, <3>1, <4>1
    <3>2. CASE j # i
      BY <2>4, <2>6, <3>2
    <3>3. QED BY <3>1, <3>2
  <2>7. n + 1 \in 1..Len(pool'[i]) /\ pool'[i][n + 1] = ts
    BY <2>2, <2>4
  <2>8. QED BY <2>2, <2>4, <2>5, <2>6, <2>7
<1>7. TypeOK'
  <2>1. /\ pc' \in [Thread -> {"apache", "want", "lookup", "resume"} \cup InPython]
        /\ \A u \in Thread : pc'[u] \in {"want", "lookup", "create"} => want'[u] \in Name
    BY <1>1 DEF TypeOK, InPython
  <2>2. QED BY <1>1, <1>2, <1>6, <2>1 DEF TypeOK
<1>8. \A j \in Interps : \A l \in 1..Len(pool[j]) : ~OnStack(pool[j][l]) /\ pool[j][l] # ts
  BY <1>2 DEF TstateExclusive
<1>9. TstateExclusive'
  <2>1. ASSUME NEW j \in Interps, NEW l \in 1..Len(pool'[j]) PROVE ~OnStack(pool[j][l])'
    <3>1. CASE l \in 1..Len(pool[j]) /\ pool'[j][l] = pool[j][l]
      <4>1. ASSUME NEW x, x = pool[j][l] PROVE ~OnStack(x)'
        BY <1>2, <1>8, <3>1, <4>1
      <4>2. QED BY <3>1, <4>1 DEF OnStack
    <3>2. CASE pool'[j][l] = ts
      <4>1. ASSUME NEW x, x = ts PROVE ~OnStack(x)'
        BY <1>2, <4>1
      <4>2. QED BY <3>2, <4>1 DEF OnStack
    <3>3. QED BY <1>6, <2>1, <3>1, <3>2
  <2>2. ASSUME NEW j1 \in Interps, NEW j2 \in Interps,
               NEW l1 \in 1..Len(pool'[j1]), NEW l2 \in 1..Len(pool'[j2]),
               pool'[j1][l1] = pool'[j2][l2]
        PROVE  j1 = j2 /\ l1 = l2
    <3>1. CASE /\ l1 \in 1..Len(pool[j1]) /\ pool'[j1][l1] = pool[j1][l1]
               /\ l2 \in 1..Len(pool[j2]) /\ pool'[j2][l2] = pool[j2][l2]
      <4>1. pool[j1][l1] = pool[j2][l2]
        BY <2>2, <3>1
      <4>2. QED BY <3>1, <4>1 DEF TstateExclusive
    <3>2. CASE j1 = i /\ l1 = n + 1 /\ pool'[j1][l1] = ts
      <4>1. pool'[j2][l2] = ts
        BY <2>2, <3>2
      <4>2. ~(l2 \in 1..Len(pool[j2]) /\ pool'[j2][l2] = pool[j2][l2])
        BY <1>8, <4>1
      <4>3. QED BY <1>6, <3>2, <4>2
    <3>3. CASE j2 = i /\ l2 = n + 1 /\ pool'[j2][l2] = ts
      <4>1. pool'[j1][l1] = ts
        BY <2>2, <3>3
      <4>2. ~(l1 \in 1..Len(pool[j1]) /\ pool'[j1][l1] = pool[j1][l1])
        BY <1>8, <4>1
      <4>3. QED BY <1>6, <3>3, <4>2
    <3>4. QED BY <1>6, <2>2, <3>1, <3>2, <3>3
  <2>3. \A t1, t2 \in Thread : \A k1 \in 1..Len(stack'[t1]), k2 \in 1..Len(stack'[t2]) :
          stack'[t1][k1].ts = stack'[t2][k2].ts => t1 = t2 /\ k1 = k2
    BY <1>2
  <2>4. QED BY <2>1, <2>2, <2>3 DEF TstateExclusive
<1>10. TstateAtHome'
  <2>1. \A u \in Thread : \A k \in 1..Len(stack'[u]) :
          stack'[u][k].ts \in 1..Len(home) /\ home[stack'[u][k].ts] = stack'[u][k].interp
    BY SMTT(30), <1>2 DEF TstateAtHome
  <2>2. \A j \in Interps : \A l \in 1..Len(pool'[j]) :
          pool'[j][l] \in 1..Len(home) /\ home[pool'[j][l]] = j
    <3>1. ASSUME NEW j \in Interps, NEW l \in 1..Len(pool'[j])
          PROVE  pool'[j][l] \in 1..Len(home) /\ home[pool'[j][l]] = j
      <4>1. CASE l \in 1..Len(pool[j]) /\ pool'[j][l] = pool[j][l]
        BY <4>1 DEF TstateAtHome
      <4>2. CASE j = i /\ pool'[j][l] = ts
        BY <1>2, <4>2
      <4>3. QED BY <1>6, <3>1, <4>1, <4>2
    <3>2. QED BY <3>1
  <2>3. QED BY <1>4, <2>1, <2>2 DEF TstateAtHome
<1>11. NoTstateLost'
  <2>1. ASSUME NEW x \in 2..Len(home), obcb[home[x]] # "none"
        PROVE  InPool(home[x], x)' \/ OnStack(x)'
    <3>1. home[x] \in Interps
      BY LenProperties, ElementOfSeq DEF TypeOK
    <3>2. CASE x = ts
      <4>1. \E l \in 1..Len(pool'[home[x]]) : pool'[home[x]][l] = x
        BY <1>2, <1>6, <3>2
      <4>2. QED BY <1>4, <4>1 DEF InPool
    <3>3. CASE OnStack(x) /\ x # ts
      BY <1>2, <3>3
    <3>4. CASE InPool(home[x], x)
      <4>1. PICK l \in 1..Len(pool[home[x]]) : pool[home[x]][l] = x
        BY <3>4 DEF InPool
      <4>2. l \in 1..Len(pool'[home[x]]) /\ pool'[home[x]][l] = x
        BY <1>6, <3>1, <4>1
      <4>3. QED BY <1>4, <4>2 DEF InPool
    <3>5. QED BY <2>1, <3>2, <3>3, <3>4 DEF NoTstateLost
  <2>2. QED BY <1>4, <2>1 DEF NoTstateLost
<1>12. Creating'
  <2>1. \A u \in Thread : pc'[u] = "create" => pc[u] = "create" /\ Top(u)' = Top(u)
    BY <1>2
  <2>2. QED BY <1>4, <2>1 DEF Creating
<1>13. Numbered'
  BY <1>1 DEF Numbered
<1>14. QED BY <1>2, <1>7, <1>9, <1>10, <1>11, <1>12, <1>13

\* apache.init() returned an object.
LEMMA CallbackOkStep ==
  ASSUME IInv, NEW t \in Thread, CallbackOk(t)
  PROVE  IInv'
<1> USE DEF IInv
<1> DEFINE i == Top(t).interp
<1>1. /\ pc[t] = "makecb" /\ gil = t
      /\ pc' = [pc EXCEPT ![t] = "run"]
      /\ obcb' = [obcb EXCEPT ![i] = "set"] /\ inits' = [inits EXCEPT ![i] = inits[i] + 1]
      /\ UNCHANGED <<gil, current, want, stack, table, names, pool, home, ninterp>>
  BY DEF CallbackOk, Goto
<1>2. stack[t] # <<>>
  BY <1>1 DEF Stacked, InPython
<1>3. /\ Len(stack[t]) \in Nat \ {0} /\ Top(t) = stack[t][Len(stack[t])] /\ i \in Interps
  BY <1>2, TopFacts DEF Frame
<1>4. obcb[i] # "none"
  BY <1>1 DEF Saved
<1> HIDE DEF i
<1>5. pc'[t] = "run" /\ \A u \in Thread : u # t => pc'[u] = pc[u]
  BY <1>1 DEF TypeOK
<1>6. \A j \in Interps : obcb'[j] = IF j = i THEN "set" ELSE obcb[j]
  BY <1>1 DEF TypeOK
<1>7. \A j \in Interps : /\ obcb'[j] = "none" <=> obcb[j] = "none"
                         /\ obcb[j] = "set" => obcb'[j] = "set"
  BY <1>4, <1>6
<1>8. gil' = gil /\ current' = current /\ stack' = stack /\ pool' = pool /\ home' = home
  BY <1>1
<1>9. TypeOK'
  <2>1. /\ pc' \in [Thread -> {"apache", "want", "lookup", "resume"} \cup InPython]
        /\ \A u \in Thread : pc'[u] \in {"want", "lookup", "create"} => want'[u] \in Name
    BY <1>1 DEF TypeOK, InPython
  <2>2. obcb' \in [Interps -> {"none", "null", "set"}] /\ inits' \in [Interps -> Nat]
    BY <1>1, <1>3 DEF TypeOK
  <2>3. QED BY <1>1, <2>1, <2>2 DEF TypeOK
<1>10. TstateExclusive' /\ TstateAtHome'
  <2>1. TstateAtHome'
    BY <1>8 DEF TstateAtHome
  <2>2. QED BY <1>8, <2>1 DEF TstateExclusive, OnStack
<1>11. \A u \in Thread : Top(u)' = Top(u)
  BY <1>8 DEF Top
<1>12. NoTstateLost'
  <2>1. ASSUME NEW x \in 2..Len(home), obcb'[home[x]] # "none"
        PROVE  InPool(home[x], x) \/ OnStack(x)
    <3>1. x \in 1..Len(home) /\ home[x] \in Interps
      BY LenProperties, ElementOfSeq DEF TypeOK
    <3>2. QED BY <1>7, <2>1, <3>1 DEF NoTstateLost
  <2>2. QED BY <1>8, <2>1 DEF NoTstateLost, InPool, OnStack
<1>13. Stacked' /\ CurrentMine' /\ HeldCall'
  BY <1>1, <1>2, <1>5, <1>8, <1>11 DEF Stacked, CurrentMine, HeldCall, InPython
<1>14. \A u \in Thread : \A k \in 1..Len(stack[u]) : stack[u][k].interp \in Interps
  <2>1. ASSUME NEW u \in Thread, NEW k \in 1..Len(stack[u])
        PROVE  stack[u][k] \in Frame
    <3>1. stack[u] \in Seq(Frame)
      BY DEF TypeOK
    <3>2. QED BY <3>1, ElementOfSeq
  <2>2. QED BY <2>1 DEF Frame
<1>15. CallbackSet'
  <2>1. ASSUME NEW u \in Thread, NEW l \in 1..Settled(u)'
        PROVE  obcb'[stack[u][l].interp] = "set"
    <3>1. CASE u = t /\ l = Len(stack[t])
      BY <1>3, <1>6, <3>1 DEF i
    <3>2. CASE ~(u = t /\ l = Len(stack[t]))
      <4>1. l \in 1..Settled(u) /\ l \in 1..Len(stack[u])
        BY <1>1, <1>3, <1>5, <1>8, <2>1, <3>2, LenProperties DEF Settled, TypeOK
      <4>2. QED BY <1>7, <1>14, <4>1 DEF CallbackSet
    <3>3. QED BY <3>1, <3>2
  <2>2. QED BY <1>8, <2>1 DEF CallbackSet
<1>16. \A u \in Thread : pc[u] \in InPython => Top(u).interp \in Interps
  BY TopFacts DEF Stacked, Frame
<1>17. Creating' /\ Saved'
  <2>1. \A u \in Thread : pc'[u] \in {"create", "makecb"} => pc[u] = pc'[u]
    BY <1>5
  <2>2. \A u \in Thread : pc'[u] = "makecb" => obcb'[Top(u).interp] # "none"
    BY <1>7, <1>16, <2>1 DEF Saved, InPython
  <2>3. \A u \in Thread : pc'[u] = "create" => obcb'[Top(u).interp] = "none"
    BY <1>7, <1>16, <2>1 DEF Creating, InPython
  <2>4. QED BY <1>8, <1>11, <2>1, <2>2, <2>3 DEF Creating, Saved
<1>18. Numbered'
  <2>1. \A n \in Name : \A k \in 1..Len(table[n]) : table[n][k].idata \in Interps
    <3>1. ASSUME NEW n \in Name, NEW k \in 1..Len(table[n])
          PROVE  table[n][k] \in Entry
      <4>1. table[n] \in Seq(Entry)
        BY DEF TypeOK
      <4>2. QED BY <4>1, ElementOfSeq
    <3>2. QED BY <3>1 DEF Entry
  <2>2. QED BY <1>1, <1>7, <2>1 DEF Numbered
<1>19. QED BY <1>9, <1>10, <1>12, <1>13, <1>15, <1>17, <1>18

\* The names that go with a request only change what later lookups find.
LEMMA EndRequestStep ==
  ASSUME IInv, NEW t \in Thread, EndRequest(t)
  PROVE  IInv'
<1> USE DEF IInv
<1>1. UNCHANGED <<gil, current, pc, want, stack, obcb, names, inits, pool, home, ninterp>>
  BY DEF EndRequest
<1>2. /\ table' \in [Name -> Seq(Entry)]
      /\ \A n \in Name : \A k \in 1..Len(table'[n]) :
           k \in 1..Len(table[n]) /\ table'[n][k].idata = table[n][k].idata
  <2> DEFINE e(n, k) == IF table[n][k].owner = t
                        THEN [table[n][k] EXCEPT !.owner = NoThread, !.dangling = TRUE]
                        ELSE table[n][k]
             s(n) == [k \in DOMAIN table[n] |-> e(n, k)]
  <2>1. table' = [n \in Name |-> s(n)]
    BY DEF EndRequest
  <2>2. ASSUME NEW n \in Name
        PROVE  /\ s(n) \in Seq(Entry) /\ Len(s(n)) = Len(table[n])
               /\ \A k \in 1..Len(table[n]) : s(n)[k].idata = table[n][k].idata
    <3>1. table[n] \in Seq(Entry) /\ DOMAIN table[n] = 1..Len(table[n]) /\ Len(table[n]) \in Nat
      BY LenProperties DEF TypeOK
    <3>2. \A k \in 1..Len(table[n]) : table[n][k] \in Entry
      BY <3>1, ElementOfSeq
    <3>3. \A k \in 1..Len(table[n]) : e(n, k) \in Entry /\ e(n, k).idata = table[n][k].idata
      BY <3>2 DEF Entry
    <3> HIDE DEF e
    <3>4. s(n) = [k \in 1..Len(table[n]) |-> e(n, k)]
      BY <3>1
    <3>5. s(n) \in Seq(Entry) /\ Len(s(n)) = Len(table[n])
      BY <3>1, <3>3, <3>4, LenProperties
    <3>6. QED BY <3>3, <3>4, <3>5
  <2> HIDE DEF s
  <2>3. QED BY <2>1, <2>2
<1>3. TypeOK'
  BY <1>1, <1>2 DEF TypeOK
<1>4. TstateExclusive' /\ TstateAtHome' /\ NoTstateLost'
  BY <1>1 DEF TstateExclusive, TstateAtHome, NoTstateLost, OnStack, InPool
<1>5. Stacked' /\ CurrentMine' /\ HeldCall' /\ CallbackSet' /\ Saved' /\ Creating'
  BY <1>1 DEF Stacked, CurrentMine, HeldCall, CallbackSet, Saved, Creating, Settled, Top
<1>6. Numbered'
  BY <1>1, <1>2 DEF Numbered
<1>7. QED BY <1>3, <1>4, <1>5, <1>6

LEMMA StepInv == IInv /\ [Next]_vars => IInv'
<1> SUFFICES ASSUME IInv, [Next]_vars PROVE IInv'
  OBVIOUS
<1>1. CASE Next
  <2>1. PICK t \in Thread :
          \/ \E n \in Name : Phase(t, n)
          \/ Restore(t) \/ GetInterpreter(t) \/ Release(t)
          \/ SwitchOut(t) \/ SwitchIn(t)
          \/ CallOut(t) \/ CallOutHeld(t) \/ Return(t)
          \/ EndRequest(t)
    BY <1>1 DEF Next
  <2>2. CASE \/ \E n \in Name : Phase(t, n)
             \/ Restore(t) \/ SwitchOut(t) \/ SwitchIn(t) \/ CallOut(t)
    BY <2>2, QuietStep
  <2>3. CASE CallOutHeld(t) \/ Return(t)
    BY <2>3, HeldStep
  <2>4. CASE GetInterpreter(t)
    <3>1. CASE HitPooled(t) \/ HitNew(t) \/ Miss(t)
      BY <3>1, HitPooledStep, HitNewStep, MissStep
    <3>2. CASE CreateOk(t) \/ CreateFail(t) \/ SaveFail(t)
      BY <3>2, CreateOkStep, FailStep
    <3>3. CASE CallbackOk(t) \/ CallbackFail(t)
      BY <3>3, CallbackOkStep, ReleaseStep
    <3>4. QED BY <2>4, <3>1, <3>2, <3>3 DEF GetInterpreter
  <2>5. CASE Release(t)
    BY <2>5, ReleaseStep
  <2>6. CASE EndRequest(t)
    BY <2>6, EndRequestStep
  <2>7. QED BY <2>1, <2>2, <2>3, <2>4, <2>5, <2>6
<1>2. CASE UNCHANGED vars
  <2> USE <1>2 DEF IInv, vars
  <2>1. TypeOK'
    BY DEF TypeOK
  <2>2. TstateExclusive' /\ TstateAtHome' /\ NoTstateLost'
    BY DEF TstateExclusive, TstateAtHome, NoTstateLost, OnStack, InPool
  <2>3. Stacked' /\ CurrentMine' /\ HeldCall'
    BY DEF Stacked, CurrentMine, HeldCall, Top
  <2>4. CallbackSet' /\ Saved' /\ Numbered' /\ Creating'
    BY DEF CallbackSet, Settled, Saved, Numbered, Creating, Top
  <2>5. QED BY <2>1, <2>2, <2>3, <2>4
<1>3. QED BY <1>1, <1>2

-----------------------------------------------------------------------------
(***************************************************************************)
(* The theorems, for any number of threads, names and interpreters, any    *)
(* nesting, and whatever fails.                                            *)
(***************************************************************************)
THEOREM InvariantHolds == Spec => []IInv
BY InitInv, StepInv, PTL DEF Spec

\* Every variable keeps its type.
THEOREM TypeCorrect == Spec => []TypeOK
<1>1. IInv => TypeOK
  BY DEF IInv
<1>2. QED BY <1>1, InvariantHolds, PTL

\* No two calls of get_interpreter() run on one tstate, and none runs on a tstate
\* that release_interpreter() has put in an array.
THEOREM Exclusive == Spec => []TstateExclusive
<1>1. IInv => TstateExclusive
  BY DEF IInv
<1>2. QED BY <1>1, InvariantHolds, PTL

\* release_interpreter() puts a tstate in the array of the interpreter it belongs to.
THEOREM AtHome == Spec => []TstateAtHome
<1>1. IInv => TstateAtHome
  BY DEF IInv
<1>2. QED BY <1>1, InvariantHolds, PTL

\* Every tstate of a saved interpreter is in its array or in use.
THEOREM NoneLost == Spec => []NoTstateLost
<1>1. IInv => NoTstateLost
  BY DEF IInv
<1>2. QED BY <1>1, InvariantHolds, PTL

\* A thread that runs Python code does so on the tstate of its innermost call, and a
\* dispatch method runs with a callback object.
THEOREM Ready == Spec => []ReadyToRun
<1>1. IInv => ReadyToRun
  <2> SUFFICES ASSUME IInv PROVE ReadyToRun
    OBVIOUS
  <2> USE DEF IInv
  <2>1. \A t \in Thread : gil = t /\ pc[t] \in InPython => stack[t] # <<>> /\ current = Top(t).ts
    BY DEF Stacked, CurrentMine
  <2>2. ASSUME NEW t \in Thread, pc[t] = "run"
        PROVE  obcb[Top(t).interp] = "set"
    <3>1. stack[t] # <<>>
      BY <2>2 DEF Stacked, InPython
    <3>2. Top(t) = stack[t][Len(stack[t])] /\ Len(stack[t]) \in 1..Settled(t)
      BY <2>2, <3>1, TopFacts DEF Settled
    <3>3. QED BY <3>2 DEF CallbackSet
  <2>3. QED BY <2>1, <2>2 DEF ReadyToRun, CurrentMine
<1>2. QED BY <1>1, InvariantHolds, PTL

-----------------------------------------------------------------------------
(***************************************************************************)
(* The refinement. What every step does to the frames, the arrays and the  *)
(* GIL, whichever action it is.                                            *)
(***************************************************************************)
\* The GIL is taken, given up or left alone; no tstate moves.
Still(t) ==
    /\ UNCHANGED <<lentOf, pool, home>>
    /\ gil' = gil \/ (gil = NoThread /\ gil' = t) \/ (gil = t /\ gil' = NoThread)

\* A tstate of interpreter i enters a new frame of t: from its array, or just made,
\* when the array is empty or the interpreter is new.
Lends(t, i) ==
    /\ gil = t /\ gil' = gil
    /\ \/ /\ pool[i] # <<>>
          /\ Push(t, i, Last(pool[i]))
          /\ pool' = [pool EXCEPT ![i] = Front(@)]
          /\ home' = home
       \/ /\ (pool[i] = <<>> /\ obcb[i] # "none") \/ i > ninterp
          /\ Push(t, i, Len(home) + 1)
          /\ pool' = pool
          /\ home' = Append(home, i)

\* The innermost frame of t goes, its tstate to an array or nowhere.
Returns(t) ==
    /\ gil = t /\ gil' \in {t, NoThread}
    /\ stack[t] # <<>>
    /\ Pop(t)
    /\ \/ pool' = pool
       \/ pool' = [pool EXCEPT ![Top(t).interp] = Append(@, Top(t).ts)]
    /\ home' = home

\* The tstates of a thread's frames.
TsOf(s) == [k \in DOMAIN s |-> s[k].ts]

LEMMA TsFacts ==
  ASSUME NEW s \in Seq(Frame)
  PROVE  /\ Len(s) \in Nat
         /\ TsOf(s) \in Seq(Nat)
         /\ Len(TsOf(s)) = Len(s)
         /\ DOMAIN TsOf(s) = 1..Len(s)
         /\ \A k \in 1..Len(s) : TsOf(s)[k] = s[k].ts /\ s[k].ts \in Nat
<1>1. Len(s) \in Nat /\ DOMAIN s = 1..Len(s)
  BY LenProperties
<1>2. ASSUME NEW k \in 1..Len(s) PROVE s[k].ts \in Nat
  <2>1. s[k] \in Frame
    BY ElementOfSeq
  <2>2. QED BY <2>1 DEF Frame
<1>3. TsOf(s) = [k \in 1..Len(s) |-> s[k].ts]
  BY <1>1 DEF TsOf
<1>4. TsOf(s) \in Seq(Nat) /\ Len(TsOf(s)) = Len(s)
  BY <1>1, <1>2, <1>3
<1>5. QED BY <1>1, <1>2, <1>3, <1>4

\* Sequences of frames with the same tstates in the same places.
LEMMA TsEqual ==
  ASSUME NEW s \in Seq(Frame), NEW f \in Seq(Nat), Len(f) = Len(s),
         \A k \in 1..Len(s) : f[k] = s[k].ts
  PROVE  TsOf(s) = f
<1>1. /\ TsOf(s) \in Seq(Nat) /\ Len(TsOf(s)) = Len(f)
      /\ \A k \in 1..Len(TsOf(s)) : TsOf(s)[k] = f[k]
  BY TsFacts
<1>2. QED BY <1>1, SeqEqual

LEMMA TsAppend ==
  ASSUME NEW s \in Seq(Frame), NEW f \in Frame
  PROVE  TsOf(Append(s, f)) = Append(TsOf(s), f.ts)
<1>1. /\ Append(s, f) \in Seq(Frame) /\ Len(Append(s, f)) = Len(s) + 1
      /\ \A k \in 1..Len(s) : Append(s, f)[k] = s[k]
      /\ Append(s, f)[Len(s) + 1] = f
  BY AppendProperties
<1>2. f.ts \in Nat /\ TsOf(s) \in Seq(Nat) /\ Len(TsOf(s)) = Len(s) /\ Len(s) \in Nat
      /\ \A k \in 1..Len(s) : TsOf(s)[k] = s[k].ts
  BY TsFacts DEF Frame
<1>3. /\ Append(TsOf(s), f.ts) \in Seq(Nat) /\ Len(Append(TsOf(s), f.ts)) = Len(s) + 1
      /\ \A k \in 1..Len(s) : Append(TsOf(s), f.ts)[k] = s[k].ts
      /\ Append(TsOf(s), f.ts)[Len(s) + 1] = f.ts
  BY <1>2, AppendProperties
<1>4. \A k \in 1..Len(s) + 1 : Append(TsOf(s), f.ts)[k] = Append(s, f)[k].ts
  <2>1. \A k \in 1..Len(s) + 1 : k \in 1..Len(s) \/ k = Len(s) + 1
    BY <1>2
  <2>2. QED BY <1>1, <1>3, <2>1
<1>5. QED BY <1>1, <1>3, <1>4, TsEqual

LEMMA TsFront ==
  ASSUME NEW s \in Seq(Frame), s # <<>>
  PROVE  TsOf(Front(s)) = SubSeq(TsOf(s), 1, Len(TsOf(s)) - 1)
<1>1. /\ Front(s) \in Seq(Frame) /\ Len(Front(s)) = Len(s) - 1 /\ Len(s) \in Nat \ {0}
      /\ \A k \in 1..Len(s) - 1 : Front(s)[k] = s[k]
  BY FrontFacts
<1>2. /\ TsOf(s) \in Seq(Nat) /\ Len(TsOf(s)) = Len(s)
      /\ \A k \in 1..Len(s) : TsOf(s)[k] = s[k].ts
  BY TsFacts
<1>3. Len(s) - 1 \in Nat /\ Len(s) - 1 <= Len(TsOf(s))
  BY <1>1, <1>2
<1>4. /\ SubSeq(TsOf(s), 1, Len(s) - 1) \in Seq(Nat)
      /\ Len(SubSeq(TsOf(s), 1, Len(s) - 1)) = Len(s) - 1
      /\ \A k \in 1..Len(s) - 1 : SubSeq(TsOf(s), 1, Len(s) - 1)[k] = TsOf(s)[k]
  BY <1>2, <1>3, PrefixFacts
<1>5. \A k \in 1..Len(s) - 1 : k \in 1..Len(s)
  BY <1>1
<1>6. \A k \in 1..Len(Front(s)) : SubSeq(TsOf(s), 1, Len(s) - 1)[k] = Front(s)[k].ts
  BY <1>1, <1>2, <1>4, <1>5
<1>7. TsOf(Front(s)) = SubSeq(TsOf(s), 1, Len(s) - 1)
  BY <1>1, <1>4, <1>6, TsEqual
<1>8. QED BY <1>2, <1>7

LEMMA TsHeld ==
  ASSUME NEW s \in Seq(Frame), s # <<>>, NEW b \in BOOLEAN
  PROVE  TsOf([s EXCEPT ![Len(s)].held = b]) = TsOf(s)
<1> DEFINE f == [s[Len(s)] EXCEPT !.held = b]
           r == [s EXCEPT ![Len(s)] = f]
<1>1. Len(s) \in Nat \ {0} /\ \A k \in 1..Len(s) : s[k] \in Frame
  BY FrontFacts, ElementOfSeq
<1>2. s[Len(s)] \in Frame
  BY <1>1
<1>3. f \in Frame /\ f.ts = s[Len(s)].ts
  BY <1>2 DEF Frame
<1>4. /\ r \in Seq(Frame) /\ Len(r) = Len(s)
      /\ \A k \in 1..Len(s) : r[k] = IF k = Len(s) THEN f ELSE s[k]
  <2> HIDE DEF f
  <2>1. QED BY <1>1, <1>3, ExceptSeq
<1>5. \A k \in 1..Len(s) : r[k].ts = s[k].ts
  BY <1>3, <1>4
<1>6. TsOf(s) \in Seq(Nat) /\ Len(TsOf(s)) = Len(s) /\ \A k \in 1..Len(s) : TsOf(s)[k] = s[k].ts
  BY TsFacts
<1> HIDE DEF f, r
<1>7. TsOf(r) = TsOf(s)
  BY <1>4, <1>5, <1>6, TsEqual
<1>8. QED BY <1>7 DEF r, f

-----------------------------------------------------------------------------
\* What the thread states lent become when a call enters, leaves or is marked.
LEMMA LentPush ==
  ASSUME TypeOK, NEW t \in Thread, NEW i \in Interps, NEW ts \in Nat, Push(t, i, ts)
  PROVE  lentOf' = [lentOf EXCEPT ![t] = Append(lentOf[t], ts)]
<1> DEFINE f == [interp |-> i, ts |-> ts, held |-> FALSE]
<1>1. f \in Frame /\ f.ts = ts
  BY DEF Frame
<1>2. stack[t] \in Seq(Frame) /\ stack' = [stack EXCEPT ![t] = Append(stack[t], f)]
  BY DEF TypeOK, Push
<1> HIDE DEF f
<1>3. TsOf(Append(stack[t], f)) = Append(TsOf(stack[t]), ts)
  BY <1>1, <1>2, TsAppend
<1>4. lentOf = [u \in Thread |-> TsOf(stack[u])] /\ lentOf' = [u \in Thread |-> TsOf(stack'[u])]
  BY DEF lentOf, TsOf
<1>5. QED BY <1>2, <1>3, <1>4 DEF TypeOK

LEMMA LentPop ==
  ASSUME TypeOK, NEW t \in Thread, stack[t] # <<>>, Pop(t)
  PROVE  lentOf' = [lentOf EXCEPT ![t] = SubSeq(lentOf[t], 1, Len(lentOf[t]) - 1)]
<1>1. stack[t] \in Seq(Frame) /\ stack' = [stack EXCEPT ![t] = Front(stack[t])]
  BY DEF TypeOK, Pop
<1>2. TsOf(Front(stack[t])) = SubSeq(TsOf(stack[t]), 1, Len(TsOf(stack[t])) - 1)
  BY <1>1, TsFront
<1>3. lentOf = [u \in Thread |-> TsOf(stack[u])] /\ lentOf' = [u \in Thread |-> TsOf(stack'[u])]
  BY DEF lentOf, TsOf
<1>4. QED BY <1>1, <1>2, <1>3 DEF TypeOK

LEMMA LentHeld ==
  ASSUME TypeOK, NEW t \in Thread, stack[t] # <<>>, CallOutHeld(t) \/ Return(t)
  PROVE  lentOf' = lentOf
<1>1. PICK b \in BOOLEAN : stack' = [stack EXCEPT ![t] = [stack[t] EXCEPT ![Len(stack[t])].held = b]]
  BY DEF CallOutHeld, Return
<1>2. TsOf([stack[t] EXCEPT ![Len(stack[t])].held = b]) = TsOf(stack[t])
  <2>1. stack[t] \in Seq(Frame)
    BY DEF TypeOK
  <2>2. QED BY <2>1, TsHeld
<1>3. lentOf = [u \in Thread |-> TsOf(stack[u])] /\ lentOf' = [u \in Thread |-> TsOf(stack'[u])]
  BY DEF lentOf, TsOf
<1>4. QED BY <1>1, <1>2, <1>3 DEF TypeOK

LEMMA HitShape ==
  ASSUME IInv, NEW t \in Thread, HitPooled(t) \/ HitNew(t) \/ Miss(t)
  PROVE  \E i \in Interps : Lends(t, i)
<1> USE DEF IInv
<1>1. ASSUME NEW k \in Matches(want[t]) \ {0}, pc[t] = "lookup"
      PROVE  /\ table[want[t]][k].idata \in Interps
             /\ obcb[table[want[t]][k].idata] # "none"
  <2>1. want[t] \in Name /\ table[want[t]] \in Seq(Entry)
    BY <1>1 DEF TypeOK
  <2>2. k \in 1..Len(table[want[t]])
    BY <1>1, <2>1, LenProperties DEF Matches
  <2>3. table[want[t]][k] \in Entry
    BY <2>1, <2>2, ElementOfSeq
  <2>4. QED BY <2>1, <2>2, <2>3 DEF Entry, Numbered
<1>2. CASE HitPooled(t)
  <2>1. PICK k \in Matches(want[t]) \ {0} :
           LET i == table[want[t]][k].idata IN
             /\ pool[i] # <<>>
             /\ Enter(t, i, Last(pool[i]))
             /\ pool' = [pool EXCEPT ![i] = Front(@)]
    BY <1>2 DEF HitPooled
  <2>2. Lends(t, table[want[t]][k].idata)
    BY <1>2, <2>1 DEF HitPooled, Enter, Lends
  <2>3. QED BY <1>1, <1>2, <2>2 DEF HitPooled
<1>3. CASE HitNew(t)
  <2>1. PICK k \in Matches(want[t]) \ {0} :
           LET i == table[want[t]][k].idata IN
             /\ pool[i] = <<>>
             /\ Enter(t, i, Len(home) + 1)
             /\ home' = Append(home, i)
    BY <1>3 DEF HitNew
  <2>2. Lends(t, table[want[t]][k].idata)
    BY <1>1, <1>3, <2>1 DEF HitNew, Enter, Lends
  <2>3. QED BY <1>1, <1>3, <2>2 DEF HitNew
<1>4. CASE Miss(t)
  <2>1. ninterp + 1 \in Interps
    BY <1>4, BoundAssumption DEF Miss, TypeOK, Interps
  <2>2. Lends(t, ninterp + 1)
    <3>1. ninterp + 1 > ninterp
      BY DEF TypeOK, Interps
    <3>2. QED BY <1>4, <3>1 DEF Miss, Lends
  <2>3. QED BY <2>1, <2>2
<1>5. QED BY <1>2, <1>3, <1>4

LEMMA StepShape ==
  ASSUME IInv, Next
  PROVE  \E t \in Thread : Still(t) \/ (\E i \in Interps : Lends(t, i)) \/ Returns(t)
<1> USE DEF IInv
<1>1. PICK t \in Thread :
          \/ \E n \in Name : Phase(t, n)
          \/ Restore(t) \/ GetInterpreter(t) \/ Release(t)
          \/ SwitchOut(t) \/ SwitchIn(t)
          \/ CallOut(t) \/ CallOutHeld(t) \/ Return(t)
          \/ EndRequest(t)
  BY DEF Next
<1>2. CASE \/ \E n \in Name : Phase(t, n)
           \/ Restore(t) \/ SwitchOut(t) \/ SwitchIn(t) \/ CallOut(t) \/ EndRequest(t)
           \/ CreateOk(t) \/ CallbackOk(t)
  <2>1. /\ UNCHANGED <<stack, pool, home>>
        /\ gil' = gil \/ (gil = NoThread /\ gil' = t) \/ (gil = t /\ gil' = NoThread)
    BY <1>2 DEF Phase, Restore, SwitchOut, SwitchIn, CallOut, EndRequest, CreateOk, CallbackOk
  <2>2. QED BY <2>1 DEF Still, lentOf
<1>3. CASE CallOutHeld(t) \/ Return(t)
  <2>1. stack[t] # <<>>
    BY <1>3 DEF CallOutHeld, Return, Stacked, InPython
  <2>2. UNCHANGED <<gil, pool, home>>
    BY <1>3 DEF CallOutHeld, Return
  <2>3. lentOf' = lentOf
    BY <1>3, <2>1, LentHeld
  <2>4. QED BY <2>2, <2>3 DEF Still
<1>4. CASE HitPooled(t) \/ HitNew(t) \/ Miss(t)
  BY <1>4, HitShape
<1>5. CASE CreateFail(t) \/ SaveFail(t)
  <2>1. stack[t] # <<>>
    BY <1>5 DEF CreateFail, SaveFail, Stacked, InPython
  <2>2. QED BY <1>5, <2>1 DEF CreateFail, SaveFail, Returns
<1>6. CASE CallbackFail(t) \/ Release(t)
  <2>1. stack[t] # <<>> /\ current = Top(t).ts
    BY <1>6 DEF CallbackFail, Release, Stacked, CurrentMine, InPython
  <2>2. QED BY <1>6, <2>1 DEF CallbackFail, Release, ReleaseInterpreter, Returns
<1>7. QED BY <1>1, <1>2, <1>3, <1>4, <1>5, <1>6 DEF GetInterpreter

\* What a frame holds after each kind of step.
LEMMA LendsFrames ==
  ASSUME IInv, NEW t \in Thread, NEW i \in Interps, Lends(t, i)
  PROVE  \E ts \in Nat :
           /\ Push(t, i, ts)
           /\ ~OnStack(ts)
           /\ \/ ts \in 1..Len(home) /\ InPool(i, ts)
              \/ ts = Len(home) + 1 /\ ts \in 1..Len(home')
<1> USE DEF IInv
<1>1. /\ pool[i] \in Seq(Nat) /\ home \in Seq(Interps) /\ Len(home) \in Nat
      /\ \A u \in Thread : Len(stack[u]) \in Nat
  BY LenProperties DEF TypeOK
<1>2. CASE pool[i] # <<>> /\ Push(t, i, Last(pool[i])) /\ home' = home
  <2>1. Len(pool[i]) \in Nat \ {0} /\ Last(pool[i]) = pool[i][Len(pool[i])] /\ Last(pool[i]) \in Nat
    BY <1>1, <1>2, FrontFacts DEF Last
  <2>2. Len(pool[i]) \in 1..Len(pool[i])
    BY <2>1
  <2>3. ~OnStack(pool[i][Len(pool[i])]) /\ pool[i][Len(pool[i])] \in 1..Len(home)
    BY <2>2 DEF TstateExclusive, TstateAtHome
  <2>4. QED BY <1>2, <2>1, <2>2, <2>3 DEF InPool
<1>3. CASE Push(t, i, Len(home) + 1) /\ home' = Append(home, i)
  <2>1. ~OnStack(Len(home) + 1)
    BY <1>1 DEF OnStack, TstateAtHome
  <2>2. Len(home') = Len(home) + 1
    BY <1>1, <1>3, AppendProperties
  <2>3. QED BY <1>1, <1>3, <2>1, <2>2
<1>4. QED BY <1>2, <1>3 DEF Lends

-----------------------------------------------------------------------------
(***************************************************************************)
(* global_tstate is nobody's: get_interpreter() only makes it current to   *)
(* look up the name.                                                       *)
(***************************************************************************)
GlobalKept ==
    /\ Len(home) >= 1
    /\ ~OnStack(Global)
    /\ \A i \in Interps : ~InPool(i, Global)

LEMMA GlobalInit == Init => GlobalKept
BY BoundAssumption DEF Init, GlobalKept, OnStack, InPool, Interps

LEMMA GlobalStep == IInv /\ GlobalKept /\ [Next]_vars => GlobalKept'
<1> SUFFICES ASSUME IInv, GlobalKept, Next PROVE GlobalKept'
  BY DEF GlobalKept, OnStack, InPool, vars
<1>0. IInv'
  BY StepInv
<1> USE DEF IInv
<1>1. PICK t \in Thread : Still(t) \/ (\E i \in Interps : Lends(t, i)) \/ Returns(t)
  BY StepShape
<1>2. \A u \in Thread : /\ Len(stack[u]) \in Nat /\ DOMAIN stack[u] = 1..Len(stack[u])
                        /\ Len(stack'[u]) \in Nat /\ DOMAIN stack'[u] = 1..Len(stack'[u])
  BY <1>0, LenProperties DEF TypeOK
<1>3. \A i \in Interps : pool[i] \in Seq(Nat) /\ Len(pool[i]) \in Nat
  BY LenProperties DEF TypeOK
<1>4. home \in Seq(Interps) /\ Len(home) \in Nat
  BY LenProperties DEF TypeOK
<1>5. CASE Still(t)
  <2>1. \A u \in Thread : 1..Len(stack'[u]) = 1..Len(stack[u])
             /\ \A k \in 1..Len(stack[u]) : stack'[u][k].ts = stack[u][k].ts
    <3>1. ASSUME NEW u \in Thread
          PROVE  1..Len(stack'[u]) = 1..Len(stack[u])
             /\ \A k \in 1..Len(stack[u]) : stack'[u][k].ts = stack[u][k].ts
      <4>1. lentOf[u] = lentOf'[u]
        BY <1>5 DEF Still
      <4>2. [k \in 1..Len(stack[u]) |-> stack[u][k].ts] = [k \in 1..Len(stack'[u]) |-> stack'[u][k].ts]
        BY <1>2, <4>1 DEF lentOf
      <4>3. QED BY <4>2
    <3>2. QED BY <3>1
  <2>2. ~OnStack(Global)'
    BY <2>1 DEF GlobalKept, OnStack, Global
  <2>3. QED BY <1>5, <2>2 DEF Still, GlobalKept, InPool
<1>6. CASE \E i \in Interps : Lends(t, i)
  <2>1. PICK i \in Interps : Lends(t, i)
    BY <1>6
  <2>2. PICK ts \in Nat : /\ Push(t, i, ts)
                          /\ \/ ts \in 1..Len(home) /\ InPool(i, ts)
                             \/ ts = Len(home) + 1
    BY <2>1, LendsFrames
  <2>3. ts # Global
    BY <1>4, <2>2 DEF GlobalKept, Global
  <2>4. ~OnStack(Global)'
    <3>1. /\ \A u \in Thread : u # t => stack'[u] = stack[u]
          /\ Len(stack'[t]) = Len(stack[t]) + 1
          /\ \A k \in 1..Len(stack[t]) : stack'[t][k] = stack[t][k]
          /\ stack'[t][Len(stack[t]) + 1] = [interp |-> i, ts |-> ts, held |-> FALSE]
      BY <2>2, PushFacts
    <3>2. stack'[t][Len(stack[t]) + 1].ts # Global
      BY <2>3, <3>1
    <3>3. \A k \in 1..Len(stack'[t]) : k \in 1..Len(stack[t]) \/ k = Len(stack[t]) + 1
      BY <1>2, <3>1
    <3>4. QED BY <3>1, <3>2, <3>3 DEF GlobalKept, OnStack
  <2>5. \A j \in Interps : \A l \in 1..Len(pool'[j]) : l \in 1..Len(pool[j]) /\ pool'[j][l] = pool[j][l]
    <3>1. CASE pool' = pool
      BY <3>1
    <3>2. CASE pool[i] # <<>> /\ pool' = [pool EXCEPT ![i] = Front(@)]
      <4>1. /\ Len(pool[i]) \in Nat /\ Len(Front(pool[i])) = Len(pool[i]) - 1
            /\ \A k \in 1..Len(pool[i]) - 1 : Front(pool[i])[k] = pool[i][k]
        BY <1>3, <3>2, FrontFacts
      <4>2. pool'[i] = Front(pool[i]) /\ \A j \in Interps : j # i => pool'[j] = pool[j]
        BY <3>2 DEF TypeOK
      <4>3. QED BY <4>1, <4>2
    <3>3. QED BY <2>1, <3>1, <3>2 DEF Lends
  <2>6. \A j \in Interps : ~InPool(j, Global)'
    BY <2>5 DEF GlobalKept, InPool
  <2>7. Len(home') >= 1
    <3>1. \A j \in Interps : Len(Append(home, j)) = Len(home) + 1
      BY <1>4, AppendProperties
    <3>2. QED BY <1>4, <2>1, <3>1 DEF Lends, GlobalKept
  <2>8. QED BY <2>4, <2>6, <2>7 DEF GlobalKept
<1>7. CASE Returns(t)
  <2>1. stack[t] # <<>> /\ Pop(t) /\ home' = home
    BY <1>7 DEF Returns
  <2>2. /\ \A u \in Thread : u # t => stack'[u] = stack[u]
        /\ Len(stack'[t]) = Len(stack[t]) - 1
        /\ \A k \in 1..Len(stack[t]) - 1 : stack'[t][k] = stack[t][k]
    BY <2>1, PopFacts
  <2>3. ~OnStack(Global)'
    BY <1>2, <2>2 DEF GlobalKept, OnStack
  <2>4. Top(t) \in Frame /\ Top(t) = stack[t][Len(stack[t])] /\ Len(stack[t]) \in 1..Len(stack[t])
    BY <1>2, <2>1, TopFacts
  <2>5. Top(t).ts # Global /\ Top(t).ts \in Nat /\ Top(t).interp \in Interps
    BY <2>4 DEF GlobalKept, OnStack, Frame
  <2>6. \A j \in Interps : ~InPool(j, Global)'
    <3>1. CASE pool' = pool
      BY <3>1 DEF GlobalKept, InPool
    <3>2. CASE pool' = [pool EXCEPT ![Top(t).interp] = Append(@, Top(t).ts)]
      <4> DEFINE i == Top(t).interp
                 ts == Top(t).ts
      <4> HIDE DEF i, ts
      <4>1. i \in Interps /\ ts \in Nat /\ ts # Global
        BY <2>5 DEF i, ts
      <4>2. pool' = [pool EXCEPT ![i] = Append(pool[i], ts)]
        BY <3>2 DEF i, ts
      <4>3. pool'[i] = Append(pool[i], ts) /\ \A j \in Interps : j # i => pool'[j] = pool[j]
        BY <4>1, <4>2 DEF TypeOK
      <4>4. /\ Len(pool'[i]) = Len(pool[i]) + 1 /\ pool'[i][Len(pool[i]) + 1] = ts
            /\ \A l \in 1..Len(pool[i]) : pool'[i][l] = pool[i][l]
        BY <1>3, <4>1, <4>3, AppendProperties
      <4>5. \A l \in 1..Len(pool'[i]) : l \in 1..Len(pool[i]) \/ l = Len(pool[i]) + 1
        BY <1>3, <4>1, <4>4
      <4>6. \A l \in 1..Len(pool'[i]) : pool'[i][l] # Global
        BY <4>1, <4>4, <4>5 DEF GlobalKept, InPool
      <4>7. QED BY <4>3, <4>6 DEF GlobalKept, InPool
    <3>3. QED BY <1>7, <3>1, <3>2 DEF Returns
  <2>7. QED BY <2>1, <2>3, <2>6 DEF GlobalKept
<1>8. QED BY <1>1, <1>5, <1>6, <1>7

-----------------------------------------------------------------------------
LEMMA LeaseInit == Init => Lease!Init
<1> SUFFICES ASSUME Init PROVE Lease!Init
  OBVIOUS
<1>1. gil = NoThread /\ stack = [t \in Thread |-> <<>>]
  BY DEF Init
<1>2. \A t \in Thread : [k \in DOMAIN stack[t] |-> stack[t][k].ts] = <<>>
  <2>1. ASSUME NEW t \in Thread PROVE [k \in DOMAIN stack[t] |-> stack[t][k].ts] = <<>>
    <3>1. stack[t] = <<>>
      BY <1>1
    <3>2. DOMAIN stack[t] = {}
      BY <3>1
    <3>3. QED BY <3>2
  <2>2. QED BY <2>1
<1>3. lentOf = [t \in Thread |-> <<>>]
  BY <1>2 DEF lentOf
<1>4. QED BY <1>1, <1>3 DEF Lease!Init

LEMMA LeaseStep == IInv /\ GlobalKept /\ [Next]_vars => [Lease!Next]_<<gil, lentOf>>
<1> SUFFICES ASSUME IInv, GlobalKept, Next PROVE [Lease!Next]_<<gil, lentOf>>
  BY DEF vars, lentOf
<1> USE DEF IInv
<1>1. PICK t \in Thread : Still(t) \/ (\E i \in Interps : Lends(t, i)) \/ Returns(t)
  BY StepShape
<1>2. \A u \in Thread : /\ stack[u] \in Seq(Frame) /\ lentOf[u] = TsOf(stack[u])
                        /\ Len(stack[u]) \in Nat /\ DOMAIN lentOf[u] = 1..Len(stack[u])
                        /\ Len(lentOf[u]) = Len(stack[u]) /\ lentOf[u] \in Seq(Nat)
                        /\ \A k \in 1..Len(stack[u]) : lentOf[u][k] = stack[u][k].ts
  <2>1. ASSUME NEW u \in Thread PROVE stack[u] \in Seq(Frame) /\ lentOf[u] = TsOf(stack[u])
    BY DEF TypeOK, lentOf, TsOf
  <2>2. QED BY <2>1, TsFacts
<1>3. CASE Still(t)
  BY <1>3 DEF Still, Lease!Next, Lease!Take, Lease!Drop
<1>4. CASE \E i \in Interps : Lends(t, i)
  <2>1. PICK i \in Interps : Lends(t, i)
    BY <1>4
  <2>2. PICK ts \in Nat : /\ Push(t, i, ts) /\ ~OnStack(ts)
                          /\ \/ ts \in 1..Len(home) /\ InPool(i, ts)
                             \/ ts = Len(home) + 1
    BY <2>1, LendsFrames
  <2>3. lentOf' = [lentOf EXCEPT ![t] = Append(lentOf[t], ts)]
    BY <2>2, LentPush
  <2>4. lentOf'[t] = Append(lentOf[t], ts)
    BY <2>3 DEF lentOf
  <2>5. /\ lentOf'[t] # <<>> /\ lentOf'[t][Len(lentOf'[t])] = ts
    BY SMTT(30), <1>2, <2>4, AppendProperties
  <2>6. ts \in Nat \ {0, 1}
    <3>1. home \in Seq(Interps) /\ Len(home) \in Nat
      BY LenProperties DEF TypeOK
    <3>2. QED BY <2>2, <3>1 DEF GlobalKept, Global
  <2>7. ~Lease!Lent(ts)
    <3>1. ASSUME NEW u \in Thread, NEW k \in DOMAIN lentOf[u] PROVE lentOf[u][k] # ts
      <4>1. k \in 1..Len(stack[u]) /\ lentOf[u][k] = stack[u][k].ts
        BY <1>2, <3>1
      <4>2. stack[u][k].ts # ts
        BY <2>2, <4>1 DEF OnStack
      <4>3. QED BY <4>1, <4>2
    <3>2. QED BY <3>1 DEF Lease!Lent
  <2>8. Lease!Lend(t)
    BY <2>1, <2>3, <2>5, <2>6, <2>7 DEF Lends, Lease!Lend, Lease!Tstate
  <2>9. QED BY <2>8 DEF Lease!Next
<1>5. CASE Returns(t)
  <2>1. lentOf' = [lentOf EXCEPT ![t] = SubSeq(lentOf[t], 1, Len(lentOf[t]) - 1)]
    BY <1>5, LentPop DEF Returns
  <2>2. lentOf[t] # <<>>
    <3>1. Len(stack[t]) \in Nat \ {0}
      BY <1>5, TopFacts DEF Returns
    <3>2. QED BY <1>2, <3>1
  <2>3. Lease!GiveBack(t)
    BY <1>5, <2>1, <2>2 DEF Returns, Lease!GiveBack
  <2>4. QED BY <2>3 DEF Lease!Next
<1>6. QED BY <1>1, <1>3, <1>4, <1>5

\* No frame and no array ever holds global_tstate.
THEOREM GlobalNeverLent == Spec => []GlobalKept
<1>1. Init => GlobalKept
  BY GlobalInit
<1>2. IInv /\ GlobalKept /\ [Next]_vars => GlobalKept'
  BY GlobalStep
<1>3. QED BY <1>1, <1>2, InvariantHolds, PTL DEF Spec

\* get_interpreter() and release_interpreter(), with everything that happens between
\* and within them, lend thread states the way TstateLease promises.
THEOREM Refinement == Spec => ImplementsLease
<1>1. Init => Lease!Init
  BY LeaseInit
<1>2. IInv /\ GlobalKept /\ [Next]_vars => [Lease!Next]_<<gil, lentOf>>
  BY LeaseStep
<1>3. ImplementsLease <=> Lease!Init /\ [][Lease!Next]_<<gil, lentOf>>
  BY DEF ImplementsLease, Lease!Spec, Lease!lvars
<1>4. QED BY <1>1, <1>2, <1>3, InvariantHolds, GlobalNeverLent, PTL DEF Spec

-----------------------------------------------------------------------------
\* A tstate that leaves a frame is in no other thread's frame after the step.
THEOREM ThroughPool == Spec => HandedOverThroughPool
<1> DEFINE Apart == \A t1, t2 \in Thread : t1 # t2 =>
                       \A k1 \in 1..Len(stack[t1]), k2 \in 1..Len(stack'[t2]) :
                          stack'[t2][k2].ts # stack[t1][k1].ts
<1>1. IInv /\ [Next]_vars => [Apart]_vars
  <2> SUFFICES ASSUME IInv, Next, NEW t1 \in Thread, NEW t2 \in Thread, t1 # t2,
                      NEW k1 \in 1..Len(stack[t1]), NEW k2 \in 1..Len(stack'[t2])
               PROVE  stack'[t2][k2].ts # stack[t1][k1].ts
    OBVIOUS
  <2> USE DEF IInv
  <2>1. PICK t \in Thread : Still(t) \/ (\E i \in Interps : Lends(t, i)) \/ Returns(t)
    BY StepShape
  <2>2. TypeOK'
    BY StepInv
  <2>3. Len(stack[t2]) \in Nat /\ Len(stack'[t2]) \in Nat
        /\ DOMAIN stack[t2] = 1..Len(stack[t2]) /\ DOMAIN stack'[t2] = 1..Len(stack'[t2])
    BY <2>2, LenProperties DEF TypeOK
  <2>4. OnStack(stack[t1][k1].ts)
    BY DEF OnStack
  <2>5. \/ k2 \in 1..Len(stack[t2]) /\ stack'[t2][k2].ts = stack[t2][k2].ts
        \/ ~OnStack(stack'[t2][k2].ts)
    <3>1. CASE Still(t)
      <4>1. lentOf[t2] = lentOf'[t2]
        BY <3>1 DEF Still
      <4>2. [k \in 1..Len(stack[t2]) |-> stack[t2][k].ts] = [k \in 1..Len(stack'[t2]) |-> stack'[t2][k].ts]
        BY <2>3, <4>1 DEF lentOf
      <4>3. QED BY <4>2
    <3>2. CASE \E i \in Interps : Lends(t, i)
      <4>1. PICK i \in Interps : Lends(t, i)
        BY <3>2
      <4>2. PICK ts \in Nat : Push(t, i, ts) /\ ~OnStack(ts)
        BY <4>1, LendsFrames
      <4>3. /\ \A u \in Thread : u # t => stack'[u] = stack[u]
            /\ Len(stack[t]) \in Nat /\ Len(stack'[t]) = Len(stack[t]) + 1
            /\ \A k \in 1..Len(stack[t]) : stack'[t][k] = stack[t][k]
            /\ stack'[t][Len(stack[t]) + 1] = [interp |-> i, ts |-> ts, held |-> FALSE]
        BY <4>2, PushFacts
      <4>4. CASE t2 # t
        BY <4>3, <4>4
      <4>5. CASE t2 = t
        <5>1. k2 \in 1..Len(stack[t]) \/ k2 = Len(stack[t]) + 1
          BY <4>3, <4>5
        <5>2. stack'[t][Len(stack[t]) + 1].ts = ts
          BY <4>3
        <5>3. QED BY <4>2, <4>3, <4>5, <5>1, <5>2
      <4>6. QED BY <4>4, <4>5
    <3>3. CASE Returns(t)
      <4>1. /\ \A u \in Thread : u # t => stack'[u] = stack[u]
            /\ Len(stack'[t]) = Len(stack[t]) - 1 /\ Len(stack[t]) \in Nat
            /\ \A k \in 1..Len(stack[t]) - 1 : stack'[t][k] = stack[t][k]
        BY <3>3, PopFacts DEF Returns
      <4>2. QED BY <2>3, <4>1
    <3>4. QED BY <2>1, <3>1, <3>2, <3>3
  <2>6. QED BY <2>4, <2>5 DEF TstateExclusive
<1>2. HandedOverThroughPool <=> [][Apart]_vars
  BY DEF HandedOverThroughPool
<1> HIDE DEF Apart
<1>3. QED BY <1>1, <1>2, InvariantHolds, PTL DEF Spec


-----------------------------------------------------------------------------
(***************************************************************************)
(* How many tstates an interpreter comes to have.                          *)
(***************************************************************************)
\* A thread has at most MaxDepth unreleased calls, one fewer while it looks a name up.
DepthKept ==
    \A t \in Thread : /\ Len(stack[t]) <= MaxDepth
                      /\ pc[t] \in {"want", "lookup"} => Len(stack[t]) < MaxDepth

LEMMA DepthInit == Init => DepthKept
BY BoundAssumption DEF Init, DepthKept

LEMMA DepthStep == IInv /\ DepthKept /\ [Next]_vars => DepthKept'
<1> SUFFICES ASSUME IInv, DepthKept, [Next]_vars PROVE DepthKept'
  OBVIOUS
<1> USE DEF IInv
<1>1. CASE UNCHANGED vars
  BY <1>1 DEF vars, DepthKept
<1>2. CASE Next
  <2>1. PICK t \in Thread :
          \/ \E n \in Name : Phase(t, n)
          \/ Restore(t) \/ GetInterpreter(t) \/ Release(t)
          \/ SwitchOut(t) \/ SwitchIn(t)
          \/ CallOut(t) \/ CallOutHeld(t) \/ Return(t)
          \/ EndRequest(t)
    BY <1>2 DEF Next
  <2>2. \A u \in Thread : u # t => pc'[u] = pc[u]
    BY <2>1 DEF GetInterpreter, Phase, Restore, HitPooled, HitNew, Enter, Miss, CreateOk,
          CreateFail, SaveFail, CallbackOk, CallbackFail, Release, ReleaseInterpreter,
          SwitchOut, SwitchIn, CallOut, CallOutHeld, Return, EndRequest, Goto, TypeOK
  <2>3. \A u \in Thread : Len(stack[u]) \in Nat
    BY LenProperties DEF TypeOK
  <2>4. CASE \/ \E n \in Name : Phase(t, n)
             \/ Restore(t) \/ SwitchOut(t) \/ SwitchIn(t) \/ CallOut(t)
             \/ CreateOk(t) \/ CallbackOk(t) \/ EndRequest(t)
    <3>1. stack' = stack
      BY <2>4 DEF Phase, Restore, SwitchOut, SwitchIn, CallOut, CreateOk, CallbackOk, EndRequest
    <3>2. pc'[t] \in {"want", "lookup"} => Len(stack[t]) < MaxDepth
      BY <2>4 DEF DepthKept, Phase, Restore, SwitchOut, SwitchIn, CallOut, CreateOk, CallbackOk,
                  EndRequest, Goto, TypeOK, InPython
    <3>3. QED BY <2>2, <3>1, <3>2 DEF DepthKept
  <2>5. CASE CallOutHeld(t) \/ Return(t)
    <3>1. lentOf' = lentOf
      <4>1. stack[t] # <<>>
        BY <2>5 DEF CallOutHeld, Return, Stacked, InPython
      <4>2. QED BY <2>5, <4>1, LentHeld
    <3>2. \A u \in Thread : Len(stack'[u]) = Len(stack[u])
      <4>1. TypeOK'
        BY StepInv, <1>2
      <4>2. ASSUME NEW u \in Thread PROVE Len(stack'[u]) = Len(stack[u])
        <5>1. stack[u] \in Seq(Frame) /\ stack'[u] \in Seq(Frame)
          BY <4>1 DEF TypeOK
        <5>2. DOMAIN lentOf[u] = DOMAIN stack[u] /\ DOMAIN lentOf'[u] = DOMAIN stack'[u]
          BY DEF lentOf
        <5>3. QED BY <3>1, <5>1, <5>2
      <4>3. QED BY <4>2
    <3>3. pc'[t] \notin {"want", "lookup"}
      BY <2>5 DEF CallOutHeld, Return, Goto, TypeOK
    <3>4. QED BY <2>2, <3>2, <3>3 DEF DepthKept
  <2>6. CASE HitPooled(t) \/ HitNew(t) \/ Miss(t)
    <3>1. /\ pc[t] = "lookup" /\ pc'[t] \notin {"want", "lookup"}
      BY <2>6 DEF HitPooled, HitNew, Miss, Enter, Goto, TypeOK
    <3>2. \E i \in Interps : \E ts \in Nat : Push(t, i, ts)
      <4>1. (\E i \in Interps : Lends(t, i)) 
        BY <2>6, HitShape
      <4>2. QED BY <4>1, LendsFrames
    <3>3. /\ \A u \in Thread : u # t => stack'[u] = stack[u]
          /\ Len(stack'[t]) = Len(stack[t]) + 1
      BY <3>2, PushFacts
    <3>4. Len(stack'[t]) <= MaxDepth
      BY <2>3, <3>1, <3>3, BoundAssumption DEF DepthKept
    <3>5. QED BY <2>2, <3>1, <3>3, <3>4 DEF DepthKept
  <2>7. CASE CreateFail(t) \/ SaveFail(t) \/ CallbackFail(t) \/ Release(t)
    <3>1. stack[t] # <<>> /\ Pop(t) /\ pc'[t] = "apache"
      BY <2>7 DEF CreateFail, SaveFail, CallbackFail, Release, ReleaseInterpreter, Stacked,
                  InPython, Goto, TypeOK
    <3>2. /\ \A u \in Thread : u # t => stack'[u] = stack[u]
          /\ Len(stack'[t]) = Len(stack[t]) - 1
      BY <3>1, PopFacts
    <3>3. Len(stack'[t]) <= MaxDepth
      BY <2>3, <3>2, BoundAssumption DEF DepthKept
    <3>4. QED BY <2>2, <3>1, <3>2, <3>3 DEF DepthKept
  <2>8. QED BY <2>1, <2>4, <2>5, <2>6, <2>7 DEF GetInterpreter
<1>3. QED BY <1>1, <1>2

\* Tstates that are all in frames are no more than the frames there can be.
LEMMA FramesBound ==
  ASSUME NEW stk \in [Thread -> Seq(Frame)], \A t \in Thread : Len(stk[t]) <= MaxDepth,
         IsFiniteSet(Thread),
         NEW S, \A ts \in S : \E t \in Thread : \E k \in 1..Len(stk[t]) : stk[t][k].ts = ts
  PROVE  IsFiniteSet(S) /\ Cardinality(S) <= Cardinality(Thread) * MaxDepth
<1> DEFINE P == Thread \X (1..MaxDepth)
           Has(p, ts) == p[2] \in 1..Len(stk[p[1]]) /\ stk[p[1]][p[2]].ts = ts
           g == [ts \in S |-> CHOOSE p \in P : Has(p, ts)]
<1>1. MaxDepth \in Nat \ {0}
  BY BoundAssumption
<1>2. IsFiniteSet(1..MaxDepth) /\ Cardinality(1..MaxDepth) = MaxDepth
  BY <1>1, FS_Interval
<1>3. IsFiniteSet(P) /\ Cardinality(P) = Cardinality(Thread) * MaxDepth
  BY <1>2, FS_Product
<1>4. ASSUME NEW ts \in S PROVE \E p \in P : Has(p, ts)
  <2>0. PICK t \in Thread : \E k \in 1..Len(stk[t]) : stk[t][k].ts = ts
    OBVIOUS
  <2>1. PICK k \in 1..Len(stk[t]) : stk[t][k].ts = ts
    BY <2>0
  <2>2. Len(stk[t]) \in Nat /\ Len(stk[t]) <= MaxDepth
    BY LenProperties
  <2>3. k \in 1..MaxDepth
    BY <1>1, <2>2
  <2>4. <<t, k>> \in P /\ Has(<<t, k>>, ts)
    BY <2>1, <2>3
  <2>5. QED BY <2>4
<1> HIDE DEF P
<1>5. ASSUME NEW ts \in S PROVE g[ts] \in P /\ Has(g[ts], ts)
  <2> HIDE DEF Has
  <2>1. QED BY <1>4
<1>6. \A ts, us \in S : g[ts] = g[us] => ts = us
  BY <1>5
<1>7. g \in [S -> P]
  BY <1>5
<1> HIDE DEF g, Has
<1>8. g \in Injection(S, P)
  BY <1>6, <1>7 DEF Injection, IsInjective
<1>9. IsFiniteSet(S) /\ Cardinality(S) <= Cardinality(P)
  BY <1>3, <1>8, FS_Injection
<1>10. QED BY <1>3, <1>9

LEMMA BoundedInit == IsFiniteSet(Thread) /\ Init => TstatesBounded
<1> SUFFICES ASSUME IsFiniteSet(Thread), Init, NEW i \in Interps
             PROVE  Cardinality({ts \in 2..Len(home) : home[ts] = i}) <= Cardinality(Thread) * MaxDepth
  BY DEF TstatesBounded
<1>1. {ts \in 2..Len(home) : home[ts] = i} = {}
  BY DEF Init
<1>2. Cardinality(Thread) \in Nat /\ MaxDepth \in Nat
  BY FS_CardinalityType, BoundAssumption
<1>3. Cardinality(Thread) * MaxDepth \in Nat
  BY <1>2
<1>4. QED BY SMTT(30), <1>1, <1>3, FS_EmptySet

\* A tstate is made when every one the interpreter has is in a frame.
LEMMA BoundedStep ==
  ASSUME IInv, DepthKept, TstatesBounded, IsFiniteSet(Thread), Next
  PROVE  TstatesBounded'
<1> USE DEF IInv
<1>0. IInv' /\ DepthKept'
  BY StepInv, DepthStep
<1>1. PICK t \in Thread : Still(t) \/ (\E i \in Interps : Lends(t, i)) \/ Returns(t)
  BY StepShape
<1>2. CASE home' = home
  BY <1>2 DEF TstatesBounded
<1>3. CASE home' # home
  <2>1. PICK i \in Interps : /\ (pool[i] = <<>> /\ obcb[i] # "none") \/ i > ninterp
                             /\ Push(t, i, Len(home) + 1)
                             /\ home' = Append(home, i)
    BY <1>1, <1>3 DEF Still, Lends, Returns
  <2>2. /\ home \in Seq(Interps) /\ Len(home) \in Nat /\ Len(home') = Len(home) + 1
        /\ \A ts \in 1..Len(home) : home'[ts] = home[ts]
        /\ home'[Len(home) + 1] = i
    BY <2>1, AppendProperties, LenProperties DEF TypeOK
  <2>3. /\ \A u \in Thread : u # t => stack'[u] = stack[u]
        /\ Len(stack[t]) \in Nat /\ Len(stack'[t]) = Len(stack[t]) + 1
        /\ \A k \in 1..Len(stack[t]) : stack'[t][k] = stack[t][k]
        /\ stack'[t][Len(stack[t]) + 1].ts = Len(home) + 1
    <3>1. Len(home) + 1 \in Nat
      BY <2>2
    <3>2. stack'[t][Len(stack[t]) + 1] = [interp |-> i, ts |-> Len(home) + 1, held |-> FALSE]
      BY <2>1, <3>1, PushFacts
    <3>3. stack'[t][Len(stack[t]) + 1].ts = Len(home) + 1
      BY <3>2
    <3>4. QED BY <2>1, <3>1, <3>3, PushFacts
  <2>4. ASSUME NEW j \in Interps
        PROVE  Cardinality({ts \in 2..Len(home') : home'[ts] = j}) <= Cardinality(Thread) * MaxDepth
    <3>1. CASE j # i
      <4>1. {ts \in 2..Len(home') : home'[ts] = j} = {ts \in 2..Len(home) : home[ts] = j}
        BY <2>2, <3>1
      <4>2. QED BY <4>1 DEF TstatesBounded
    <3>2. CASE j = i
      <4> DEFINE S == {ts \in 2..Len(home') : home'[ts] = i}
      <4>1. ASSUME NEW ts \in S
            PROVE  \E u \in Thread : \E k \in 1..Len(stack'[u]) : stack'[u][k].ts = ts
        <5>1. CASE ts = Len(home) + 1
          BY <2>3, <5>1
        <5>2. CASE ts # Len(home) + 1
          <6>1. ts \in 2..Len(home) /\ home[ts] = i
            BY <2>2, <5>2
          <6>2. i <= ninterp /\ i \in Nat /\ ninterp \in Nat
            BY <6>1 DEF Numbered, TypeOK, Interps
          <6>3. pool[i] = <<>> /\ obcb[i] # "none"
            BY <2>1, <6>2
          <6>4. ~InPool(i, ts)
            BY <6>3 DEF InPool
          <6>5. OnStack(ts)
            BY <6>1, <6>3, <6>4 DEF NoTstateLost
          <6>6. PICK u \in Thread : \E k \in 1..Len(stack[u]) : stack[u][k].ts = ts
            BY <6>5 DEF OnStack
          <6>7. PICK k \in 1..Len(stack[u]) : stack[u][k].ts = ts
            BY <6>6
          <6>8. k \in 1..Len(stack'[u]) /\ stack'[u][k].ts = ts
            BY SMTT(30), <2>3, <6>7
          <6>9. QED BY <6>8
        <5>3. QED BY <5>1, <5>2
      <4> HIDE DEF S
      <4>2. stack' \in [Thread -> Seq(Frame)] /\ \A u \in Thread : Len(stack'[u]) <= MaxDepth
        BY <1>0 DEF TypeOK, DepthKept
      <4>3. Cardinality(S) <= Cardinality(Thread) * MaxDepth
        BY <4>1, <4>2, FramesBound
      <4>4. QED BY <3>2, <4>3 DEF S
    <3>3. QED BY <3>1, <3>2
  <2>5. QED BY <2>4 DEF TstatesBounded
<1>4. QED BY <1>2, <1>3

\* An interpreter never has more tstates than calls that can be in it at once,
\* however many requests it serves.
THEOREM Bounded == IsFiniteSet(Thread) => (Spec => []TstatesBounded)
<1> SUFFICES ASSUME IsFiniteSet(Thread) PROVE Spec => []TstatesBounded
  OBVIOUS
<1>1. Init => DepthKept /\ TstatesBounded
  BY DepthInit, BoundedInit
<1>2. IInv /\ DepthKept /\ TstatesBounded /\ [Next]_vars => (DepthKept /\ TstatesBounded)'
  <2>1. CASE UNCHANGED vars
    BY <2>1 DEF vars, DepthKept, TstatesBounded
  <2>2. CASE Next
    BY <2>2, DepthStep, BoundedStep
  <2>3. QED BY <2>1, <2>2
<1>3. QED BY <1>1, <1>2, InvariantHolds, PTL DEF Spec

-----------------------------------------------------------------------------
LEMMA OutsideStep ==
  ASSUME TypeOK, NoGilOutside, [Next]_vars, "new" \notin Failures, "save" \notin Failures, ~HeldCalls
  PROVE  NoGilOutside'
<1>1. CASE UNCHANGED vars
  BY <1>1 DEF vars, NoGilOutside
<1>2. CASE Next
  <2>1. PICK t \in Thread :
          \/ \E n \in Name : Phase(t, n)
          \/ Restore(t) \/ GetInterpreter(t) \/ Release(t)
          \/ SwitchOut(t) \/ SwitchIn(t)
          \/ CallOut(t) \/ CallOutHeld(t) \/ Return(t)
          \/ EndRequest(t)
    BY <1>2 DEF Next
  <2>2. ~CreateFail(t) /\ ~SaveFail(t) /\ ~CallOutHeld(t)
    BY DEF CreateFail, SaveFail, CallOutHeld
  <2>3. CASE (\E n \in Name : Phase(t, n)) \/ Return(t) \/ EndRequest(t)
    BY <2>3 DEF Phase, Return, EndRequest, Goto, TypeOK, NoGilOutside
  <2>4. CASE HitPooled(t) \/ HitNew(t) \/ Miss(t) \/ CreateOk(t) \/ CallbackOk(t)
    BY <2>4 DEF HitPooled, HitNew, Enter, Miss, CreateOk, CallbackOk, Goto, TypeOK, NoGilOutside
  <2>5. CASE Restore(t) \/ SwitchIn(t)
    BY <2>5, ThreadAssumption DEF Restore, SwitchIn, Goto, TypeOK, NoGilOutside, InPython
  <2>6. CASE Release(t) \/ CallbackFail(t) \/ SwitchOut(t) \/ CallOut(t)
    BY <2>6, ThreadAssumption
       DEF Release, CallbackFail, ReleaseInterpreter, SwitchOut, CallOut, NoGilOutside
  <2>7. QED BY <2>1, <2>2, <2>3, <2>4, <2>5, <2>6 DEF GetInterpreter
<1>3. QED BY <1>1, <1>2

\* Unless Py_NewInterpreter() or save_interpreter() fails, or a handler discards the
\* body, no thread keeps the GIL when it leaves Python: what those two early returns
\* and that call do is the only way to.
THEOREM GilReturned ==
  "new" \notin Failures /\ "save" \notin Failures /\ ~HeldCalls => (Spec => []NoGilOutside)
<1> SUFFICES ASSUME "new" \notin Failures, "save" \notin Failures, ~HeldCalls
             PROVE  Spec => []NoGilOutside
  OBVIOUS
<1>1. Init => NoGilOutside
  BY ThreadAssumption DEF Init, NoGilOutside
<1>2. IInv /\ NoGilOutside /\ [Next]_vars => NoGilOutside'
  BY OutsideStep DEF IInv
<1>3. QED BY <1>1, <1>2, InvariantHolds, PTL DEF Spec
=============================================================================
