---------------------------- MODULE TstateLease ----------------------------
(***************************************************************************)
(* What mod_python promises about thread states, without interpreters,     *)
(* hash table, arrays or callbacks: one thread at a time holds the         *)
(* interpreter lock; the holder may be lent a thread state that nobody     *)
(* has, and gives back the one it was lent last. A thread may be lent      *)
(* several, one inside the other.                                          *)
(***************************************************************************)
EXTENDS Naturals, Sequences

CONSTANTS Thread, NoThread

VARIABLES holder,  \* the thread that holds the lock, or NoThread
          lent     \* the thread states lent to each thread, the last one last

lvars == <<holder, lent>>

\* Thread states are numbered; number 1 is the runtime's own and is never lent.
Tstate == Nat \ {0, 1}

Lent(ts) == \E t \in Thread : \E k \in DOMAIN lent[t] : lent[t][k] = ts

Init == holder = NoThread /\ lent = [t \in Thread |-> <<>>]

Take(t) == holder = NoThread /\ holder' = t /\ UNCHANGED lent

Drop(t) == holder = t /\ holder' = NoThread /\ UNCHANGED lent

\* Any thread state may be lent that is not: which one is left open.
Lend(t) ==
    /\ holder = t
    /\ lent'[t] # <<>>
    /\ LET ts == lent'[t][Len(lent'[t])] IN
         /\ ts \in Tstate
         /\ ~Lent(ts)
         /\ lent' = [lent EXCEPT ![t] = Append(@, ts)]
    /\ UNCHANGED holder

\* The lock is given up with the thread state, except when the interpreter it
\* was lent for could not be made.
GiveBack(t) ==
    /\ holder = t
    /\ lent[t] # <<>>
    /\ lent' = [lent EXCEPT ![t] = SubSeq(@, 1, Len(@) - 1)]
    /\ holder' \in {t, NoThread}

Next == \E t \in Thread :
    Take(t) \/ Drop(t) \/ Lend(t) \/ GiveBack(t)

Spec == Init /\ [][Next]_lvars

\* No thread state is lent twice.
NeverLentTwice ==
    \A t1, t2 \in Thread : \A k1 \in DOMAIN lent[t1], k2 \in DOMAIN lent[t2] :
        lent[t1][k1] = lent[t2][k2] => t1 = t2 /\ k1 = k2
=============================================================================
