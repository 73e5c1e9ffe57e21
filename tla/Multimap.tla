------------------------------ MODULE Multimap ------------------------------
(***************************************************************************)
(* What an mp_table promises to a Python program: names, whose case does   *)
(* not matter, with the values added under each, in their order.           *)
(* Assigning replaces all values of a name by one, add() appends one.      *)
(***************************************************************************)
EXTENDS Sequences, SequencesExt

CONSTANTS Name, Value

VARIABLES map,   \* from the names there are to sequences of values
          reply  \* what the last call did, or the pair it returned, where it does both

vars == <<map, reply>>

Over(m, u) == [n \in DOMAIN m \union DOMAIN u |-> IF n \in DOMAIN u THEN u[n] ELSE m[n]]
Only(n, s) == [x \in {n} |-> s]
Without(m, N) == [n \in DOMAIN m \ N |-> m[n]]
Says(what) == reply' = <<what>>

Init == map = [n \in {} |-> <<>>] /\ reply = <<>>

SetItem(n, v) == Says("set") /\ map' = Over(map, Only(n, <<v>>))

Add(n, v) == Says("add") /\ map' = Over(map, Only(n, IF n \in DOMAIN map THEN Append(map[n], v) ELSE <<v>>))

DelItem(n) == Says("del") /\ map' = Without(map, {n})

Clear == Says("clear") /\ map' = [n \in {} |-> <<>>]

\* Assign to some names, as far as the pairs are good.
Update ==
    /\ Says("update") /\ DOMAIN map \subseteq DOMAIN map'
    /\ \A n \in DOMAIN map' : \/ n \in DOMAIN map /\ map'[n] = map[n]
                              \/ \E v \in Value : map'[n] = <<v>>

\* Copies, iterators.
Read == reply' = <<>> /\ UNCHANGED map

SetDefault(n, v) ==
    /\ map' = IF n \in DOMAIN map THEN map ELSE Over(map, Only(n, <<v>>))
    /\ reply' = <<n, map'[n][1]>>

PopItem ==
    \E n \in DOMAIN map : \E i \in DOMAIN map[n] :
        /\ reply' = <<n, map[n][i]>>
        /\ map' = IF Len(map[n]) = 1 THEN Without(map, {n})
                  ELSE Over(map, Only(n, RemoveAt(map[n], i)))

Next ==
    \/ Clear \/ Update \/ Read
    \/ \E n \in Name : DelItem(n)
    \/ \E n \in Name, v \in Value : SetItem(n, v) \/ Add(n, v) \/ SetDefault(n, v)
    \/ PopItem

Spec == Init /\ [][Next]_vars
=============================================================================
