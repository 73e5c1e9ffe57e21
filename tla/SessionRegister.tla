-------------------------- MODULE SessionRegister --------------------------
(***************************************************************************)
(* What session locking promises: each session id is a register that one   *)
(* worker at a time has open, and only that worker writes it. A register   *)
(* that nobody wrote for its timeout may be emptied by anyone.             *)
(***************************************************************************)
EXTENDS Naturals

CONSTANTS Worker, Sid, NoWorker, Value
VARIABLES holder, value

Init == /\ holder = [s \in Sid |-> NoWorker]
        /\ value = [s \in Sid |-> 0]

Open(w, s) == /\ holder[s] = NoWorker
              /\ holder' = [holder EXCEPT ![s] = w]
              /\ UNCHANGED value

Write(w, s) == /\ holder[s] = w
               /\ \E v \in Value : value' = [value EXCEPT ![s] = v]
               /\ UNCHANGED holder

Close(w, s) == /\ holder[s] = w
               /\ holder' = [holder EXCEPT ![s] = NoWorker]
               /\ UNCHANGED value

\* Sessions time out.
Drop == \E S \in SUBSET Sid :
          /\ value' = [s \in Sid |-> IF s \in S THEN 0 ELSE value[s]]
          /\ UNCHANGED holder

Next == \/ \E w \in Worker, s \in Sid : Open(w, s) \/ Write(w, s) \/ Close(w, s)
        \/ Drop

Spec == Init /\ [][Next]_<<holder, value>>
=============================================================================
