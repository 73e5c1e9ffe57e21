--------------------------- MODULE SessionLocking ---------------------------
(***************************************************************************)
(* Sessions with locking on implement the registers of SessionRegister: a  *)
(* session id is open while a session object has it locked, its value is   *)
(* the save in the store.                                                  *)
(***************************************************************************)
EXTENDS Session

Opener(s) == IF \E w \in Worker : sess[w].locked /\ sess[w].sid = s
             THEN CHOOSE w \in Worker : sess[w].locked /\ sess[w].sid = s
             ELSE NoWorker

Register == INSTANCE SessionRegister WITH
    Value  <- 0..MaxSaves,
    holder <- [s \in Sid |-> Opener(s)],
    value  <- [s \in Sid |-> store[s].ver]

\* What a request does to a session, its constructor, saves, deletes and cleanups with
\* all their locking, is to open a register nobody has open, write it while it is
\* open, and close it; all else that happens to a session is that it times out.
ImplementsRegister == Register!Spec
=============================================================================
