----------------------------- MODULE MC_Session -----------------------------
(***************************************************************************)
(* Small instances of Session.                                             *)
(***************************************************************************)
EXTENDS SessionLocking, TLC

CONSTANTS w1, w2, s1, s2, s3

Workers == {w1, w2}
Sids    == {s1, s2, s3}
Hash    == s1 :> 1 @@ s2 :> 2 @@ s3 :> 1      \* s1 and s3 share a mutex

Config(kind, lock, fails, unlocks) ==
    [kind |-> kind, lock |-> lock, fails |-> fails, unlocks |-> unlocks]

\* Every class with locking on; FileSession without locking, and with files that fail;
\* handlers that unlock and lock.
AllConfigs == {Config("dbm", TRUE, FALSE, FALSE), Config("memory", TRUE, FALSE, FALSE),
               Config("file", TRUE, FALSE, FALSE), Config("file", FALSE, TRUE, FALSE),
               Config("file", TRUE, FALSE, TRUE)}
DbmConfig  == {Config("dbm", TRUE, FALSE, FALSE)}

\* Three saves let one be lost between two requests: they load the first, and each saves.
\* Where no locking is meant to prevent that, two saves are enough.
SavesExplored == Locking \/ saves + Saving <= 2

WorkerSymmetry == Permutations(Workers)
=============================================================================
