----------------------------- MODULE MC_Caches ------------------------------
(* Instances of Cache and of Psp for TLC.  The two share nothing: a behaviour is one of       *)
(* either, with the other as it was at the start.                                             *)
EXTENDS Caches, TLC

CONSTANTS k1, p1, p2, p3

\* A page with an error page, both with the session, and one without either.
Pages    == {p1, p2, p3}
Sessions == {p1, p2}
Errors   == (p1 :> p2) @@ (p2 :> NoPage) @@ (p3 :> NoPage)

CacheConfig(most, kind, changing, reload, deletes, sets, fails, cycles) ==
    [max |-> most, kind |-> kind, changing |-> changing, reload |-> reload, deletes |-> deletes,
     sets |-> sets, fails |-> fails, cycles |-> cycles]

\* The cache of published pages without reloading; a file cache with a limit, and one whose
\* entries are deleted; a plain cache that is set too; a weak cache, without and
\* with values in cycles of references.
CacheConfigs == {CacheConfig(0, "file", {k1}, FALSE, FALSE, FALSE, FALSE, FALSE),
                 CacheConfig(1, "file", {k1}, TRUE, FALSE, FALSE, TRUE, FALSE),
                 CacheConfig(1, "file", {k1}, TRUE, TRUE, FALSE, FALSE, FALSE),
                 CacheConfig(1, "plain", {}, TRUE, FALSE, TRUE, FALSE, FALSE),
                 CacheConfig(0, "weak", {}, TRUE, FALSE, FALSE, FALSE, FALSE),
                 CacheConfig(0, "weak", {}, TRUE, FALSE, FALSE, FALSE, TRUE)}

PspConfig(strings, dbms, ties, fails, changing, most) ==
    [strings |-> strings, dbm |-> dbms, ties |-> ties, fails |-> fails, changing |-> changing,
     runs |-> most]

\* Pages with the cache in memory, as many as it cleans, and fewer of which one changes; with
\* the dbm cache; templates; with entries that cannot be sorted.
Templates  == PspConfig(TRUE, FALSE, TRUE, FALSE, {}, 2)
PagesConfigs == {PspConfig(FALSE, FALSE, TRUE, FALSE, {}, 2),
               PspConfig(FALSE, FALSE, TRUE, FALSE, {p2}, 2),
               PspConfig(FALSE, TRUE, TRUE, TRUE, {}, 2), Templates,
               PspConfig(FALSE, FALSE, FALSE, FALSE, {}, 2)}

VARIABLE which

ASSUME P!PspAssumption

AllInit ==
    /\ Init /\ P!Init
    /\ \/ which = "cache" /\ pspConf = Templates
       \/ which = "psp" /\ conf = CacheConfig(0, "file", {k1}, FALSE, FALSE, FALSE, FALSE, FALSE)

AllNext ==
    \/ which = "cache" /\ Next /\ UNCHANGED <<which, pspVars>>
    \/ which = "psp" /\ P!Next /\ UNCHANGED <<which, vars>>

AllSpec ==
    /\ AllInit /\ [][AllNext]_<<which, vars, pspVars>>
    /\ \A t \in Thread : WF_vars(which = "cache" /\ Step(t) /\ UNCHANGED <<which, pspVars>>)
    /\ \A r \in Request : WF_pspVars(which = "psp" /\ P!Step(r) /\ UNCHANGED <<which, vars>>)

\* Every call of a cache returns, and every request for a page comes to its end.
AllEnd == CallReturns /\ P!RequestEnds
=============================================================================
