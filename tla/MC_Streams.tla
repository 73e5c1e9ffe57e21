----------------------------- MODULE MC_Streams -----------------------------
(* Instances of ReqBody and of Filter for TLC.  The two share nothing: a behaviour is one of  *)
(* either, with the other as it was at the start.                                             *)
EXTENDS Streams

\* Lengths of calls that read a body, mixes of the calls, and failures of blocks.
SomeLens == {-1, 0, 1, 2, 4}
AllUses  == {{"read"}, {"line", "lines"}, {"read", "line"}}
Either   == {"first", "later"}

\* What the filter is called with, and calls of its handler.
SomeFilterLens == {-2, -1, 1, 2}
SomeNewlines   == {{2}}

VARIABLE which

\* Filters: what a handler does that does not just copy is only explored with strings that
\* are kept, and error reports that go out.
Explored == (conf.keeps \/ conf.copy) /\ (conf.debug \/ (conf.keeps /\ conf.copy))

ASSUME F!FilterAssumption

AllInit ==
    /\ which \in {"body", "filter"}
    /\ which = "filter" => length = 0 /\ newlines = {} /\ use = {"read"}
    /\ which = "body" => conf = [input |-> TRUE, copy |-> TRUE, debug |-> TRUE, here |-> TRUE,
                                 newlines |-> {2}, keeps |-> TRUE]
    /\ Init /\ F!Init
    /\ which = "filter" => Explored

AllNext ==
    \/ which = "body" /\ Next /\ UNCHANGED <<which, filterVars>>
    \/ which = "filter" /\ F!Next /\ UNCHANGED <<which, vars>>

AllSpec ==
    /\ AllInit /\ [][AllNext]_<<which, vars, filterVars>>
    /\ WF_vars(which = "body" /\ (ReturnNothing \/ Read \/ Readline \/ ReadBlock \/ LineBlock)
                   /\ UNCHANGED <<which, filterVars>>)
=============================================================================
