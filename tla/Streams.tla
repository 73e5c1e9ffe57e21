------------------------------ MODULE Streams -------------------------------
(***************************************************************************)
(* The two ways data comes to and from a handler: the body of a request,   *)
(* and the brigades of a filter.  The two share nothing: a behaviour here  *)
(* is one of either.                                                       *)
(***************************************************************************)
EXTENDS ReqBody

CONSTANTS
    FilterBytes, FilterBucket, FilterHuge, FilterLens, FilterNewlines, FlushInside, FilterOps \* see Filter

VARIABLES
    conf, registered, ctx, given, ended, filterPc, ops, bbIn, bbOut, closed, rc, rd, got, failed,
    ret, clean, written, passed

filterVars ==
    <<conf, registered, ctx, given, ended, filterPc, ops, bbIn, bbOut, closed, rc, rd, got, failed,
      ret, clean, written, passed>>

F == INSTANCE Filter WITH
    MaxBytes <- FilterBytes, MaxBucket <- FilterBucket, HugeStringLen <- FilterHuge,
    Lens <- FilterLens, Newlines <- FilterNewlines, MaxOps <- FilterOps, pc <- filterPc

\* A filter gives on what its handler wrote, and what the handler reads fits in the buffer.
Delivered       == F!Delivered /\ F!InBounds
Copied          == F!Copied

\* A failure of the next filter is returned, and what was passed to it not passed again.
FailureReturned == F!FailureReturned /\ F!NothingTwice
=============================================================================
