------------------------------- MODULE Caches -------------------------------
(***************************************************************************)
(* The caches of a process: those of cache.py, with their locks, and those *)
(* of pages in psp.py, which have none.  The two share nothing: a          *)
(* behaviour here is one of one of them.                                   *)
(***************************************************************************)
EXTENDS Cache

CONSTANTS
    Request, Page, UsesSession, ErrorPage, Size, PspConfigs, NoPage, NoRequest   \* see Psp

VARIABLES
    pspConf, pspFile, cfile, dbm, mem, mutex0, lock, pspPc, page, mtime, code, hits, todo, frames,
    has, saved, result, runs

pspVars == <<pspConf, pspFile, cfile, dbm, mem, mutex0, lock, pspPc, page, mtime, code, hits, todo,
             frames, has, saved, result, runs>>

P == INSTANCE Psp WITH
    Configs <- PspConfigs, conf <- pspConf, file <- pspFile, pc <- pspPc

\* What a page runs with: its code is not older than the page was when the request looked, the
\* session that is made for it is saved when it ends well, be it by its error page, and is
\* neither waited for by the request that has it nor left locked (PSP.load_from_file, run).
PagesRun == P!CodeFresh /\ P!SessionSaved /\ P!NoSelfWait
=============================================================================
