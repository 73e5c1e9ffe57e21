------------------------------ MODULE Requests ------------------------------
(***************************************************************************)
(* What a request to the publisher meets: the options of its configuration *)
(* and its headers are tables.  The publisher, a table and a configuration *)
(* share nothing: a behaviour here is one of one of them.                  *)
(***************************************************************************)
EXTENDS Publisher, Keeping

CONSTANTS
    TableKey, TableValue, CaseFold, NatFold, Letter, Joined, Blank, BadPair, TableConfigs, \* see Table
    Request, Sections, OptionKey, OptionValue, Phase, Ext, Handler, File, ResolvedDir,
    SharedWrites, ConfigConfigs                                                       \* see Config

VARIABLES
    tableConf, tab, other, it, reply,
    configConf, stage, local, global, made, log, requests

tableVars  == <<tableConf, tab, other, it, reply>>
configVars == <<configConf, stage, local, global, made, log, requests>>

T == INSTANCE Table WITH
    Key <- TableKey, Value <- TableValue, Bad <- BadPair, Configs <- TableConfigs,
    conf <- tableConf

C == INSTANCE Config WITH
    Key <- OptionKey, Value <- OptionValue, Configs <- ConfigConfigs,
    Resolved <- ResolvedDir, conf <- configConf, req <- requests

ReadersAgree       == T!ReadersAgree
Visits             == T!Visits
ImplementsMultimap == T!ImplementsMultimap
EffectiveOptions   == C!EffectiveOptions
EffectiveHandlers  == C!EffectiveHandlers
OnlyLocations      == C!OnlyLocations
=============================================================================
