----------------------------- MODULE MC_Dispatch -----------------------------
(***************************************************************************)
(* Small instances of Dispatch: configurations with handlers that exist    *)
(* (a and b) and one that does not (gone).                                 *)
(***************************************************************************)
EXTENDS Dispatch, TLC

Handlers3 == {"a", "b", "gone"}
Existing2 == {"a", "b"}

Named(h)  == [h |-> h, silent |-> FALSE, dotted |-> FALSE]
Module(h) == [h |-> h, silent |-> TRUE, dotted |-> FALSE]     \* PythonHandlerModule
Nested(h) == [h |-> h, silent |-> TRUE, dotted |-> TRUE]      \* with module::object.h

Lists(f) == [p \in Phases |-> IF p \in DOMAIN f THEN f[p] ELSE <<>>]
Config(main, dir, auth) == [main |-> Lists(main), dir |-> Lists(dir), authoritative |-> auth]
Nothing == [p \in {} |-> <<>>]

\* Handlers of all kinds of phase, and a directory whose lists replace those of the server.
Plain == Config("init" :> <<Named("a")>> @@ "authen" :> <<Named("a")>>,
                "authen" :> <<Named("b"), Named("a")>> @@ "handler" :> <<Named("a"), Named("b")>>
                    @@ "cleanup" :> <<Named("a")>>, TRUE)

\* Python answers one phase, and is not authoritative.
Single == Config(Nothing, "authen" :> <<Named("a")>> @@ "log" :> <<Named("b"), Named("gone")>>, FALSE)

\* PythonHandlerModule behind another handler, and with a function of a nested object.
Silent == Config("postread" :> <<Nested("gone"), Named("a")>>,
                 "fixup" :> <<Named("a"), Module("gone"), Named("b")>>
                    @@ "handler" :> <<Module("a")>>, TRUE)

\* PythonHandlerModule alone.
Alone == Config(Nothing, "fixup" :> <<Module("gone")>> @@ "handler" :> <<Module("a")>>, TRUE)

AllConfigs == {Plain, Single, Silent, Alone}
=============================================================================
