----------------------------- MODULE MCPipeline -----------------------------
(***************************************************************************)
(* Every command, for a device and for a host backend, with one header.    *)
(***************************************************************************)
EXTENDS Pipeline

\* The main file is edited, or the header; or nothing is left of either.
MCEdits ==
    {[f \in Files |-> IF f = "main" THEN e[1] ELSE e[2]] :
        e \in {<<"edited", "kept">>, <<"kept", "edited">>, <<"emptied", "emptied">>}}
=============================================================================
