-------------------------- MODULE MC_DaemonClients --------------------------
(***************************************************************************)
(* Two clients whose lines come in pieces, several at a time, fill the     *)
(* buffer, overflow it, or are not valid.                                  *)
(***************************************************************************)
EXTENDS DaemonClients

MCScripts ==
    {<<"command", "part", "command">>, <<"part", "part">>, <<"unknown", "invalid">>}
=============================================================================
