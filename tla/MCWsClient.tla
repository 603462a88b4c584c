----------------------------- MODULE MCWsClient -----------------------------
(***************************************************************************)
(* Instances of WsClient for TLC.                                          *)
(***************************************************************************)
EXTENDS WsClient

CONSTANTS timer, handler

MCSenders == {timer, handler}
=============================================================================
