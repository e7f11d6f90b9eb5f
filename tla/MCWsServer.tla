----------------------------- MODULE MCWsServer -----------------------------
(* Small instances of WsServer: two or three connections on two numbers, one *)
(* or two tasks that broadcast beside Httpd.                                 *)
EXTENDS WsServer
=============================================================================
