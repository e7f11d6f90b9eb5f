--------------------------- MODULE MCHapExchange ---------------------------
(* Small instances of HapExchange: TaskHAP alone (re-entrancy only), and     *)
(* TaskHAP with one more task that sends.                                   *)
EXTENDS HapExchange
=============================================================================
