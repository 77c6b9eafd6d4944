---------------------------- MODULE MCAckExchange ---------------------------
(***************************************************************************)
(* Instances of AckExchange for TLC.                                       *)
(***************************************************************************)
EXTENDS AckExchange
=============================================================================
