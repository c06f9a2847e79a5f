---------------------------- MODULE MCIouPayments ----------------------------
(* Small instances of IouPayments for TLC.                                 *)
EXTENDS IouPayments

CONSTANTS alice, w1, w2
==============================================================================
