----------------------------- MODULE MCCrtpLink -----------------------------
(* CrtpLink with queues of one or two packets. *)
EXTENDS CrtpLink
=============================================================================
