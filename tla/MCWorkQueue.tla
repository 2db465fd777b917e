---------------------------- MODULE MCWorkQueue ----------------------------
(***************************************************************************)
(* The work queue for TLC: two workers and the nodes malloc may return.    *)
(***************************************************************************)
EXTENDS WorkQueue

CONSTANTS w1, w2, n1, n2, n3
=============================================================================
