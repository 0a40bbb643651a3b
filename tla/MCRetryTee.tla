----------------------------- MODULE MCRetryTee -----------------------------
(* Small instances of RetryTee. *)
EXTENDS RetryTee, TLC

CONSTANTS c1, c2, b1, b2
=============================================================================
