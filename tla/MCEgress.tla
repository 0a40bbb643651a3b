------------------------------ MODULE MCEgress ------------------------------
(***************************************************************************)
(* Small instances of Egress: the inline modes, and the sender goroutine.  *)
(***************************************************************************)
EXTENDS Egress

CONSTANTS s1, b1

AllModes == [sender : {FALSE}, via : BOOLEAN, reliable : BOOLEAN]
            \cup {[sender |-> TRUE, via |-> FALSE, reliable |-> TRUE]}
=============================================================================
