---------------------------- MODULE DatagramPipe ----------------------------
(***************************************************************************)
(* What an Egress promises its targets: datagrams are numbered as they are *)
(* accepted, and each target settles them in that order, each one either   *)
(* written or given up, never both, never twice, none skipped.             *)
(***************************************************************************)
EXTENDS Naturals, Sequences

CONSTANT Targets

VARIABLES accepted,   \* how many datagrams were accepted
          settled,    \* settled[t]: how many of them target t is done with
          written     \* written[t]: the numbers it was sent

vars == <<accepted, settled, written>>

Init ==
    /\ accepted = 0
    /\ settled = [t \in Targets |-> 0]
    /\ written = [t \in Targets |-> <<>>]

Accept ==
    /\ accepted' = accepted + 1
    /\ UNCHANGED <<settled, written>>

(* The next n datagrams are written to t, the k behind them given up. *)
Settle(t, n, k) ==
    /\ settled[t] + n + k <= accepted
    /\ settled' = [settled EXCEPT ![t] = @ + n + k]
    /\ written' = [written EXCEPT ![t] = @ \o [i \in 1..n |-> settled[t] + i]]
    /\ UNCHANGED accepted

Next ==
    \/ Accept
    \/ \E t \in Targets : \E n, k \in 0..accepted : Settle(t, n, k)

Spec == Init /\ [][Next]_vars
=============================================================================
