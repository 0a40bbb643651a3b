---------------------------- MODULE SeqAllocator ----------------------------
(***************************************************************************)
(* What the forwarder's per-flow SeqNum counters promise: a reservation of *)
(* n numbers on a flow takes, in one step, the next n numbers of that      *)
(* flow.  FlowSeq is the striped map and lock-free counter that the code   *)
(* builds this from.                                                       *)
(***************************************************************************)
EXTENDS Naturals

CONSTANTS Keys,      \* the flows: chainKey = (sender IP, group, subtree)
          MaxRun     \* the longest run one call reserves

VARIABLES last,      \* last[k]: the last SeqNum of flow k handed out, 0 if none
          grants,    \* how many reservations were made
          issued     \* the reservations made, numbered by grants

vars == <<last, grants, issued>>

Init ==
    /\ last = [k \in Keys |-> 0]
    /\ grants = 0
    /\ issued = {}

Reserve(k, n) ==
    /\ last' = [last EXCEPT ![k] = @ + n]
    /\ grants' = grants + 1
    /\ issued' = issued \cup
         {[id |-> grants, key |-> k, first |-> last[k] + 1, n |-> n]}

Next == \E k \in Keys, n \in 1..MaxRun : Reserve(k, n)

Spec == Init /\ [][Next]_vars
=============================================================================
