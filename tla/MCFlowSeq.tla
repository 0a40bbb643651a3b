----------------------------- MODULE MCFlowSeq -----------------------------
EXTENDS FlowSeq, TLC

CONSTANTS c1, c2, c3, k1, k2, s1, o1, o2

(* Two flows of one sender: stripeIndex hashes the sender's IP alone. *)
MCStripeOf == k1 :> s1 @@ k2 :> s1

(* Goroutines are interchangeable, and so are flowState pointers. *)
Symmetry == Permutations(Callers) \cup Permutations(States)
=============================================================================
