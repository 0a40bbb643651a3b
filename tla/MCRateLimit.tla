---------------------------- MODULE MCRateLimit ----------------------------
(* Two lanes, two addresses of one prefix and one of another, objects that *)
(* fit the byte bucket of a source and exceed the plane's.                 *)
EXTENDS RateLimit, TLC

CONSTANTS l1, l2, x1, x2, y, X, Y

Symmetry == Permutations(Lanes)

MCKeyOf == x1 :> X @@ x2 :> X @@ y :> Y

Rates(obj, byt) == [obj |-> obj, byt |-> byt]

(* Both tiers with room for one source, the plane alone, the sources       *)
(* alone with room for both, and no budget.                                *)
MCConfigs ==
    {[source |-> Rates(1, 2), plane |-> Rates(1, 1), max |-> 1],
     [source |-> Rates(0, 0), plane |-> Rates(1, 0), max |-> 1],
     [source |-> Rates(1, 0), plane |-> Rates(0, 0), max |-> 2],
     [source |-> Rates(0, 0), plane |-> Rates(0, 0), max |-> 1]}
=============================================================================
