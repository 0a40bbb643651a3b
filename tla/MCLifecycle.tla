----------------------------- MODULE MCLifecycle -----------------------------
(* Instances of Lifecycle.  Each configuration runs a few lanes, so that   *)
(* their state spaces add up instead of multiplying.                       *)
EXTENDS Lifecycle

CONSTANTS w1, w2, tcp, obj, c1, c2, s1, beef

Config(lanes, auto, conns, probed) ==
    [lanes |-> lanes, auto |-> auto, conns |-> conns, probed |-> probed]

AllConfigs == { Config(<<w1, tcp>>, "off", {}, TRUE),
                Config(<<w1, w2>>, "off", {}, TRUE),
                Config(<<w1, tcp>>, "off", {c1}, FALSE),
                Config(<<w1, obj>>, "off", {c1, c2}, FALSE),
                Config(<<w1>>, "restart", {}, FALSE),
                Config(<<w1>>, "live", {}, FALSE) }

ReadyConfigs == { Config(<<w1, tcp>>, "off", {}, TRUE) }

View(bits, ssm, successor, width) ==
    [bits |-> bits, ssm |-> ssm, successor |-> successor,
     domains |-> [d \in Domains |-> width]]

AllViews == { NoView, View(1, TRUE, s1, 0), View(1, FALSE, Nil, 1) }
=============================================================================
