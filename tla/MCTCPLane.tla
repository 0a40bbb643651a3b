----------------------------- MODULE MCTCPLane -----------------------------
(* Small instances of TCPLane. *)
EXTENDS TCPLane, TLC

CONSTANTS c1, c2

(* A connection alone, with room for a full batch; and one that sends less *)
(* beside one that only comes and goes.                                    *)
AloneOrBesideIdle == {c1 :> 4, c1 :> 1 @@ c2 :> 0}
=============================================================================
