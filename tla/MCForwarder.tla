---------------------------- MODULE MCForwarder ----------------------------
(***************************************************************************)
(* Small instances of Forwarder: sets of datagrams chosen so that the      *)
(* lanes meet on the same ids, flows and groups.                           *)
(***************************************************************************)
EXTENDS Forwarder, TLC

CONSTANTS l1, l2, l3, A, B, C, E, F, G, g1, g2, g3, ipX, ipY

(* The lanes, and the ids that CoalesceInputs and MCSuccessorOf use alike. *)
Symmetry == Permutations(Lanes) \cup Permutations({A, E}) \cup Permutations({C, G})

MCGroupOf == A :> g1 @@ B :> g1 @@ C :> g2 @@ E :> g1 @@ F :> g1
OneGroup == [k \in {A, B, C, E, F, G} |-> g1]
MCSuccessorOf == A :> g3 @@ B :> g1 @@ C :> g3 @@ E :> g3 @@ F :> g2 @@ G :> g3
Deliver == ipX :> 0 @@ ipY :> 3 @@ Nil :> 0
Lift == ipX :> 0 @@ ipY :> 3 @@ Nil :> 0

Frame(kind, id, body, src, len) ==
    [kind |-> kind, id |-> id, body |-> body, form |-> "exact", ef |-> TRUE,
     pow |-> TRUE, seq |-> 0, hash |-> Nil, src |-> src, sub |-> Nil,
     len |-> len, byte7 |-> 0, topics |-> 2]

(* Honest, impostor, padded, bare and relayed copies of two transactions. *)
TxInputs ==
    {Frame("v2", A, A, ipX, 1),
     Frame("v2", A, B, ipY, 1),
     [Frame("v2", A, A, ipY, 1) EXCEPT !.form = "tail"],
     Frame("bare", Nil, A, ipY, 1),
     [Frame("v2", B, B, ipX, 1) EXCEPT !.seq = 7, !.hash = ipY]}

(* Transactions of one flow: three that fit a bundle by their bytes but    *)
(* not by their number, a longer one that fits none of them by its bytes,  *)
(* two too large for a datagram; another sender's, and a legacy frame.     *)
CoalesceInputs ==
    {Frame("v2", A, A, ipX, 1),
     Frame("v2", B, B, ipX, 1),
     Frame("v2", E, E, ipX, 1),
     Frame("v2", F, F, ipX, 4),
     Frame("v2", C, C, ipX, 5),
     Frame("v2", G, G, ipX, 5),
     Frame("v2", B, B, ipY, 1),
     Frame("v1", B, B, ipX, 1)}

(* The control classes and BEEF: a block past the fragment limit and one   *)
(* without work, a subtree of two fragments and one that is not the root   *)
(* it claims; a record of a lifted source (two fragments), the same from a *)
(* source held to the open bound, a pre-framed object that names its own   *)
(* DeliverCount, an impostor and a relayed object.                         *)
ObjectInputs ==
    {[Frame("block", A, A, ipX, 5) EXCEPT !.byte7 = 1],
     [Frame("block", A, A, ipX, 1) EXCEPT !.byte7 = 1, !.pow = FALSE],
     [Frame("coinbase", B, B, ipX, 1) EXCEPT !.byte7 = 2],
     Frame("anchor", C, C, ipX, 3),
     Frame("subtree", E, E, ipX, 3),
     Frame("subtree", E, A, ipX, 1),
     Frame("record", Nil, F, ipY, 3),
     Frame("record", Nil, F, ipX, 3),
     [Frame("beef", F, F, ipX, 2) EXCEPT !.byte7 = 15],
     Frame("beef", F, A, ipX, 1),
     [Frame("beef", F, F, Nil, 2) EXCEPT !.byte7 = 2],
     Frame("bundle", C, C, ipX, 1),
     Frame("control", Nil, Nil, ipX, 1)}

Mixed == TxInputs \cup ObjectInputs

Public == l1 :> "open" @@ l2 :> "open"
OneOfEach == l1 :> "privileged" @@ l2 :> "open" @@ l3 :> "beef"
=============================================================================
