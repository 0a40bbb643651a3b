----------------------------- MODULE Forwarder -----------------------------
(***************************************************************************)
(* The forwarder as its ingress lanes drive it.  A lane is one goroutine   *)
(* with an Egress of its own (a UDP worker, a TCP or object connection):   *)
(* it dispatches datagrams one at a time and flushes at the end of a       *)
(* batch.  Lanes share the TxID claim store, the per-flow SeqNum counters  *)
(* and the bridging pointer; a handler is split where it touches one of    *)
(* them, and nowhere else.  FlowSeq justifies the one-step reservation.    *)
(*                                                                         *)
(* A frame is abstracted to what the handlers tell apart.  id is the       *)
(* identity it presents (TxID, ContentID, SubtreeID or the BEEF claim      *)
(* pair), body the identity its payload really hashes to.                  *)
(***************************************************************************)
EXTENDS Naturals, Sequences, FiniteSets

CONSTANTS Lanes,
          ClassOf,            \* the lane's IngressClass
          Inputs,             \* the datagrams that may arrive, as records
          GroupOf,            \* engine.GroupIndex: id -> group
          SuccessorOf,        \* bridging.Secondary.GroupIndex: id -> group
          Nil,                \* zero HashKey, zero subtree, nil source
          AllowStampedIngress, RequireEF, VerifyPayloadHash,
          VerifySubtreeRoot, RequireBlockPoW, StampSource, Dedup,
          CoalLanes,          \* lanes whose Egress has a coalBuffer
          FragDataSize,       \* 0: fragmentation off
          MaxFragTotal,       \* 65535 in the code
          BundleHeader, MemberOverhead, CoalesceBudget, CoalesceMaxMembers,
          BEEFMaxObject,      \* 0: unbounded
          MaxObjectBytes,     \* BEEFSubmitPolicy.MaxObjectBytes: source -> bytes
          DeliverPolicy,      \* BEEFSubmitPolicy.DeliverCount: source -> count
          MaxArrivals,        \* bound: datagrams dispatched
          MaxFaults,          \* bound: claim-store faults and sibling claims
          MaxSwaps            \* bound: SetBridging calls

VARIABLES pc,         \* where each lane stands
          cur,        \* the frame a lane is handling
          frag,       \* its next fragment index
          coal,       \* coalBuffer: sequence of flow buckets
          out,        \* the datagrams the lane has queued for its sockets
          claims,     \* the claim store: [key, by]
          next,       \* next[flow]: the last SeqNum drawn
          bridging,   \* whether a BridgingEngine is published
          arrivals, faults, swaps,
          slack,      \* history: store faults that reopened an id
          mark,       \* history: Len(out) when the lane took its frame
          win         \* history: bridging was on ever since

shared == <<claims, next, bridging>>
history == <<arrivals, faults, swaps, slack>>
local == <<cur, mark, win>>
vars == <<pc, local, frag, coal, out, shared, history>>

Clamp(n, lo, hi) == IF n < lo THEN lo ELSE IF n > hi THEN hi ELSE n
-----------------------------------------------------------------------------
(* What a handler derives from a frame. *)

(* dispatchBareTx and PrepareBEEF build the frame themselves: the id is    *)
(* computed from the payload and the frame is unstamped.                   *)
FrameOf(f) ==
    CASE f.kind = "bare"   -> [f EXCEPT !.kind = "v2", !.id = f.body,
                                        !.seq = 0, !.hash = Nil, !.sub = Nil]
      [] f.kind = "record" -> [f EXCEPT !.kind = "beef", !.id = f.body,
                                        !.seq = 0, !.hash = Nil]
      [] OTHER -> f

(* Mutant of SetDeliver: a pre-framed record keeps its own DeliverCount. *)
SetDeliverTrusting(f) == f

(* checkBEEF overwrites DeliverCount (byte 7) for a frame that entered     *)
(* here; the policy's answer is clamped to the record's topics.            *)
SetDeliver(f) ==
    IF f.kind = "beef" /\ f.src # Nil
    THEN [f EXCEPT !.byte7 = Clamp(DeliverPolicy[f.src], 1, f.topics)]
    ELSE f

Control == {"block", "coinbase", "anchor", "subtree"}

(* The group and subtree ingredients of the flow.  The control classes     *)
(* have virtual groups of their own, BEEF the zero ingredient.             *)
FlowGroup(f) ==
    IF f.kind \in Control \cup {"control"} THEN f.kind ELSE GroupOf[f.id]

FlowSub(f) == CASE f.kind = "v2" -> f.sub
                [] f.kind = "subtree" -> f.id
                [] OTHER -> Nil

Flow(f) == <<f.src, FlowGroup(f), FlowSub(f)>>

(* The multicast group the datagram is addressed to. *)
Dst(f) == CASE f.kind \in {"block", "coinbase", "anchor"} -> "block"
            [] f.kind \in {"subtree", "control"} -> f.kind
            [] OTHER -> GroupOf[f.id]

Flows == {Flow(FrameOf(f)) : f \in {g \in Inputs : g.kind # "control"}}

Claimable(f) == f.kind \notin {"v1", "bundle", "control"}

Stampable(f) == f.src # Nil /\ Claimable(f)

(* ProcessAnchor never fragments. *)
Fragmentable(f) ==
    /\ f.src # Nil
    /\ f.kind \in {"v2", "block", "coinbase", "subtree", "beef"}
    /\ FragDataSize > 0
    /\ f.len > FragDataSize

FragTotal(f) == (f.len + FragDataSize - 1) \div FragDataSize

CoalesceFits(l, f) ==
    /\ f.src # Nil
    /\ f.kind = "v2"
    /\ l \in CoalLanes
    /\ BundleHeader + MemberOverhead + f.len <= CoalesceBudget
-----------------------------------------------------------------------------
(* The gates. *)

(* DispatchClass: what the socket's class lets through. *)
ClassAdmits(l, f) ==
    CASE f.kind \in {"block", "coinbase", "subtree"} -> ClassOf[l] = "privileged"
      [] f.kind \in {"beef", "record"} -> TRUE
      [] OTHER -> ClassOf[l] # "beef"

(* beefObjectBoundFor: a policy may lift a source above the open bound. *)
ObjectBound(src) ==
    IF MaxObjectBytes[src] > BEEFMaxObject THEN MaxObjectBytes[src] ELSE BEEFMaxObject

(* The checks of the handlers, all of them ahead of the claim. *)

BareGates(f) == f.form = "exact" /\ (RequireEF => f.ef)

(* process: a legacy frame has no Extended Format; a V2 frame must be      *)
(* unstamped on a submission lane, and exactly the transaction it names.   *)
TxGates(f) ==
    IF f.kind = "v1" THEN ~RequireEF
    ELSE /\ AllowStampedIngress \/ f.seq = 0
         /\ RequireEF => f.ef
         /\ VerifyPayloadHash => f.form = "exact" /\ f.id = f.body

(* ProcessBlock: an announcement carries work, a coinbase no header. *)
BlockGates(f) == f.kind = "block" /\ RequireBlockPoW => f.pow

SubtreeGates(f) == VerifySubtreeRoot => f.id = f.body

(* PrepareBEEF *)
RecordGates(f) ==
    f.form = "exact" /\ (ObjectBound(f.src) > 0 => f.len <= ObjectBound(f.src))

(* checkBEEF: a pre-framed object's ContentID is checked where it enters. *)
BEEFGates(f) ==
    /\ f.form = "exact"
    /\ BEEFMaxObject > 0 => f.len <= ObjectBound(f.src)
    /\ f.kind = "beef" /\ f.src # Nil => f.id = f.body

(* Every handler first decodes the frame. *)
PassesGates(f) ==
    /\ f.form # "bad"
    /\ f.kind = "bare" => BareGates(f)
    /\ f.kind \in {"v1", "v2"} => TxGates(f)
    /\ f.kind \in {"block", "coinbase"} => BlockGates(f)
    /\ f.kind = "subtree" => SubtreeGates(f)
    /\ f.kind = "record" => RecordGates(f)
    /\ f.kind \in {"record", "beef"} => BEEFGates(f)
-----------------------------------------------------------------------------
Init ==
    /\ pc = [l \in Lanes |-> "idle"]
    /\ cur = [l \in Lanes |-> Nil]
    /\ frag = [l \in Lanes |-> 0]
    /\ coal = [l \in Lanes |-> <<>>]
    /\ out = [l \in Lanes |-> <<>>]
    /\ claims = {}
    /\ next = [w \in Flows |-> 0]
    /\ bridging = FALSE
    /\ arrivals = 0 /\ faults = 0 /\ swaps = 0
    /\ slack = [k \in DOMAIN GroupOf |-> 0]
    /\ mark = [l \in Lanes |-> 0]
    /\ win = [l \in Lanes |-> FALSE]

(* The lane goes on at label; at "idle" its handler has returned. *)
Goto(l, label) ==
    /\ pc' = [pc EXCEPT ![l] = label]
    /\ IF label = "idle"
       THEN /\ cur' = [cur EXCEPT ![l] = Nil]
            /\ mark' = [mark EXCEPT ![l] = 0]
            /\ win' = [win EXCEPT ![l] = FALSE]
       ELSE UNCHANGED local

Held(k) == \E c \in claims : c.key = k

(* The lane takes datagram f off its socket. *)
Arrive(l, f) ==
    /\ pc[l] = "idle"
    /\ arrivals < MaxArrivals
    /\ arrivals' = arrivals + 1
    /\ UNCHANGED <<frag, coal, out, next, bridging, swaps>>

(* The frame is past its gates and its claim: it will be published. *)
Take(l, f) ==
    /\ cur' = [cur EXCEPT ![l] = f]
    /\ mark' = [mark EXCEPT ![l] = Len(out[l])]
    /\ win' = [win EXCEPT ![l] = bridging]
    /\ pc' = [pc EXCEPT ![l] = "route"]

(* A gate drops the frame before anything is claimed. *)
Refuse(l, f) ==
    /\ Arrive(l, f)
    /\ ~(ClassAdmits(l, f) /\ PassesGates(f))
    /\ UNCHANGED <<pc, cur, claims, faults, slack, mark, win>>

(* The BEEF rate budget drops the frame, before the claim. *)
RateLimit(l, f) ==
    /\ Arrive(l, f)
    /\ ClassAdmits(l, f) /\ PassesGates(f)
    /\ FrameOf(f).kind = "beef" /\ f.src # Nil
    /\ UNCHANGED <<pc, cur, claims, faults, slack, mark, win>>

(* A frame that is not deduplicated (V1, relayed bundle, BRC-127 control), *)
(* or any frame with no store configured, goes on unconditionally.         *)
PassUnclaimed(l, f) ==
    /\ Arrive(l, f)
    /\ ClassAdmits(l, f) /\ PassesGates(f)
    /\ ~Claimable(FrameOf(f)) \/ ~Dedup
    /\ Take(l, SetDeliver(FrameOf(f)))
    /\ UNCHANGED <<claims, faults, slack>>

(* Mutant of ClaimWon: the claim is taken ahead of the gates. *)
ClaimWonUngated(l, f) ==
    /\ Arrive(l, f)
    /\ Claimable(FrameOf(f)) /\ Dedup /\ ~Held(FrameOf(f).id)
    /\ claims' = claims \cup {[key |-> FrameOf(f).id, by |-> FrameOf(f)]}
    /\ Take(l, SetDeliver(FrameOf(f)))
    /\ UNCHANGED <<faults, slack>>

(* claimIngress: the claim is won and recorded for everyone. *)
ClaimWon(l, f) ==
    /\ Arrive(l, f)
    /\ ClassAdmits(l, f) /\ PassesGates(f)
    /\ Claimable(FrameOf(f)) /\ Dedup /\ ~Held(FrameOf(f).id)
    /\ claims' = claims \cup {[key |-> FrameOf(f).id, by |-> FrameOf(f)]}
    /\ Take(l, SetDeliver(FrameOf(f)))
    /\ UNCHANGED <<faults, slack>>

(* Mutant of ClaimLost: a lost claim does not suppress the frame. *)
ClaimLostIgnored(l, f) ==
    /\ Arrive(l, f)
    /\ ClassAdmits(l, f) /\ PassesGates(f)
    /\ Claimable(FrameOf(f)) /\ Dedup /\ Held(FrameOf(f).id)
    /\ Take(l, SetDeliver(FrameOf(f)))
    /\ UNCHANGED <<claims, faults, slack>>

(* claimIngress: somebody holds the id, the frame is suppressed. *)
ClaimLost(l, f) ==
    /\ Arrive(l, f)
    /\ ClassAdmits(l, f) /\ PassesGates(f)
    /\ Claimable(FrameOf(f)) /\ Dedup /\ Held(FrameOf(f).id)
    /\ UNCHANGED <<pc, cur, claims, faults, slack, mark, win>>

(* The store is unreachable: Claim returns (true, err) and the frame goes  *)
(* on unclaimed.                                                           *)
ClaimFailOpen(l, f) ==
    /\ Arrive(l, f)
    /\ ClassAdmits(l, f) /\ PassesGates(f)
    /\ Claimable(FrameOf(f)) /\ Dedup
    /\ faults < MaxFaults
    /\ faults' = faults + 1
    /\ slack' = [slack EXCEPT ![FrameOf(f).id] = @ + 1]
    /\ Take(l, SetDeliver(FrameOf(f)))
    /\ UNCHANGED <<claims>>

(* The store is shared: a sibling proxy or a listener claims an id ...     *)
SiblingClaim(k) ==
    /\ Dedup /\ ~Held(k)
    /\ faults < MaxFaults
    /\ faults' = faults + 1
    /\ claims' = claims \cup {[key |-> k, by |-> Nil]}
    /\ UNCHANGED <<pc, cur, frag, coal, out, next, bridging,
                   arrivals, swaps, slack, mark, win>>

(* ... and the TTL or a bounded store evicts one. *)
Evict(c) ==
    /\ faults < MaxFaults
    /\ faults' = faults + 1
    /\ claims' = claims \ {c}
    /\ slack' = [slack EXCEPT ![c.key] = @ + 1]
    /\ UNCHANGED <<pc, cur, frag, coal, out, next, bridging,
                   arrivals, swaps, mark, win>>
-----------------------------------------------------------------------------
(* Publishing. *)

Enqueue(l, d) == out' = [out EXCEPT ![l] = Append(@, d)]

Whole(f) == [kind |-> f.kind, id |-> f.id, body |-> f.body, part |-> 1, of |-> 1,
             flow |-> Flow(f), seq |-> f.seq, hash |-> f.hash, own |-> FALSE,
             to |-> Dst(f), copy |-> FALSE, byte7 |-> f.byte7, members |-> <<>>]

Member(f) == [id |-> f.id, body |-> f.body, len |-> f.len, flow |-> Flow(f)]

(* coalBuffer.add: the member joins its flow's bucket, or opens one. *)
CoalAdd(c, f) ==
    LET hit == {i \in DOMAIN c : c[i].flow = Flow(f)}
    IN  IF hit = {}
        THEN Append(c, [flow |-> Flow(f), to |-> Dst(f), members |-> <<Member(f)>>])
        ELSE [c EXCEPT ![CHOOSE i \in hit : TRUE].members = Append(@, Member(f))]

(* Mutant of Route: coalescing is not suspended while bridging. *)
RouteCoalesceBridging(l) ==
    LET f == cur[l]
    IN  /\ pc[l] = "route"
        /\ CASE Fragmentable(f) ->
                 /\ Goto(l, IF FragTotal(f) > MaxFragTotal THEN "idle" ELSE "frag")
                 /\ frag' = [frag EXCEPT ![l] = IF FragTotal(f) > MaxFragTotal THEN 0 ELSE 1]
                 /\ UNCHANGED coal
             [] ~Fragmentable(f) /\ CoalesceFits(l, f) ->
                 /\ coal' = [coal EXCEPT ![l] = CoalAdd(@, f)]
                 /\ Goto(l, "idle")
                 /\ UNCHANGED frag
             [] OTHER -> Goto(l, "stamp") /\ UNCHANGED <<frag, coal>>
        /\ UNCHANGED <<out, shared, history>>

(* The handler picks its path: fragments (none at all past the 16-bit      *)
(* FragTotal), the coalescing buffer unless bridging is on, or one whole   *)
(* datagram.                                                               *)
Route(l) ==
    LET f == cur[l]
    IN  /\ pc[l] = "route"
        /\ CASE Fragmentable(f) ->
                 /\ Goto(l, IF FragTotal(f) > MaxFragTotal THEN "idle" ELSE "frag")
                 /\ frag' = [frag EXCEPT ![l] = IF FragTotal(f) > MaxFragTotal THEN 0 ELSE 1]
                 /\ UNCHANGED coal
             [] ~Fragmentable(f) /\ CoalesceFits(l, f) /\ ~bridging ->
                 /\ coal' = [coal EXCEPT ![l] = CoalAdd(@, f)]
                 /\ Goto(l, "idle")
                 /\ UNCHANGED frag
             [] OTHER -> Goto(l, "stamp") /\ UNCHANGED <<frag, coal>>
        /\ UNCHANGED <<out, shared, history>>

(* Mutant of Stamped: the counter's old value is stamped. *)
StampedStale(f) ==
    CASE ~Stampable(f) -> Whole(f)
      [] Stampable(f) /\ f.seq = 0 ->
           [Whole(f) EXCEPT !.seq = next[Flow(f)], !.hash = Flow(f), !.own = TRUE]
      [] Stampable(f) /\ f.seq # 0 ->
           [Whole(f) EXCEPT !.hash = IF @ = Nil \/ StampSource THEN Flow(f) ELSE @]

(* stampInPlace: an unstamped frame takes the flow's next SeqNum, and its  *)
(* HashKey is overwritten with it; a stamped one keeps its SeqNum.         *)
Stamped(f) ==
    CASE ~Stampable(f) -> Whole(f)
      [] Stampable(f) /\ f.seq = 0 ->
           [Whole(f) EXCEPT !.seq = next[Flow(f)] + 1, !.hash = Flow(f), !.own = TRUE]
      [] Stampable(f) /\ f.seq # 0 ->
           [Whole(f) EXCEPT !.hash = IF @ = Nil \/ StampSource THEN Flow(f) ELSE @]

(* Mutant of Stamp: the SeqNum is read but the counter is not advanced. *)
StampNoAdvance(l) ==
    /\ pc[l] = "stamp"
    /\ Enqueue(l, Stamped(cur[l]))
    /\ Goto(l, IF cur[l].kind \in {"v1", "v2"} THEN "bridge" ELSE "idle")
    /\ UNCHANGED <<frag, coal, shared, history>>

(* The whole-frame path: stamp and enqueue. *)
Stamp(l) ==
    /\ pc[l] = "stamp"
    /\ Enqueue(l, Stamped(cur[l]))
    /\ next' = IF Stamped(cur[l]).own THEN [next EXCEPT ![Flow(cur[l])] = @ + 1] ELSE next
    /\ Goto(l, IF cur[l].kind \in {"v1", "v2"} THEN "bridge" ELSE "idle")
    /\ UNCHANGED <<frag, coal, claims, bridging, history>>

(* process loads the bridging pointer a second time and emits the same     *)
(* bytes to the successor's group, unless it is the same group.            *)
Bridge(l) ==
    /\ pc[l] = "bridge"
    /\ LET f == cur[l]
       IN  IF bridging /\ SuccessorOf[f.id] # Dst(f)
           THEN Enqueue(l, [out[l][Len(out[l])] EXCEPT !.to = SuccessorOf[f.id],
                                                       !.copy = TRUE])
           ELSE UNCHANGED out
    /\ Goto(l, "idle")
    /\ UNCHANGED <<frag, coal, shared, history>>

(* A V2 fragment has nothing in byte 7; the others carry the frame's, the  *)
(* message type or the DeliverCount, through fragmentation.                *)
FragByte7(f) == IF f.kind = "v2" THEN 0 ELSE f.byte7

(* Fragment i of f, stamped with a SeqNum of its own. *)
FragmentOf(f, i) ==
    [Whole(f) EXCEPT !.part = i, !.of = FragTotal(f), !.byte7 = FragByte7(f),
                     !.seq = next[Flow(f)] + 1, !.hash = Flow(f), !.own = TRUE]

(* Mutant of Fragment: the loop stops one fragment short. *)
FragmentShort(l) ==
    LET f == cur[l]
    IN  /\ pc[l] = "frag"
        /\ Enqueue(l, FragmentOf(f, frag[l]))
        /\ next' = [next EXCEPT ![Flow(f)] = @ + 1]
        /\ frag' = [frag EXCEPT ![l] = IF @ + 1 = FragTotal(f) THEN 0 ELSE @ + 1]
        /\ Goto(l, IF frag[l] + 1 = FragTotal(f) THEN "idle" ELSE "frag")
        /\ UNCHANGED <<coal, claims, bridging, history>>

(* One turn of the loop of fragment, fragmentBlock, fragmentSubtreeData or *)
(* fragmentBEEF.                                                           *)
Fragment(l) ==
    LET f == cur[l]
    IN  /\ pc[l] = "frag"
        /\ Enqueue(l, FragmentOf(f, frag[l]))
        /\ next' = [next EXCEPT ![Flow(f)] = @ + 1]
        /\ frag' = [frag EXCEPT ![l] = IF @ = FragTotal(f) THEN 0 ELSE @ + 1]
        /\ Goto(l, IF frag[l] = FragTotal(f) THEN "idle" ELSE "frag")
        /\ UNCHANGED <<coal, claims, bridging, history>>
-----------------------------------------------------------------------------
(* The end of a batch. *)

(* The lane ends its batch, or is packing at its end.  The Egress.Flush    *)
(* behind it hands over the lane's own queue, in order: see Egress.        *)
EndsBatch(l) == pc[l] \in {"idle", "pack"} /\ coal[l] # <<>>

(* size[n]: the bytes of a bundle of the first n members. *)
BundleSize(ms) ==
    LET size[n \in 0..Len(ms)] ==
          IF n = 0 THEN BundleHeader ELSE size[n - 1] + MemberOverhead + ms[n].len
    IN  size

(* Mutant of PackLen: the budget is compared before the member is added. *)
PackLenLate(ms) ==
    CHOOSE n \in 1..Len(ms) :
      /\ n <= CoalesceMaxMembers
      /\ n = 1 \/ BundleSize(ms)[n - 1] <= CoalesceBudget
      /\ n = Len(ms) \/ n = CoalesceMaxMembers \/ BundleSize(ms)[n] > CoalesceBudget

(* How many leading members the packing loop puts in one bundle: at least  *)
(* one, then as many as the member cap and the byte budget allow.          *)
PackLen(ms) ==
    CHOOSE n \in 1..Len(ms) :
      /\ n <= CoalesceMaxMembers
      /\ n = 1 \/ BundleSize(ms)[n] <= CoalesceBudget
      /\ n = Len(ms) \/ n = CoalesceMaxMembers \/ BundleSize(ms)[n + 1] > CoalesceBudget

Bundle(b, n) ==
    [kind |-> "packed", id |-> Nil, body |-> Nil, part |-> 1, of |-> 1,
     flow |-> b.flow, seq |-> next[b.flow] + 1, hash |-> b.flow, own |-> TRUE,
     to |-> b.to, copy |-> FALSE, byte7 |-> 0, members |-> SubSeq(b.members, 1, n)]

(* Mutant of FlushCoalesced: the members past the cut are lost. *)
FlushCoalescedOnce(l) ==
    LET b == Head(coal[l])
    IN  /\ EndsBatch(l)
        /\ Enqueue(l, Bundle(b, PackLen(b.members)))
        /\ next' = [next EXCEPT ![b.flow] = @ + 1]
        /\ coal' = [coal EXCEPT ![l] = Tail(@)]
        /\ Goto(l, IF coal'[l] = <<>> THEN "idle" ELSE "pack")
        /\ UNCHANGED <<frag, claims, bridging, history>>

(* Mutant of FlushCoalesced: bundles leave ahead of the queued frames. *)
FlushCoalescedAhead(l) ==
    LET b == Head(coal[l])
        n == PackLen(b.members)
    IN  /\ EndsBatch(l)
        /\ out' = [out EXCEPT ![l] = <<Bundle(b, n)>> \o @]
        /\ next' = [next EXCEPT ![b.flow] = @ + 1]
        /\ coal' = [coal EXCEPT ![l] =
             IF n = Len(b.members) THEN Tail(@)
             ELSE [@ EXCEPT ![1].members = SubSeq(@, n + 1, Len(@))]]
        /\ Goto(l, IF coal'[l] = <<>> THEN "idle" ELSE "pack")
        /\ UNCHANGED <<frag, claims, bridging, history>>

(* One bundle of FlushCoalesced: packed, stamped from the flow's counter   *)
(* and enqueued.                                                           *)
FlushCoalesced(l) ==
    LET b == Head(coal[l])
        n == PackLen(b.members)
    IN  /\ EndsBatch(l)
        /\ Enqueue(l, Bundle(b, n))
        /\ next' = [next EXCEPT ![b.flow] = @ + 1]
        /\ coal' = [coal EXCEPT ![l] =
             IF n = Len(b.members) THEN Tail(@)
             ELSE [@ EXCEPT ![1].members = SubSeq(@, n + 1, Len(@))]]
        /\ Goto(l, IF coal'[l] = <<>> THEN "idle" ELSE "pack")
        /\ UNCHANGED <<frag, claims, bridging, history>>

(* The manifest applier publishes or clears the bridging engine. *)
SetBridging ==
    /\ swaps < MaxSwaps
    /\ swaps' = swaps + 1
    /\ bridging' = ~bridging
    /\ win' = [l \in Lanes |-> win[l] /\ bridging']
    /\ UNCHANGED <<pc, cur, frag, coal, out, claims, next,
                   arrivals, faults, slack, mark>>

(* Every datagram was handled and every bundle packed. *)
Done ==
    /\ arrivals = MaxArrivals
    /\ \A l \in Lanes : pc[l] = "idle" /\ coal[l] = <<>>
    /\ UNCHANGED vars

Next ==
    \/ \E l \in Lanes, f \in Inputs :
          \/ Refuse(l, f)
          \/ RateLimit(l, f)
          \/ PassUnclaimed(l, f)
          \/ ClaimWon(l, f)
          \/ ClaimLost(l, f)
          \/ ClaimFailOpen(l, f)
    \/ \E l \in Lanes : \/ Route(l) \/ Stamp(l) \/ Bridge(l) \/ Fragment(l)
                         \/ FlushCoalesced(l)
    \/ \E k \in DOMAIN GroupOf : SiblingClaim(k)
    \/ \E c \in claims : Evict(c)
    \/ SetBridging
    \/ Done

Spec == Init /\ [][Next]_vars
-----------------------------------------------------------------------------
(* Properties. *)

Sent == UNION {{l} \X DOMAIN out[l] : l \in Lanes}
D(p) == out[p[1]][p[2]]

(* The datagrams that carry a SeqNum drawn here, dual-emitted copies aside. *)
Own(w) == {p \in Sent : D(p).own /\ ~D(p).copy /\ D(p).flow = w}

Ids == DOMAIN GroupOf

(* Every variable keeps its type; an own SeqNum is never 0. *)
TypeOK ==
    /\ pc \in [Lanes -> {"idle", "route", "stamp", "bridge", "frag", "pack"}]
    /\ frag \in [Lanes -> Nat] /\ mark \in [Lanes -> Nat]
    /\ next \in [Flows -> Nat]
    /\ slack \in [Ids -> Nat]
    /\ bridging \in BOOLEAN /\ win \in [Lanes -> BOOLEAN]
    /\ \A c \in claims : c.key \in Ids
    /\ \A l \in Lanes : pc[l] \in {"route", "stamp", "bridge", "frag"} => cur[l] # Nil
    /\ \A p \in Sent : D(p).own => D(p).seq > 0

(* A flow's fragments, bundles and whole frames, from all lanes, carry     *)
(* exactly the SeqNums 1..counter, once each: a number missing at a        *)
(* listener is a lost datagram, and no two datagrams share a NACK key      *)
(* ("interleave contiguously", FlushCoalesced).                            *)
Contiguous ==
    \A w \in Flows :
       /\ Cardinality(Own(w)) = next[w]
       /\ {D(p).seq : p \in Own(w)} = 1..next[w]

(* One lane emits a flow's SeqNums in increasing order, bundles packed at  *)
(* the batch's end included.                                               *)
LaneOrder ==
    \A w \in Flows : \A p, q \in Own(w) :
       p[1] = q[1] /\ p[2] < q[2] => D(p).seq < D(q).seq

(* How often an id was published by the deduplicated paths. *)
Published(k) ==
    Cardinality({p \in Sent : D(p).id = k /\ D(p).part = 1 /\ ~D(p).copy
                               /\ D(p).kind \notin {"v1", "bundle", "control"}})
  + Cardinality(UNION {{<<p, i>> : i \in {j \in DOMAIN D(p).members : D(p).members[j].id = k}}
                        : p \in Sent})

(* All lanes together publish an id at most once, plus once for each time  *)
(* the store failed open or lost the claim (claimIngress).                 *)
AtMostOnce == Dedup => \A k \in Ids : Published(k) <= 1 + slack[k]

Buffered(l) == UNION {{b.members[i] : i \in DOMAIN b.members} :
                        b \in {coal[l][j] : j \in DOMAIN coal[l]}}

(* The payload v with id k is on a queue, in a bundle, or being handled. *)
Backed(k, v) ==
    LET Is(x) == x.id = k /\ x.body = v
    IN  \/ \E p \in Sent : Is(D(p)) \/ \E i \in DOMAIN D(p).members : Is(D(p).members[i])
        \/ \E l \in Lanes : pc[l] \in {"route", "stamp", "frag"} /\ Is(cur[l])
        \/ \E l \in Lanes : \E m \in Buffered(l) : Is(m)

(* A claim taken here is backed by the claimant's own payload, published   *)
(* or about to be: a later copy is only ever suppressed in favour of one   *)
(* that goes out.  The exception is a frame past the 16-bit FragTotal,     *)
(* which is dropped after its claim.                                       *)
ClaimBacked ==
    \A c \in claims :
       c.by # Nil =>
         \/ Backed(c.key, c.by.body)
         \/ Fragmentable(c.by) /\ FragTotal(c.by) > MaxFragTotal

(* The verification gates sit ahead of the claim: where a class is         *)
(* verified, a frame whose payload is not exactly what its id says never   *)
(* holds the id, so it cannot suppress the honest frame (process,          *)
(* checkBEEF, ProcessSubtreeData).                                         *)
Verified(f) == \/ f.kind = "v2" /\ VerifyPayloadHash
               \/ f.kind = "subtree" /\ VerifySubtreeRoot
               \/ f.kind = "beef" /\ f.src # Nil
HonestHolder ==
    \A c \in claims :
       c.by # Nil /\ Verified(c.by) => c.by.body = c.key /\ c.by.form = "exact"

(* A bundle holds members of its own flow only, within the member cap and  *)
(* the byte budget.                                                        *)
BundlesSound ==
    \A p \in Sent : D(p).kind = "packed" =>
       LET ms == D(p).members
       IN  /\ Len(ms) \in 1..CoalesceMaxMembers
           /\ BundleSize(ms)[Len(ms)] <= CoalesceBudget
           /\ \A i \in DOMAIN ms : ms[i].flow = D(p).flow

(* A frame's fragments leave one lane back to back, in order and all of    *)
(* them, whatever other lanes do meanwhile.                                *)
FragmentsComplete ==
    \A l \in Lanes : \A i \in DOMAIN out[l] :
       LET d == out[l][i]
       IN  /\ d.part > 1 =>
                i > 1 /\ out[l][i - 1].id = d.id /\ out[l][i - 1].part = d.part - 1
           /\ d.part < d.of =>
                \/ i = Len(out[l]) /\ pc[l] = "frag"
                \/ i < Len(out[l]) /\ out[l][i + 1].part = d.part + 1

(* The DeliverCount on the wire is the ingress's, never the publisher's,   *)
(* and fragmentation does not lose it: every datagram of an object that    *)
(* entered here names at least one topic and no more than the policy       *)
(* grants its source (checkBEEF, fragmentBEEF).                            *)
DeliverGranted ==
    \A p \in Sent :
       D(p).kind = "beef" /\ D(p).flow[1] # Nil =>
         D(p).byte7 = 1 \/ D(p).byte7 \in 1..DeliverPolicy[D(p).flow[1]]

Finishes(l) == pc[l] \in {"route", "stamp", "bridge", "frag"} /\ pc'[l] = "idle"

(* The datagrams lane l has enqueued for its frame once this step is done. *)
Emitted(l) == {out'[l][i] : i \in (mark[l] + 1)..Len(out'[l])}

BothGroups(l) == {GroupOf[cur[l].id], SuccessorOf[cur[l].id]}

(* Lane l's step is the last for a transaction that is neither fragmented  *)
(* nor, outside a bridging window, left to be bundled.                     *)
LeavesWhole(l) ==
    /\ Finishes(l) /\ cur[l].kind \in {"v1", "v2"} /\ ~Fragmentable(cur[l])
    /\ win[l] \/ coal'[l] = coal[l]

(* A transaction small enough to leave as one datagram, unless it waits to *)
(* be bundled, goes once to its own group and at most once to the          *)
(* successor's, even if the bridging engine is swapped between the two     *)
(* loads of process; handled wholly inside a bridging window it never      *)
(* waits and goes once to each.                                            *)
WholeDualEmitted ==
    [][\A l \in Lanes :
         LeavesWhole(l) =>
           LET groups == {d.to : d \in Emitted(l)}
           IN  /\ GroupOf[cur[l].id] \in groups /\ groups \subseteq BothGroups(l)
               /\ Len(out'[l]) - mark[l] = Cardinality(groups)
               /\ win[l] => groups = BothGroups(l)]_vars

(* "the per-frame emit path computes both the active and the bridging      *)
(* shard indices and emits to BOTH destinations" (BridgingEngine).         *)
DualEmitted ==
    [][\A l \in Lanes :
         Finishes(l) /\ win[l] /\ cur[l].kind \in {"v1", "v2"}
           => BothGroups(l) \subseteq {d.to : d \in Emitted(l)}]_vars
=============================================================================
