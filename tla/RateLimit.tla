----------------------------- MODULE RateLimit -----------------------------
(***************************************************************************)
(* The BEEF rate budgets (beefLimiter): an object is charged to its        *)
(* source's object and byte buckets, then to the plane's.  Every bucket    *)
(* and the table of sources has a lock of its own, so the charges of two   *)
(* lanes interleave, each with the time it read before its first lock, and *)
(* an entry may be evicted while a lane still charges it.                  *)
(*                                                                         *)
(* Time counts in ticks, Second of them to a second; rates are in tokens   *)
(* per tick, and a bucket is a second deep (every one is made with its     *)
(* burst equal to its rate).                                               *)
(***************************************************************************)
EXTENDS Naturals, Sequences, FiniteSets, Functions

CONSTANTS Lanes,
          Sources,     \* addresses objects come from
          KeyOf,       \* sourceKey: the address masked to SourcePrefixBits
          Nil,         \* no source: relay and spine re-emission
          Sizes,       \* len(raw)
          Configs,     \* the BEEFRateConfigs to explore
          Second,
          MaxCalls,    \* bound: objects offered
          MaxClock     \* bound: the time

ASSUME RateLimitAssumption ==
    /\ Second \in Nat \ {0} /\ Sizes \subseteq Nat \ {0} /\ Nil \notin Sources
    /\ \A c \in Configs : \A b \in {"obj", "byt"} :
          c.source[b] \in Nat /\ c.plane[b] \in Nat /\ c.max \in Nat \ {0}

VARIABLES cfg,      \* the budgets in force
          clock,
          plane,    \* planeObj and planeByt
          entries,  \* every srcBuckets made, in order (since: history)
          table,    \* l.srcs: the entries of the tracked keys
          pc, req,  \* of each lane: where it is in allow, and for what
          calls,    \* history: objects offered
          taken,    \* history: tokens taken from the plane's buckets
          draw      \* history: objects each key charged to the plane

vars == <<cfg, clock, plane, entries, table, pc, req, calls, taken, draw>>

Units == {"obj", "byt"}
Keys == {KeyOf[a] : a \in Sources}
Least(a, b) == IF a < b THEN a ELSE b

Burst(rate) == rate * Second

(* newBucket: full, and not yet refilled (the zero time). *)
NewBucket(rate) == [tokens |-> Burst(rate), last |-> 0]
NewBuckets(rates) == [b \in Units |-> NewBucket(rates[b])]

NoRequest == [key |-> Nil, n |-> 0, now |-> 0, entry |-> 0]

Init ==
    /\ cfg \in Configs
    /\ clock = 1
    /\ plane = NewBuckets(cfg.plane)
    /\ entries = <<>> /\ table = {}
    /\ pc = [l \in Lanes |-> "idle"]
    /\ req = [l \in Lanes |-> NoRequest]
    /\ calls = 0
    /\ taken = [b \in Units |-> 0]
    /\ draw = [k \in Keys |-> 0]
-----------------------------------------------------------------------------
(* The bucket. *)

(* Mutant of Refill: the refill time follows a late caller back. *)
RefillBack(b, rate, now) ==
    LET last == IF b.last = 0 THEN now ELSE b.last
    IN  IF now > last
        THEN [tokens |-> Least(b.tokens + (now - last) * rate, Burst(rate)), last |-> now]
        ELSE [b EXCEPT !.last = now]

(* allowN up to the decision: a caller whose time is not past the last     *)
(* refill adds nothing.                                                    *)
Refill(b, rate, now) ==
    LET last == IF b.last = 0 THEN now ELSE b.last
    IN  IF now > last
        THEN [tokens |-> Least(b.tokens + (now - last) * rate, Burst(rate)), last |-> now]
        ELSE [b EXCEPT !.last = last]

(* Mutant of Cost: what is larger than the bucket is charged in full. *)
CostUncapped(rate, n) == n

(* A request larger than the whole bucket costs the whole bucket. *)
Cost(rate, n) == Least(n, Burst(rate))

Grants(b, rate, now, n) ==
    rate = 0 \/ Refill(b, rate, now).tokens >= Cost(rate, n)

(* The bucket allowN leaves behind. *)
AllowN(b, rate, now, n) ==
    IF rate = 0 THEN b
    ELSE LET r == Refill(b, rate, now)
         IN  IF r.tokens >= Cost(rate, n) THEN [r EXCEPT !.tokens = @ - Cost(rate, n)] ELSE r

Amount(b, r) == IF b = "obj" THEN 1 ELSE r.n
-----------------------------------------------------------------------------
(* allow. *)

(* The call goes on at label; at "idle" it has returned. *)
Goto(l, label) ==
    /\ pc' = [pc EXCEPT ![l] = label]
    /\ req' = IF label = "idle" THEN [req EXCEPT ![l] = NoRequest] ELSE req

Enabled == \E b \in Units : cfg.source[b] > 0 \/ cfg.plane[b] > 0
SourceLimited == \E b \in Units : cfg.source[b] > 0

(* checkBEEF reads the clock and calls allow; relay, and a limiter with no *)
(* budget set, are let through.                                            *)
Call(l, src, n) ==
    /\ pc[l] = "idle" /\ calls < MaxCalls
    /\ calls' = calls + 1
    /\ IF ~Enabled \/ src = Nil
       THEN UNCHANGED <<pc, req>>
       ELSE /\ pc' = [pc EXCEPT ![l] = IF SourceLimited THEN "lookup" ELSE "plane.obj"]
            /\ req' = [req EXCEPT ![l] = [key |-> KeyOf[src], n |-> n, now |-> clock, entry |-> 0]]
    /\ UNCHANGED <<cfg, clock, plane, entries, table, taken, draw>>

(* Mutant of EvictOldest: a full table is not trimmed. *)
EvictOldestNone(victim) == table

(* evictOldestLocked: an entry seen no later than any other goes. *)
EvictOldest(victim) == table \ {victim}

Oldest(e) == e \in table /\ \A f \in table : entries[e].seen <= entries[f].seen

(* allowSource under l.mu: find the entry of the key, or make a full one,  *)
(* in the place of the oldest when the table is full.                      *)
Lookup(l) ==
    LET r == req[l]
        mine == {e \in table : entries[e].key = r.key}
        fresh == Len(entries) + 1
    IN  /\ pc[l] = "lookup"
        /\ \/ /\ mine # {}
              /\ \E e \in mine :
                    /\ entries' = [entries EXCEPT ![e].seen = r.now, ![e].since = Least(@, r.now)]
                    /\ req' = [req EXCEPT ![l].entry = e]
              /\ UNCHANGED table
           \/ /\ mine = {}
              /\ \/ Cardinality(table) < cfg.max /\ table' = table \cup {fresh}
                 \/ /\ Cardinality(table) >= cfg.max
                    /\ \E e \in table : Oldest(e) /\ table' = EvictOldest(e) \cup {fresh}
              /\ entries' = Append(entries, [key |-> r.key, seen |-> r.now, since |-> r.now,
                                             budget |-> NewBuckets(cfg.source)])
              /\ req' = [req EXCEPT ![l].entry = fresh]
        /\ pc' = [pc EXCEPT ![l] = "source.obj"]
        /\ UNCHANGED <<cfg, clock, plane, calls, taken, draw>>

(* Mutant of SourceVerdict: a source over its budget goes on. *)
SourceVerdictIgnored(b, granted) == IF b = "obj" THEN "source.byt" ELSE "plane.obj"

(* sb.obj.allowN && sb.byt.allowN: a refusal ends the call, and the plane  *)
(* is charged only behind both.                                            *)
SourceVerdict(b, granted) ==
    IF ~granted THEN "idle" ELSE IF b = "obj" THEN "source.byt" ELSE "plane.obj"

(* One of the two charges to the entry, which may be out of the table by   *)
(* now.                                                                    *)
ChargeSource(l, b) ==
    LET r == req[l]
        old == entries[r.entry].budget[b]
    IN  /\ pc[l] = "source." \o b
        /\ entries' = [entries EXCEPT ![r.entry].budget[b] =
                         AllowN(old, cfg.source[b], r.now, Amount(b, r))]
        /\ Goto(l, SourceVerdict(b, Grants(old, cfg.source[b], r.now, Amount(b, r))))
        /\ UNCHANGED <<cfg, clock, plane, table, calls, taken, draw>>

(* planeObj.allowN, then planeByt.allowN: the object token stays spent     *)
(* when the bytes are refused.                                             *)
ChargePlane(l, b) ==
    LET r == req[l]
        rate == cfg.plane[b]
        granted == Grants(plane[b], rate, r.now, Amount(b, r))
    IN  /\ pc[l] = "plane." \o b
        /\ plane' = [plane EXCEPT ![b] = AllowN(@, rate, r.now, Amount(b, r))]
        /\ taken' = IF granted /\ rate > 0
                    THEN [taken EXCEPT ![b] = @ + Cost(rate, Amount(b, r))] ELSE taken
        /\ draw' = IF b = "obj" THEN [draw EXCEPT ![r.key] = @ + 1] ELSE draw
        /\ Goto(l, IF granted /\ b = "obj" THEN "plane.byt" ELSE "idle")
        /\ UNCHANGED <<cfg, clock, entries, table, calls>>

Tick ==
    /\ clock < MaxClock
    /\ clock' = clock + 1
    /\ UNCHANGED <<cfg, plane, entries, table, pc, req, calls, taken, draw>>

(* The bounds are used up. *)
Over == calls = MaxCalls /\ clock = MaxClock /\ (\A l \in Lanes : pc[l] = "idle")
        /\ UNCHANGED vars

Step(l) ==
    \/ Lookup(l)
    \/ \E b \in Units : ChargeSource(l, b) \/ ChargePlane(l, b)

Next ==
    \/ \E l \in Lanes : Step(l) \/ \E src \in Sources \cup {Nil}, n \in Sizes : Call(l, src, n)
    \/ Tick
    \/ Over

Spec == Init /\ [][Next]_vars
-----------------------------------------------------------------------------
(* Properties. *)

(* Every variable keeps its type; a bucket holds no more than its depth,   *)
(* and the table no more than MaxTrackedSources entries, one per key.      *)
TypeOK ==
    /\ clock \in 1..MaxClock
    /\ table \subseteq DOMAIN entries
    /\ Cardinality(table) <= cfg.max
    /\ \A e, f \in table : entries[e].key = entries[f].key => e = f
    /\ \A b \in Units :
          /\ plane[b].tokens \in 0..Burst(cfg.plane[b])
          /\ \A e \in DOMAIN entries :
                entries[e].budget[b].tokens \in 0..Burst(cfg.source[b])
    /\ \A l \in Lanes : pc[l] \in {"idle", "lookup"}
                                    \cup {t \o "." \o b : t \in {"source", "plane"}, b \in Units}

(* "This is the tier that survives a flood from many source prefixes"      *)
(* (PlaneObjectsPerSec): over the whole run the plane lets through at most *)
(* its depth and its rate, in objects and in charged bytes, though lanes   *)
(* arrive with times older than the last refill and sources come and go.   *)
PlaneBound ==
    \A b \in Units :
       cfg.plane[b] > 0 => taken[b] <= Burst(cfg.plane[b]) + cfg.plane[b] * (clock - 1)

(* What the budgets made for a key allow by now, evicted ones included,    *)
(* each counted from the earliest call charged to it.                      *)
Allowance(key) ==
    LET mine == {e \in DOMAIN entries : entries[e].key = key}
        sum(e) == Burst(cfg.source.obj) + cfg.source.obj * (clock - entries[e].since)
    IN  FoldFunction(+, 0, [e \in mine |-> sum(e)])

(* "a source already over its own budget cannot drain the shared budget"   *)
(* (allow): a key asks the plane for no more objects than its own budgets  *)
(* let it, even when two lanes charge it at once or one of them charges    *)
(* buckets the table has evicted.                                          *)
SourceShare ==
    cfg.source.obj > 0 => \A k \in Keys : draw[k] <= Allowance(k)

(* "an object at the size ceiling is never permanently rejected by a       *)
(* smaller byte budget" (allowN): whatever was charged and in whatever     *)
(* order, a bucket left alone for a second grants a request of any size.   *)
NeverPermanent ==
    \A b \in Units, n \in Sizes :
       /\ Grants(plane[b], cfg.plane[b], clock + Second, n)
       /\ \A e \in DOMAIN entries :
             LET bucket == entries[e].budget[b]
             IN  bucket.last = 0 \/ Grants(bucket, cfg.source[b], clock + Second, n)
=============================================================================
