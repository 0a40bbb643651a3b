---------------------------- MODULE SubtreeRoot ----------------------------
(***************************************************************************)
(* The check of a BRC-132 subtree payload (-verify-subtree-root): the      *)
(* merkle root of the nodes, computed level by level in two alternating    *)
(* buffers, a wide level split over goroutines.                            *)
(*                                                                         *)
(* Hashes are terms: node i is <<i>>, the all-zero hash is <<>>, and the   *)
(* double SHA-256 of a pair is the pair, so two computations give the same *)
(* hash only when they hash the same things.                               *)
(***************************************************************************)
EXTENDS Naturals, Sequences, FiniteSetsExt

CONSTANTS MaxNodes,     \* bound: node records in a payload
          Procs,        \* the values of GOMAXPROCS to explore
          ParallelMin,  \* subtreeRootParallelMin
          MaxWorkers    \* subtreeRootMaxWorkers

ASSUME SubtreeRootAssumption ==
    /\ MaxNodes \in Nat /\ ParallelMin \in Nat \ {0} /\ MaxWorkers \in Nat \ {0}
    /\ Procs \subseteq Nat \ {0}

VARIABLES procs,    \* runtime.GOMAXPROCS(0)
          payload,  \* the frame under test: header, NodeCount, nodes, SubtreeID
          pc,       \* of verifySubtreePayload
          n,        \* hashes in the level being hashed
          buf,      \* the nodes and the two buffers
          from, to, \* src and dst
          workers,  \* hashRange goroutines that still run
          verdict

vars == <<procs, payload, pc, n, buf, from, to, workers, verdict>>

Zero == <<>>
DoubleSHA(l, r) == <<l, r>>
Half(k) == (k + 1) \div 2
Least(a, b) == IF a < b THEN a ELSE b

(* make: a buffer of k zero hashes. *)
Fresh(k) == [i \in 1..k |-> Zero]

(* The hash at index i of a buffer, counted from 0 as the code does. *)
At(b, i) == buf[b][i + 1]

(* The documented root: pad the nodes with absent ones to a power of two   *)
(* and combine the halves; absent on the left makes the pair absent,       *)
(* absent on the right repeats the left.                                   *)
Combine(l, r) ==
    IF l = Zero THEN Zero ELSE DoubleSHA(l, IF r = Zero THEN l ELSE r)

RECURSIVE Merkle(_)
Merkle(s) ==
    IF Len(s) = 1 THEN s[1]
    ELSE LET h == Len(s) \div 2
         IN  Combine(Merkle(SubSeq(s, 1, h)), Merkle(SubSeq(s, h + 1, Len(s))))

Padded(k) == Min({2 ^ e : e \in 0..k} \cap {m \in 1..(2 ^ k) : m >= k})
Reference(s) == Merkle(s \o Fresh(Padded(Len(s)) - Len(s)))

Nodes == UNION {{[i \in 1..k |-> IF i \in z THEN Zero ELSE <<i>>] : z \in SUBSET (1..k)}
                : k \in 0..MaxNodes}

(* A root claim that is right, if the payload has one, and one that is not. *)
Claims(nodes, count) ==
    {<<0>>} \cup IF count \in 1..Len(nodes)
                 THEN {Reference(SubSeq(nodes, 1, count))} ELSE {}

Init ==
    /\ procs \in Procs
    /\ \E nodes \in Nodes, count \in 0..(MaxNodes + 1), short \in BOOLEAN :
          /\ short => nodes = <<>>
          /\ \E root \in Claims(nodes, count) :
                payload = [nodes |-> nodes, count |-> count, root |-> root, short |-> short]
    /\ pc = "verify" /\ n = 0 /\ workers = {} /\ verdict = "none"
    /\ buf = [nodes |-> payload.nodes, a |-> <<>>, b |-> <<>>]
    /\ from = "nodes" /\ to = "a"

Judge(root) ==
    /\ verdict' = IF root = payload.root THEN "ok" ELSE "mismatch"
    /\ pc' = "done"
-----------------------------------------------------------------------------
(* How a level of k hashes is divided. *)

Workers(k) == IF Half(k) >= ParallelMin THEN Least(procs, MaxWorkers) ELSE 1

Chunk(k) == (Half(k) + Workers(k) - 1) \div Workers(k)

(* The loop lo := 0; lo < parents; lo += chunk: one goroutine per chunk,   *)
(* or the one range done in line.                                          *)
Ranges(s, d, k) ==
    {[src |-> s, dst |-> d, n |-> k, p |-> lo, hi |-> Least(lo + Chunk(k), Half(k))] :
       lo \in {i * Chunk(k) : i \in 0..Half(k)} \cap 0..(Half(k) - 1)}

(* The buffer the second level is written to. *)
SecondBuffer(k) == Fresh(Half(Half(k)))

(* verifySubtreePayload rejects what carries no nodes or fewer than it     *)
(* claims; a single node is its own root; otherwise the first level goes   *)
(* from the payload into a fresh buffer.                                   *)
Verify ==
    /\ pc = "verify"
    /\ \/ /\ payload.short \/ payload.count = 0 \/ payload.count > Len(payload.nodes)
          /\ verdict' = "malformed" /\ pc' = "done"
          /\ UNCHANGED <<n, buf, workers>>
       \/ /\ ~payload.short /\ payload.count = 1 /\ payload.nodes # <<>>
          /\ Judge(payload.nodes[1])
          /\ UNCHANGED <<n, buf, workers>>
       \/ /\ ~payload.short /\ payload.count \in 2..Len(payload.nodes)
          /\ n' = payload.count
          /\ buf' = [buf EXCEPT !.a = Fresh(Half(n')), !.b = SecondBuffer(n')]
          /\ workers' = Ranges("nodes", "a", n')
          /\ pc' = "wait"
          /\ UNCHANGED verdict
    /\ UNCHANGED <<procs, payload, from, to>>

(* Mutant of ParentHash: a right side at the level's end is read anyway. *)
ParentHashPastEnd(w) ==
    LET l == At(w.src, 2 * w.p)
        r == IF 2 * w.p + 2 <= Len(buf[w.src]) THEN At(w.src, 2 * w.p + 1) ELSE Zero
    IN  IF l = Zero THEN Zero ELSE DoubleSHA(l, IF r # Zero THEN r ELSE l)

(* hashRange's body: what parent p of the level hashes to. *)
ParentHash(w) ==
    LET l == At(w.src, 2 * w.p)
    IN  IF l = Zero THEN Zero
        ELSE DoubleSHA(l, IF 2 * w.p + 1 < w.n /\ At(w.src, 2 * w.p + 1) # Zero
                          THEN At(w.src, 2 * w.p + 1) ELSE l)

(* One iteration of a goroutine's hashRange; its last one ends it. *)
HashRange(w) ==
    /\ buf' = [buf EXCEPT ![w.dst][w.p + 1] = ParentHash(w)]
    /\ workers' = (workers \ {w})
                  \cup IF w.p + 1 < w.hi THEN {[w EXCEPT !.p = @ + 1]} ELSE {}
    /\ UNCHANGED <<procs, payload, pc, n, from, to, verdict>>

(* Mutant of LevelDone: the level is not waited for. *)
LevelDoneAtOnce ==
    /\ pc = "wait" /\ n > 0
    /\ from' = to
    /\ to' = IF to = "a" THEN "b" ELSE "a"
    /\ n' = Half(n)
    /\ \/ /\ n' = 1
          /\ Judge(buf[to][1])
          /\ UNCHANGED workers
       \/ /\ n' > 1
          /\ workers' = workers \cup Ranges(from', to', n')
          /\ UNCHANGED <<pc, verdict>>
    /\ UNCHANGED <<procs, payload, buf>>

(* wg.Wait returns: the buffers change places; the last hash is the root. *)
LevelDone ==
    /\ pc = "wait" /\ workers = {}
    /\ from' = to
    /\ to' = IF to = "a" THEN "b" ELSE "a"
    /\ n' = Half(n)
    /\ \/ /\ n' = 1
          /\ Judge(buf[to][1])
          /\ UNCHANGED workers
       \/ /\ n' > 1
          /\ workers' = Ranges(from', to', n')
          /\ UNCHANGED <<pc, verdict>>
    /\ UNCHANGED <<procs, payload, buf>>

Done == pc = "done" /\ UNCHANGED vars

Next ==
    \/ Verify
    \/ \E w \in workers : HashRange(w)
    \/ LevelDone
    \/ Done

Spec == Init /\ [][Next]_vars
-----------------------------------------------------------------------------
(* Properties. *)

(* A payload is accepted exactly when it is well formed and its root is    *)
(* the documented one, whatever the number of goroutines, the order they   *)
(* run in, and the width of the levels (verifySubtreePayload).             *)
RootCorrect ==
    pc = "done" =>
       LET wellFormed == ~payload.short /\ payload.count \in 1..Len(payload.nodes)
       IN  /\ verdict = "malformed" <=> ~wellFormed
           /\ wellFormed =>
                (verdict = "ok" <=>
                   payload.root = Reference(SubSeq(payload.nodes, 1, payload.count)))

(* What goroutine w is still going to read and write. *)
Reads(w) == {<<w.src, i>> : i \in (2 * w.p)..Least(2 * w.hi - 1, w.n - 1)}
Writes(w) == {<<w.dst, p>> : p \in w.p..(w.hi - 1)}

(* "a level cannot be computed in place once it is split across            *)
(* goroutines" (subtreeRoot): what one goroutine writes, no other reads or *)
(* writes, so the levels need no lock; and none leaves its buffers, the    *)
(* second, made once for the second level, included.                       *)
RaceFree ==
    /\ \A v, w \in workers :
          v # w => Writes(v) \cap (Reads(w) \cup Writes(w)) = {}
    /\ \A w \in workers : w.hi <= Len(buf[w.dst]) /\ 2 * w.hi - 1 <= Len(buf[w.src])
=============================================================================
