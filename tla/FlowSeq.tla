------------------------------ MODULE FlowSeq ------------------------------
(***************************************************************************)
(* The forwarder's per-flow SeqNum counters: reserveSeq, called by every   *)
(* ingress goroutine that stamps a datagram.  The flow's *flowState is     *)
(* looked up, or created, in the striped map under the stripe's mutex; the *)
(* mutex is released and the counter is then advanced with an atomic add.  *)
(* Each shared access is a step of its own, so callers interleave between  *)
(* the lookup, the insert, the unlock and the add.                         *)
(***************************************************************************)
EXTENDS Naturals

CONSTANTS Callers,    \* ingress goroutines
          Keys,       \* chainKey values
          Stripes,    \* the stripes of the map
          StripeOf,   \* stripeIndex: the stripe of a key (by its sender IP)
          States,     \* *flowState pointers the allocator can return
          Nil,        \* the nil pointer, and "no owner" of a mutex
          MaxRun,     \* the longest run one call reserves
          MaxGrants   \* bound: calls start only below this many reservations

ASSUME StripeOfAssumption == StripeOf \in [Keys -> Stripes]
ASSUME NilAssumption == Nil \notin Callers /\ Nil \notin States
ASSUME MaxRunAssumption == MaxRun \in Nat \ {0}

VARIABLES mu,       \* mu[s]: the caller holding stripe s's mutex, or Nil
          table,    \* table[k]: the map entry of k, or Nil when absent
          alloc,    \* the flowStates allocated so far
          counter,  \* counter[st]: the atomic counter of a flowState
          pc,       \* where each caller stands in reserveSeq
          key,      \* its arguments key ...
          run,      \* ... and n
          st,       \* its local st
          grants,   \* history: how many reservations were made ...
          issued    \* ... and which

vars == <<mu, table, alloc, counter, pc, key, run, st, grants, issued>>

Init ==
    /\ mu = [s \in Stripes |-> Nil]
    /\ table = [k \in Keys |-> Nil]
    /\ alloc = {}
    /\ counter = [o \in States |-> 0]
    /\ pc = [c \in Callers |-> "idle"]
    /\ key \in [Callers -> Keys]
    /\ run = [c \in Callers |-> 1]
    /\ st = [c \in Callers |-> Nil]
    /\ grants = 0
    /\ issued = {}

Goto(c, label) == pc' = [pc EXCEPT ![c] = label]

(* A goroutine calls reserveSeq for a run of n on flow k (nextSeq: n = 1). *)
Call(c, k, n) ==
    /\ pc[c] = "idle"
    /\ grants < MaxGrants
    /\ key' = [key EXCEPT ![c] = k]
    /\ run' = [run EXCEPT ![c] = n]
    /\ Goto(c, "lock")
    /\ UNCHANGED <<mu, table, alloc, counter, st, grants, issued>>

(* Mutant of Lock: the stripe's mutex is not waited for. *)
LockUnguarded(c) ==
    /\ pc[c] = "lock"
    /\ mu' = [mu EXCEPT ![StripeOf[key[c]]] = c]
    /\ Goto(c, "lookup")
    /\ UNCHANGED <<table, alloc, counter, key, run, st, grants, issued>>

(* stripe.mu.Lock() *)
Lock(c) ==
    /\ pc[c] = "lock"
    /\ mu[StripeOf[key[c]]] = Nil
    /\ mu' = [mu EXCEPT ![StripeOf[key[c]]] = c]
    /\ Goto(c, "lookup")
    /\ UNCHANGED <<table, alloc, counter, key, run, st, grants, issued>>

(* st, ok := stripe.m[key] *)
Lookup(c) ==
    /\ pc[c] = "lookup"
    /\ st' = [st EXCEPT ![c] = table[key[c]]]
    /\ Goto(c, IF table[key[c]] = Nil THEN "insert" ELSE "unlock")
    /\ UNCHANGED <<mu, table, alloc, counter, key, run, grants, issued>>

(* Mutant of Insert: the new flowState is not stored in the map. *)
InsertNotStored(c, o) ==
    /\ pc[c] = "insert"
    /\ o \in States \ alloc
    /\ alloc' = alloc \cup {o}
    /\ counter' = [counter EXCEPT ![o] = 0]
    /\ st' = [st EXCEPT ![c] = o]
    /\ Goto(c, "unlock")
    /\ UNCHANGED <<mu, table, key, run, grants, issued>>

(* st = &flowState{}; stripe.m[key] = st: a fresh object, counter zero. *)
Insert(c, o) ==
    /\ pc[c] = "insert"
    /\ o \in States \ alloc
    /\ alloc' = alloc \cup {o}
    /\ counter' = [counter EXCEPT ![o] = 0]
    /\ st' = [st EXCEPT ![c] = o]
    /\ table' = [table EXCEPT ![key[c]] = o]
    /\ Goto(c, "unlock")
    /\ UNCHANGED <<mu, key, run, grants, issued>>

(* stripe.mu.Unlock() *)
Unlock(c) ==
    /\ pc[c] = "unlock"
    /\ mu' = [mu EXCEPT ![StripeOf[key[c]]] = Nil]
    /\ Goto(c, "add")
    /\ UNCHANGED <<table, alloc, counter, key, run, st, grants, issued>>

(* Mutant of Add: the run starts at the old counter value (no + 1). *)
AddOffByOne(c) ==
    /\ pc[c] = "add"
    /\ counter' = [counter EXCEPT ![st[c]] = @ + run[c]]
    /\ issued' = issued \cup {[id    |-> grants, key |-> key[c],
                               first |-> counter[st[c]], n |-> run[c]]}
    /\ grants' = grants + 1
    /\ Goto(c, "idle")
    /\ UNCHANGED <<mu, table, alloc, key, run, st>>

(* Mutant of Add: the counter advances by one whatever the run's length. *)
AddOne(c) ==
    /\ pc[c] = "add"
    /\ counter' = [counter EXCEPT ![st[c]] = @ + 1]
    /\ issued' = issued \cup {[id    |-> grants, key |-> key[c],
                               first |-> counter[st[c]] + 1, n |-> run[c]]}
    /\ grants' = grants + 1
    /\ Goto(c, "idle")
    /\ UNCHANGED <<mu, table, alloc, key, run, st>>

(* first = st.counter.Add(n) - n + 1, and return: one atomic step. *)
Add(c) ==
    /\ pc[c] = "add"
    /\ counter' = [counter EXCEPT ![st[c]] = @ + run[c]]
    /\ issued' = issued \cup {[id    |-> grants, key |-> key[c],
                               first |-> counter[st[c]] + 1, n |-> run[c]]}
    /\ grants' = grants + 1
    /\ Goto(c, "idle")
    /\ UNCHANGED <<mu, table, alloc, key, run, st>>

(* The bound on reservations is reached and nobody is inside reserveSeq. *)
Quiesce ==
    /\ grants >= MaxGrants
    /\ \A c \in Callers : pc[c] = "idle"
    /\ UNCHANGED vars

Next ==
    \/ \E c \in Callers :
          \/ \E k \in Keys, n \in 1..MaxRun : Call(c, k, n)
          \/ Lock(c)
          \/ Lookup(c)
          \/ \E o \in States : Insert(c, o)
          \/ Unlock(c)
          \/ Add(c)
    \/ Quiesce

Spec == Init /\ [][Next]_vars
-----------------------------------------------------------------------------
Labels == {"idle", "lock", "lookup", "insert", "unlock", "add"}

Reservations == [id: Nat, key: Keys, first: Nat \ {0}, n: 1..MaxRun]

SeqsOf(r) == r.first .. (r.first + r.n - 1)

(* The value of a flow's counter, 0 while the flow has no map entry. *)
LastOf(k) == IF table[k] = Nil THEN 0 ELSE counter[table[k]]

(* Every variable keeps its type; in particular no reservation starts at   *)
(* SeqNum 0, which on the wire means "not stamped".                        *)
TypeOK ==
    /\ mu \in [Stripes -> Callers \cup {Nil}]
    /\ table \in [Keys -> States \cup {Nil}]
    /\ alloc \subseteq States
    /\ counter \in [States -> Nat]
    /\ pc \in [Callers -> Labels]
    /\ key \in [Callers -> Keys]
    /\ run \in [Callers -> 1..MaxRun]
    /\ st \in [Callers -> States \cup {Nil}]
    /\ grants \in Nat
    /\ issued \subseteq Reservations

(* Reservations by concurrent callers never overlap: no SeqNum of a flow   *)
(* is handed out twice, whatever the interleaving of map insert and add    *)
(* (the comment on reserveSeq).                                            *)
NoOverlap ==
    \A r1, r2 \in issued :
       r1.key = r2.key /\ r1.id # r2.id => SeqsOf(r1) \cap SeqsOf(r2) = {}

(* A flow's numbers have no holes: what was handed out is exactly          *)
(* 1..counter, so a gap a receiver sees is a lost datagram and never a     *)
(* number the counter skipped.                                             *)
Dense ==
    \A k \in Keys :
       UNION {SeqsOf(r) : r \in {i \in issued : i.key = k}} = 1..LastOf(k)

(* The striped map and lock-free counter implement the one-step allocator: *)
(* callers cannot tell them apart.                                         *)
Allocator == INSTANCE SeqAllocator WITH last <- [k \in Keys |-> LastOf(k)]
ImplementsAllocator == Allocator!Spec
=============================================================================
