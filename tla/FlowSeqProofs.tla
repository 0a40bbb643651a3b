--------------------------- MODULE FlowSeqProofs ---------------------------
(***************************************************************************)
(* For any number of goroutines, flows and stripes: reserveSeq keeps its   *)
(* types, never hands a SeqNum out twice, leaves no hole in a flow, and    *)
(* implements the one-step allocator.                                      *)
(***************************************************************************)
EXTENDS FlowSeq, TLAPS

(* Callers between Lock and Unlock. *)
Critical(c) == pc[c] \in {"lookup", "insert", "unlock"}

(* Exactly the caller inside the critical section of a stripe holds its    *)
(* mutex.                                                                  *)
MutexInv == \A c \in Callers : Critical(c) => mu[StripeOf[key[c]]] = c

(* A caller that found no entry is still right when it inserts, and one    *)
(* that has resolved its flowState keeps a pointer to the map's entry: no  *)
(* step ever replaces an entry.                                            *)
ResolvedInv ==
    \A c \in Callers :
       /\ pc[c] = "insert" => table[key[c]] = Nil
       /\ pc[c] \in {"unlock", "add"} => st[c] # Nil /\ st[c] = table[key[c]]

(* Map entries are allocated flowStates, one flow each. *)
TableInv ==
    /\ \A k \in Keys : table[k] # Nil => table[k] \in alloc
    /\ \A j, k \in Keys : table[j] # Nil /\ table[j] = table[k] => j = k

(* Reservations are numbered in order and lie within the flow's counter. *)
IssuedInv ==
    \A r \in issued : /\ r.id < grants
                      /\ r.first + r.n - 1 <= LastOf(r.key)

(* Dense, number by number. *)
CoverInv ==
    \A k \in Keys : \A s \in 1..LastOf(k) :
       \E r \in issued : r.key = k /\ s \in SeqsOf(r)

IInv ==
    /\ TypeOK
    /\ MutexInv
    /\ ResolvedInv
    /\ TableInv
    /\ IssuedInv
    /\ NoOverlap
    /\ CoverInv
-----------------------------------------------------------------------------
(* The counters start empty: the inductive invariant holds initially. *)
LEMMA InitIInv == Init => IInv
<1> SUFFICES ASSUME Init PROVE IInv
  OBVIOUS
<1> USE StripeOfAssumption, NilAssumption, MaxRunAssumption
<1>1. TypeOK
  BY DEF Init, TypeOK, Labels
<1>2. MutexInv /\ ResolvedInv /\ TableInv
  BY DEF Init, MutexInv, Critical, ResolvedInv, TableInv
<1>3. IssuedInv /\ NoOverlap
  BY DEF Init, IssuedInv, NoOverlap
<1>4. CoverInv
  BY DEF Init, CoverInv, LastOf
<1> QED
  BY <1>1, <1>2, <1>3, <1>4 DEF IInv

(* Steps that leave the map entries, the counters and the reservations     *)
(* alone leave what was handed out alone.                                  *)
LEMMA IssuedUnchanged ==
  ASSUME IInv, UNCHANGED <<table, alloc, counter, grants, issued>>
  PROVE  TableInv' /\ IssuedInv' /\ NoOverlap' /\ CoverInv'
BY DEF IInv, TableInv, IssuedInv, NoOverlap, CoverInv, LastOf, SeqsOf

(* reserveSeq is entered: only the caller's arguments change. *)
LEMMA CallIInv ==
  ASSUME IInv, NEW c \in Callers, NEW k \in Keys, NEW n \in 1..MaxRun, Call(c, k, n)
  PROVE  IInv'
<1> USE StripeOfAssumption, NilAssumption
<1>1. TypeOK'
  BY DEF IInv, TypeOK, Call, Goto, Labels
<1>2. MutexInv' /\ ResolvedInv'
  BY DEF IInv, TypeOK, MutexInv, ResolvedInv, Critical, Call, Goto
<1>3. TableInv' /\ IssuedInv' /\ NoOverlap' /\ CoverInv'
  BY IssuedUnchanged DEF Call
<1> QED
  BY <1>1, <1>2, <1>3 DEF IInv

(* The stripe's mutex is taken. *)
LEMMA LockIInv ==
  ASSUME IInv, NEW c \in Callers, Lock(c)
  PROVE  IInv'
<1> USE StripeOfAssumption, NilAssumption
<1>1. TypeOK'
  BY DEF IInv, TypeOK, Lock, Goto, Labels
<1>2. MutexInv' /\ ResolvedInv'
  BY DEF IInv, TypeOK, MutexInv, ResolvedInv, Critical, Lock, Goto
<1>3. TableInv' /\ IssuedInv' /\ NoOverlap' /\ CoverInv'
  BY IssuedUnchanged DEF Lock
<1> QED
  BY <1>1, <1>2, <1>3 DEF IInv

(* The map is read under the mutex. *)
LEMMA LookupIInv ==
  ASSUME IInv, NEW c \in Callers, Lookup(c)
  PROVE  IInv'
<1> USE StripeOfAssumption, NilAssumption
<1>1. TypeOK'
  BY DEF IInv, TypeOK, Lookup, Goto, Labels
<1>2. MutexInv' /\ ResolvedInv'
  BY DEF IInv, TypeOK, MutexInv, ResolvedInv, Critical, Lookup, Goto
<1>3. TableInv' /\ IssuedInv' /\ NoOverlap' /\ CoverInv'
  BY IssuedUnchanged DEF Lookup
<1> QED
  BY <1>1, <1>2, <1>3 DEF IInv

(* The mutex is released. *)
LEMMA UnlockIInv ==
  ASSUME IInv, NEW c \in Callers, Unlock(c)
  PROVE  IInv'
<1> USE StripeOfAssumption, NilAssumption
<1>1. TypeOK'
  BY DEF IInv, TypeOK, Unlock, Goto, Labels
<1>2. MutexInv' /\ ResolvedInv'
  BY DEF IInv, TypeOK, MutexInv, ResolvedInv, Critical, Unlock, Goto
<1>3. TableInv' /\ IssuedInv' /\ NoOverlap' /\ CoverInv'
  BY IssuedUnchanged DEF Unlock
<1> QED
  BY <1>1, <1>2, <1>3 DEF IInv

(* A new flowState enters the map under the mutex.  The flow had no entry, *)
(* so nothing was issued on it; the object is fresh, so no other flow's    *)
(* counter is the one reset.                                               *)
LEMMA InsertIInv ==
  ASSUME IInv, NEW c \in Callers, NEW o \in States, Insert(c, o)
  PROVE  IInv'
<1> USE StripeOfAssumption, NilAssumption
<1>1. TypeOK'
  BY DEF IInv, TypeOK, Insert, Goto, Labels
<1>2. MutexInv'
  BY DEF IInv, TypeOK, MutexInv, Critical, Insert, Goto
<1>3. table[key[c]] = Nil /\ o # Nil
  BY DEF IInv, ResolvedInv, Insert
<1>4. ResolvedInv'
  <2> SUFFICES ASSUME NEW d \in Callers
               PROVE  /\ pc'[d] = "insert" => table'[key'[d]] = Nil
                      /\ pc'[d] \in {"unlock", "add"}
                           => st'[d] # Nil /\ st'[d] = table'[key'[d]]
    BY DEF ResolvedInv
  <2>1. CASE d = c
    BY <2>1, <1>3 DEF IInv, TypeOK, Insert, Goto
  <2>2. CASE d # c /\ pc[d] = "insert"
    <3>1. key[d] # key[c]
      BY <2>2 DEF IInv, TypeOK, MutexInv, Critical, Insert
    <3> QED
      BY <2>2, <3>1 DEF IInv, TypeOK, ResolvedInv, Insert, Goto
  <2>3. CASE d # c /\ pc[d] # "insert"
    <3>1. pc[d] \in {"unlock", "add"} => key[d] # key[c]
      BY <1>3, <2>3 DEF IInv, TypeOK, ResolvedInv, Insert
    <3> QED
      BY <2>3, <3>1 DEF IInv, TypeOK, ResolvedInv, Insert, Goto
  <2> QED
    BY <2>1, <2>2, <2>3
<1>5. TableInv'
  BY <1>3 DEF IInv, TypeOK, TableInv, Insert
<1>6. \A k \in Keys : LastOf(k)' = LastOf(k)
  BY <1>3 DEF IInv, TypeOK, TableInv, Insert, LastOf
<1>7. issued' = issued /\ grants' = grants
  BY DEF Insert
<1>8. IssuedInv'
  BY <1>6, <1>7 DEF IInv, TypeOK, Reservations, IssuedInv
<1>9. NoOverlap' /\ CoverInv'
  BY <1>6, <1>7 DEF IInv, NoOverlap, CoverInv, SeqsOf
<1> QED
  BY <1>1, <1>2, <1>4, <1>5, <1>8, <1>9 DEF IInv

(* The counter is advanced.  The caller's flowState is the map's entry of  *)
(* its flow and of no other, so the run starts one past everything issued  *)
(* on that flow and every other flow is left alone.                        *)
LEMMA AddIInv ==
  ASSUME IInv, NEW c \in Callers, Add(c)
  PROVE  IInv'
<1> USE StripeOfAssumption, NilAssumption
<1>0. PICK k, n, new :
        /\ k = key[c] /\ n = run[c]
        /\ new = [id |-> grants, key |-> k, first |-> counter[st[c]] + 1, n |-> n]
  OBVIOUS
<1>1. /\ k \in Keys /\ n \in Nat /\ n >= 1
      /\ st[c] \in States /\ st[c] = table[k] /\ table[k] # Nil
      /\ counter[st[c]] \in Nat /\ grants \in Nat
  BY <1>0, MaxRunAssumption DEF IInv, TypeOK, ResolvedInv, Add
<1>2. /\ issued' = issued \cup {new} /\ grants' = grants + 1
      /\ new.key = k /\ new.id = grants /\ new.n = n
      /\ new.first = LastOf(k) + 1
  BY <1>0, <1>1 DEF Add, LastOf
<1>3. TypeOK'
  <2>1. new \in Reservations
    BY <1>0, <1>1 DEF Reservations, IInv, TypeOK
  <2> QED
    BY <1>0, <1>1, <1>2, <2>1 DEF IInv, TypeOK, Add, Goto, Labels
<1>4. MutexInv' /\ ResolvedInv' /\ TableInv'
  BY DEF IInv, TypeOK, MutexInv, Critical, ResolvedInv, TableInv, Add, Goto
<1>5. /\ LastOf(k) \in Nat /\ LastOf(k)' = LastOf(k) + n
      /\ \A j \in Keys : j # k => LastOf(j)' = LastOf(j)
  BY <1>0, <1>1 DEF IInv, TypeOK, TableInv, LastOf, Add
<1>6. \A j \in Keys : LastOf(j) \in Nat /\ LastOf(j)' >= LastOf(j)
  BY <1>1, <1>5 DEF IInv, TypeOK, LastOf
<1>7. IssuedInv'
  <2> SUFFICES ASSUME NEW r \in issued'
               PROVE  r.id < grants' /\ r.first + r.n - 1 <= LastOf(r.key)'
    BY DEF IssuedInv
  <2>1. CASE r = new
    BY <2>1, <1>1, <1>2, <1>5
  <2>2. CASE r \in issued
    <3>1. r.key \in Keys /\ r.id \in Nat /\ r.first \in Nat /\ r.n \in Nat
      BY <2>2 DEF IInv, TypeOK, Reservations
    <3>2. r.id < grants /\ r.first + r.n - 1 <= LastOf(r.key)
      BY <2>2 DEF IInv, IssuedInv
    <3>3. LastOf(r.key)' \in Nat
      BY <3>1, <1>1, <1>5, <1>6
    <3> QED
      BY <3>1, <3>2, <3>3, <1>1, <1>2, <1>6
  <2> QED
    BY <2>1, <2>2, <1>2
<1>8. NoOverlap'
  <2>1. ASSUME NEW r \in issued, r.key = k
        PROVE  SeqsOf(r) \cap SeqsOf(new) = {}
    <3>1. r.first \in Nat /\ r.n \in Nat /\ r.first + r.n - 1 <= LastOf(k)
      BY <2>1 DEF IInv, TypeOK, Reservations, IssuedInv
    <3> QED
      BY <3>1, <1>1, <1>2, <1>5 DEF SeqsOf
  <2>2. \A r1, r2 \in issued :
           r1.key = r2.key /\ r1.id # r2.id => SeqsOf(r1) \cap SeqsOf(r2) = {}
    BY DEF IInv, NoOverlap
  <2> QED
    BY <1>2, <2>1, <2>2 DEF NoOverlap, SeqsOf
<1>9. CoverInv'
  <2> SUFFICES ASSUME NEW j \in Keys, NEW s \in 1..LastOf(j)'
               PROVE  \E r \in issued' : r.key = j /\ s \in SeqsOf(r)
    BY DEF CoverInv, SeqsOf
  <2>1. CASE s \in 1..LastOf(j)
    BY <2>1, <1>2 DEF IInv, CoverInv
  <2>2. CASE s \notin 1..LastOf(j)
    <3>1. j = k /\ s \in (LastOf(k) + 1)..(LastOf(k) + n)
      BY <2>2, <1>1, <1>5, <1>6
    <3>2. s \in SeqsOf(new)
      BY <3>1, <1>1, <1>2, <1>5 DEF SeqsOf
    <3> QED
      BY <3>1, <3>2, <1>2
  <2> QED
    BY <2>1, <2>2
<1> QED
  BY <1>3, <1>4, <1>7, <1>8, <1>9 DEF IInv

(* No step of any goroutine breaks the inductive invariant. *)
LEMMA NextIInv == IInv /\ [Next]_vars => IInv'
<1> SUFFICES ASSUME IInv, [Next]_vars PROVE IInv'
  OBVIOUS
<1>1. CASE UNCHANGED vars
  BY <1>1 DEF vars, IInv, TypeOK, MutexInv, Critical, ResolvedInv, TableInv,
              IssuedInv, NoOverlap, CoverInv, LastOf, SeqsOf
<1>2. ASSUME NEW c \in Callers, NEW k \in Keys, NEW n \in 1..MaxRun, Call(c, k, n)
      PROVE  IInv'
  BY <1>2, CallIInv
<1>3. ASSUME NEW c \in Callers, Lock(c) \/ Lookup(c) \/ Unlock(c) \/ Add(c)
      PROVE  IInv'
  BY <1>3, LockIInv, LookupIInv, UnlockIInv, AddIInv
<1>4. ASSUME NEW c \in Callers, NEW o \in States, Insert(c, o)
      PROVE  IInv'
  BY <1>4, InsertIInv
<1> QED
  BY <1>1, <1>2, <1>3, <1>4 DEF Next, Quiesce

(* IInv is an invariant of reserveSeq. *)
THEOREM Invariance == Spec => []IInv
BY InitIInv, NextIInv, PTL DEF Spec

(* reserveSeq keeps its types: no reservation starts at 0, the SeqNum that *)
(* means "not stamped".                                                    *)
THEOREM TypeCorrect == Spec => []TypeOK
<1>1. IInv => TypeOK
  BY DEF IInv
<1> QED
  BY <1>1, Invariance, PTL

(* No SeqNum of a flow is handed out twice. *)
THEOREM NeverTwice == Spec => []NoOverlap
<1>1. IInv => NoOverlap
  BY DEF IInv
<1> QED
  BY <1>1, Invariance, PTL

(* The numbers handed out on a flow are exactly 1..counter: no holes. *)
THEOREM NoHoles == Spec => []Dense
<1>1. IInv => Dense
  <2> SUFFICES ASSUME IInv, NEW k \in Keys
               PROVE  UNION {SeqsOf(r) : r \in {i \in issued : i.key = k}} = 1..LastOf(k)
    BY DEF Dense
  <2>1. ASSUME NEW r \in issued, r.key = k, NEW s \in SeqsOf(r)
        PROVE  s \in 1..LastOf(k)
    <3>1. r.first \in Nat \ {0} /\ r.n \in Nat /\ r.first + r.n - 1 <= LastOf(k)
      BY <2>1 DEF IInv, TypeOK, Reservations, IssuedInv
    <3>2. LastOf(k) \in Nat
      BY DEF IInv, TypeOK, LastOf
    <3> QED
      BY <2>1, <3>1, <3>2 DEF SeqsOf
  <2>2. ASSUME NEW s \in 1..LastOf(k)
        PROVE  \E r \in issued : r.key = k /\ s \in SeqsOf(r)
    BY <2>2 DEF IInv, CoverInv
  <2> HIDE DEF SeqsOf
  <2> QED
    BY <2>1, <2>2
<1> QED
  BY <1>1, Invariance, PTL

(* The counters start as the allocator's do. *)
LEMMA AllocatorInit == Init => Allocator!Init
BY DEF Init, Allocator!Init, LastOf

(* The atomic add is the allocator's one step; every other step of         *)
(* reserveSeq is invisible to it.                                          *)
LEMMA AllocatorStep ==
  ASSUME IInv, [Next]_vars
  PROVE  [Allocator!Next]_(Allocator!vars)
<1> USE StripeOfAssumption, NilAssumption
<1>1. ASSUME UNCHANGED <<table, counter, grants, issued>>
      PROVE  UNCHANGED Allocator!vars
  BY <1>1 DEF Allocator!vars, LastOf
<1>2. ASSUME NEW c \in Callers, NEW o \in States, Insert(c, o)
      PROVE  UNCHANGED Allocator!vars
  <2>1. table[key[c]] = Nil /\ o # Nil
    BY <1>2 DEF IInv, ResolvedInv, Insert
  <2>2. \A k \in Keys : LastOf(k)' = LastOf(k)
    BY <1>2, <2>1 DEF IInv, TypeOK, TableInv, Insert, LastOf
  <2> QED
    BY <1>2, <2>2 DEF Allocator!vars, Insert
<1>3. ASSUME NEW c \in Callers, Add(c)
      PROVE  Allocator!Next
  <2>0. PICK k \in Keys, n \in 1..MaxRun : k = key[c] /\ n = run[c]
    BY DEF IInv, TypeOK
  <2>1. st[c] \in States /\ st[c] = table[k] /\ table[k] # Nil
    BY <1>3, <2>0 DEF IInv, TypeOK, ResolvedInv, Add
  <2>2. LastOf(k)' = LastOf(k) + n
    BY <1>3, <2>0, <2>1 DEF IInv, TypeOK, LastOf, Add
  <2>3. \A j \in Keys : j # k => LastOf(j)' = LastOf(j)
    BY <1>3, <2>0, <2>1 DEF IInv, TypeOK, TableInv, LastOf, Add
  <2>4. [j \in Keys |-> LastOf(j)]'
          = [[j \in Keys |-> LastOf(j)] EXCEPT ![k] = @ + n]
    BY <2>2, <2>3
  <2>5. /\ grants' = grants + 1
        /\ issued' = issued \cup
             {[id |-> grants, key |-> k, first |-> LastOf(k) + 1, n |-> n]}
    BY <1>3, <2>0, <2>1 DEF Add, LastOf
  <2>6. Allocator!Reserve(k, n)
    BY <2>4, <2>5 DEF Allocator!Reserve
  <2> QED
    BY <2>6 DEF Allocator!Next
<1>4. CASE UNCHANGED vars
  BY <1>1, <1>4 DEF vars
<1>5. ASSUME NEW c \in Callers,
             \/ \E k \in Keys, n \in 1..MaxRun : Call(c, k, n)
             \/ Lock(c) \/ Lookup(c) \/ Unlock(c)
      PROVE  UNCHANGED Allocator!vars
  BY <1>1, <1>5 DEF Call, Lock, Lookup, Unlock
<1> QED
  BY <1>2, <1>3, <1>4, <1>5 DEF Next, Quiesce

(* Striped map, per-stripe mutex and lock-free counter together implement  *)
(* the one-step allocator, for any callers, flows and stripes.             *)
THEOREM Implements == Spec => ImplementsAllocator
<1>1. IInv /\ [Next]_vars => [Allocator!Next]_(Allocator!vars)
  BY AllocatorStep
<1> QED
  BY <1>1, AllocatorInit, Invariance, PTL
     DEF Spec, ImplementsAllocator, Allocator!Spec
=============================================================================
