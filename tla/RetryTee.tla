------------------------------ MODULE RetryTee ------------------------------
(***************************************************************************)
(* The retry tee (and the local mirror, a second one): copies of egressed  *)
(* datagrams, handed at each flush to a sender goroutine of the tee's own  *)
(* over a bounded queue.  One tee per connection or worker.  An owned tee  *)
(* has a socket to itself and is closed by its lane; a shared one writes   *)
(* to its listener's TeeSocket, which the listener closes once every       *)
(* connection's goroutine is over.                                         *)
(***************************************************************************)
EXTENDS Naturals, Sequences, FiniteSets, SequencesExt

CONSTANTS Conns,       \* lanes, each with one tee
          Bufs,        \* each tee's pooled copy buffers
          Own,         \* the buffer of a datagram larger than teeBufSize
          Owned,       \* the lanes that have newRetryTee, not newSharedTee
          QueueDepth,  \* teeQueueDepth
          MaxAppends   \* bound: datagrams teed by each lane

ASSUME TeeAssumption ==
    /\ QueueDepth \in Nat \ {0} /\ MaxAppends \in Nat
    /\ Owned \subseteq Conns /\ Own \notin Bufs

VARIABLES lane,      \* "open", "closing", "closed" or "exited"
          count,     \* history: datagrams appended, numbered 1..count
          mem, pool, \* what each copy buffer holds, how often bufPool has it
          build,     \* t.msgs and t.bufs: the batch being built
          batches,   \* the channel
          started, closed,
          sender,    \* "none", "wait", "write" or "done"
          cur,       \* the batch being written
          open,      \* the tee's socket is open
          cache,     \* what reached the retry cache
          failed,    \* t.failed
          late       \* history: datagrams written to a closed socket

tees == <<mem, pool, build, batches, started, closed, sender, cur, failed>>
vars == <<lane, count, tees, open, cache, late>>

Init ==
    /\ lane = [c \in Conns |-> "open"]
    /\ count = [c \in Conns |-> 0]
    /\ mem = [c \in Conns |-> [b \in Bufs |-> 0]]
    /\ pool = [c \in Conns |-> [b \in Bufs |-> 1]]
    /\ build = [c \in Conns |-> <<>>]
    /\ batches = [c \in Conns |-> <<>>]
    /\ started = [c \in Conns |-> FALSE] /\ closed = [c \in Conns |-> FALSE]
    /\ sender = [c \in Conns |-> "none"]
    /\ cur = [c \in Conns |-> <<>>]
    /\ open = [c \in Conns |-> TRUE]
    /\ cache = [c \in Conns |-> <<>>]
    /\ failed = [c \in Conns |-> 0]
    /\ late = [c \in Conns |-> 0]

(* missed: what was not sent is counted. *)
Missed(c, n) == failed' = [failed EXCEPT ![c] = @ + n]

(* Mutant of Release: a batch that was never sent keeps its buffers. *)
ReleaseSent(c, ms) ==
    pool' = IF sender[c] = "write"
            THEN [pool EXCEPT ![c] = [b \in Bufs |->
                    @[b] + Cardinality({i \in DOMAIN ms : ms[i].buf = b})]]
            ELSE pool

(* release: the batch's pooled buffers return. *)
Release(c, ms) ==
    pool' = [pool EXCEPT ![c] = [b \in Bufs |->
               @[b] + Cardinality({i \in DOMAIN ms : ms[i].buf = b})]]
-----------------------------------------------------------------------------
(* The Egress's goroutine. *)

(* append copies the datagram into a buffer the tee owns. *)
Append1(c, b) ==
    /\ lane[c] \in {"open", "closed"} /\ count[c] < MaxAppends
    /\ b \in Bufs => pool[c][b] > 0
    /\ count' = [count EXCEPT ![c] = @ + 1]
    /\ IF b \in Bufs
       THEN /\ pool' = [pool EXCEPT ![c][b] = @ - 1]
            /\ mem' = [mem EXCEPT ![c][b] = count'[c]]
       ELSE UNCHANGED <<pool, mem>>
    /\ build' = [build EXCEPT ![c] = Append(@, [id |-> count'[c], buf |-> b])]
    /\ UNCHANGED <<lane, batches, started, closed, sender, cur, open, cache, failed, late>>

(* Mutant of Flush: a full queue drops the batch without counting it. *)
FlushUncounted(c) ==
    /\ lane[c] \in {"open", "closed"} /\ build[c] # <<>>
    /\ build' = [build EXCEPT ![c] = <<>>]
    /\ IF closed[c] \/ Len(batches[c]) = QueueDepth
       THEN Release(c, build[c]) /\ UNCHANGED <<batches, started, sender, failed>>
       ELSE /\ batches' = [batches EXCEPT ![c] = Append(@, build[c])]
            /\ started' = [started EXCEPT ![c] = TRUE]
            /\ sender' = [sender EXCEPT ![c] = IF started[c] THEN @ ELSE "wait"]
            /\ UNCHANGED <<pool, failed>>
    /\ UNCHANGED <<lane, count, mem, closed, cur, open, cache, late>>

(* flush: hand the batch to the sender, starting it the first time; after  *)
(* close, or with the queue full, drop it and count it.  The mutex makes   *)
(* this one step.                                                          *)
Flush(c) ==
    /\ lane[c] \in {"open", "closed"} /\ build[c] # <<>>
    /\ build' = [build EXCEPT ![c] = <<>>]
    /\ IF closed[c] \/ Len(batches[c]) = QueueDepth
       THEN /\ Missed(c, Len(build[c])) /\ Release(c, build[c])
            /\ UNCHANGED <<batches, started, sender>>
       ELSE /\ batches' = [batches EXCEPT ![c] = Append(@, build[c])]
            /\ started' = [started EXCEPT ![c] = TRUE]
            /\ sender' = [sender EXCEPT ![c] = IF started[c] THEN @ ELSE "wait"]
            /\ UNCHANGED <<pool, failed>>
    /\ UNCHANGED <<lane, count, mem, closed, cur, open, cache, late>>

(* Mutant of Close: only the socket is closed, the channel is left open. *)
CloseSocketOnly(c) ==
    /\ c \in Owned /\ lane[c] = "open"
    /\ lane' = [lane EXCEPT ![c] = "closed"]
    /\ open' = [open EXCEPT ![c] = FALSE]
    /\ UNCHANGED <<count, tees, cache, late>>

(* close: mark the tee, close the channel ... *)
Close(c) ==
    /\ c \in Owned /\ lane[c] = "open"
    /\ lane' = [lane EXCEPT ![c] = "closing"]
    /\ closed' = [closed EXCEPT ![c] = TRUE]
    /\ UNCHANGED <<count, mem, pool, build, batches, started, sender, cur, open,
                   cache, failed, late>>

(* Mutant of CloseReturns: the socket is closed without waiting for done. *)
CloseReturnsAtOnce(c) ==
    /\ lane[c] = "closing"
    /\ open' = [open EXCEPT ![c] = FALSE]
    /\ lane' = [lane EXCEPT ![c] = "closed"]
    /\ UNCHANGED <<count, tees, cache, late>>

(* ... wait for the sender, then close the socket. *)
CloseReturns(c) ==
    /\ lane[c] = "closing"
    /\ started[c] => sender[c] = "done"
    /\ open' = [open EXCEPT ![c] = FALSE]
    /\ lane' = [lane EXCEPT ![c] = "closed"]
    /\ UNCHANGED <<count, tees, cache, late>>

(* The lane's goroutine is over: its last flush is behind it. *)
Exit(c) ==
    /\ lane[c] = (IF c \in Owned THEN "closed" ELSE "open")
    /\ build[c] = <<>>
    /\ lane' = [lane EXCEPT ![c] = "exited"]
    /\ UNCHANGED <<count, tees, open, cache, late>>

(* The listener closes the shared TeeSocket after connWG.Wait. *)
CloseShared ==
    /\ \A c \in Conns \ Owned : lane[c] = "exited" /\ open[c]
    /\ Owned # Conns
    /\ open' = [c \in Conns |-> c \in Owned /\ open[c]]
    /\ UNCHANGED <<lane, count, tees, cache, late>>
-----------------------------------------------------------------------------
(* The tee's sender. *)

Take(c) ==
    /\ sender[c] = "wait" /\ batches[c] # <<>>
    /\ cur' = [cur EXCEPT ![c] = Head(batches[c])]
    /\ batches' = [batches EXCEPT ![c] = Tail(@)]
    /\ sender' = [sender EXCEPT ![c] = "write"]
    /\ UNCHANGED <<lane, count, mem, pool, build, started, closed, open, cache, failed, late>>

(* writeBatchAll sends the first n, none on a closed socket; the rest is   *)
(* missed, and the batch is released.                                      *)
Write(c, n) ==
    /\ sender[c] = "write"
    /\ n <= Len(cur[c]) /\ (~open[c] => n = 0)
    /\ cache' = [cache EXCEPT ![c] = @ \o [i \in 1..n |->
         LET m == cur[c][i]
         IN  [id |-> m.id, val |-> IF m.buf \in Bufs THEN mem[c][m.buf] ELSE m.id]]]
    /\ Missed(c, Len(cur[c]) - n)
    /\ late' = [late EXCEPT ![c] = IF open[c] THEN @ ELSE @ + Len(cur[c])]
    /\ Release(c, cur[c])
    /\ cur' = [cur EXCEPT ![c] = <<>>]
    /\ sender' = [sender EXCEPT ![c] = "wait"]
    /\ UNCHANGED <<lane, count, mem, build, batches, started, closed, open>>

(* The channel is closed and drained. *)
Stop(c) ==
    /\ sender[c] = "wait" /\ closed[c] /\ batches[c] = <<>>
    /\ sender' = [sender EXCEPT ![c] = "done"]
    /\ UNCHANGED <<lane, count, mem, pool, build, batches, started, closed, cur,
                   open, cache, failed, late>>

(* Everything is shut down; a shared tee's sender waits on for good. *)
Over ==
    /\ \A c \in Conns : /\ lane[c] = "exited" /\ ~open[c]
                        /\ sender[c] # "write" /\ batches[c] = <<>>
    /\ UNCHANGED vars

Next ==
    \/ \E c \in Conns :
          \/ \E b \in Bufs \cup {Own} : Append1(c, b)
          \/ Flush(c) \/ Close(c) \/ CloseReturns(c) \/ Exit(c)
          \/ Take(c) \/ Stop(c)
          \/ \E n \in 0..MaxAppends : Write(c, n)
    \/ CloseShared
    \/ Over

Spec == Init /\ [][Next]_vars

(* The sender goroutine runs, and a close that has begun goes on. *)
Fairness == \A c \in Conns :
    /\ WF_vars(Take(c) \/ Stop(c) \/ \E n \in 0..MaxAppends : Write(c, n))
    /\ WF_vars(CloseReturns(c))

FairSpec == Spec /\ Fairness
-----------------------------------------------------------------------------
(* Properties. *)

Held(c) == <<build[c], cur[c]>> \o batches[c]
SizeOf(ss) == Len(FlattenSeq(ss))

(* Every datagram appended is held, delivered, or counted as failed: the   *)
(* metric tells exactly what the cache is missing (missed, dropped), also  *)
(* of what a shared tee's sender writes after the listener closed its      *)
(* socket.  What is held is bounded by the queue.                          *)
Conserved ==
    \A c \in Conns :
       /\ count[c] = SizeOf(Held(c)) + Len(cache[c]) + failed[c]
       /\ Len(batches[c]) <= QueueDepth

(* A copy buffer is in the pool or holds one waiting datagram, so what     *)
(* reaches the cache is what was appended, in order.                       *)
CopyIntact ==
    \A c \in Conns :
       /\ \A b \in Bufs :
             pool[c][b] + Len(SelectSeq(FlattenSeq(Held(c)), LAMBDA m : m.buf = b)) = 1
       /\ \A i \in DOMAIN cache[c] : cache[c][i].val = cache[c][i].id
       /\ \A i, j \in DOMAIN cache[c] : i < j => cache[c][i].id < cache[c][j].id

(* close "stops the sender once it has written what was flushed, then      *)
(* closes an owned socket": an owned tee never writes to a closed socket,  *)
(* whatever was queued when its lane closed it.                            *)
FinalFlushLive == \A c \in Owned : late[c] = 0

Stops(c) == lane[c] = "exited" ~> sender[c] \in {"none", "done"}

(* An owned tee's sender does not outlive its lane: close waits for it,    *)
(* and it cannot be left waiting on the channel.                           *)
OwnedSenderStops == \A c \in Owned : Stops(c)

(* "The sender: started by the first flush, fed batches, stopped by        *)
(* close" (retryTee): no tee's sender outlives its lane for good.          *)
SenderStops == \A c \in Conns : Stops(c)
=============================================================================
