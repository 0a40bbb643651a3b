------------------------------- MODULE Egress -------------------------------
(***************************************************************************)
(* One Egress: the queue a lane fills with datagrams and flushes to every  *)
(* target.  A flush writes inline (lossy, reliable, or through FlushVia's  *)
(* function) or hands the batch to a sender goroutine (StartSender).       *)
(*                                                                         *)
(* A queued datagram is a reference: what reaches the wire is what its     *)
(* buffer holds when it is written.  Slots are the lane's receive buffers, *)
(* refilled once Flush has returned; Bufs are the pool's fragment buffers. *)
(* The targets' queues grow and are cleared in lock-step, so the model     *)
(* keeps one queue, drained to one target after another.                   *)
(***************************************************************************)
EXTENDS Naturals, Sequences, FiniteSets

CONSTANTS NTargets,    \* len(e.targets)
          Slots, Bufs,
          Kinds,       \* the datagrams enqueued: data, cacheable, control
          Modes,       \* the [sender, via, reliable] combinations to explore
          Depth,       \* StartSender's depth
          MaxRetries,  \* maxReliableRetries
          MaxMsgs      \* bound: datagrams enqueued

ASSUME EgressAssumption ==
    /\ NTargets \in Nat \ {0} /\ Depth \in Nat \ {0} /\ MaxRetries \in Nat
    /\ MaxMsgs \in Nat /\ Slots \cap Bufs = {}

VARIABLES mode,     \* how this Egress writes
          mem,      \* what each buffer holds
          pool,     \* how often each pooled buffer lies in the pool
          seq,      \* history: datagrams enqueued, numbered 1..seq
          queue,    \* e.msgs and e.meta
          pooled,   \* e.pooledBufs
          tee,      \* copies the retry tee and the mirror hold ...
          teed,     \* ... and handed to their senders
          sendQ, free, cur, \* batches: queued, free (a count), being written
          closed,   \* sendQ is closed
          pc,       \* of the lane and of the sender
          io,       \* their drain: target, offset, attempts
          wire,     \* what each target was sent
          dropped   \* what recordMeta counted as write_error, by target

vars == <<mode, mem, pool, seq, queue, pooled, tee, teed, sendQ, free, cur,
          closed, pc, io, wire, dropped>>

Targets == 1..NTargets
Roles == {"lane", "sender"}
Tees == {"retry", "mirror"}
Range(s) == {s[i] : i \in DOMAIN s}

NoBatch == [msgs |-> <<>>, pooled |-> {}]
AtStart == [t |-> 1, off |-> 0, att |-> 0]

(* Whether the tee takes a copy: the retry cache of every stamped datagram *)
(* (msgMeta.teeable), the mirror of data frames only.                      *)
Teeable(k, kind) == IF k = "retry" THEN kind # "control" ELSE kind = "data"

Init ==
    /\ mode \in Modes
    /\ mem = [b \in Slots \cup Bufs |-> 0]
    /\ pool = [b \in Bufs |-> 1]
    /\ seq = 0
    /\ queue = <<>> /\ pooled = {}
    /\ tee = [k \in Tees |-> <<>>] /\ teed = [k \in Tees |-> <<>>]
    /\ sendQ = <<>> /\ cur = NoBatch /\ closed = FALSE
    /\ free = IF mode.sender THEN Depth + 1 ELSE 0
    /\ pc = [lane |-> "run", sender |-> IF mode.sender THEN "wait" ELSE "exited"]
    /\ io = [r \in Roles |-> AtStart]
    /\ wire = [t \in Targets |-> <<>>] /\ dropped = [t \in Targets |-> {}]

Goto(r, label) == pc' = [pc EXCEPT ![r] = label]

(* The sender takes the flushes until StopSender. *)
Sending == mode.sender /\ ~closed
-----------------------------------------------------------------------------
(* The lane fills its queue. *)

(* enqueue: the datagram joins every target's queue, the tees take their   *)
(* copies.                                                                 *)
Enqueue(b, kind) ==
    /\ pc.lane = "run"
    /\ seq < MaxMsgs
    /\ seq' = seq + 1
    /\ mem' = [mem EXCEPT ![b] = seq']
    /\ queue' = Append(queue, [id |-> seq', buf |-> b, kind |-> kind])
    /\ tee' = [k \in Tees |-> IF Teeable(k, kind) THEN Append(tee[k], seq') ELSE tee[k]]
    /\ UNCHANGED <<mode, teed, sendQ, free, cur, closed, pc, io, wire, dropped>>

(* EnqueueData, EnqueueControl, EnqueueCacheable on a receive buffer the   *)
(* lane read into; it uses each once between two flushes.                  *)
EnqueueRaw(s, kind) ==
    /\ \A m \in Range(queue) : m.buf # s
    /\ Enqueue(s, kind)
    /\ UNCHANGED <<pool, pooled>>

(* PoolGet, encode a fragment, and the pooled form of the same calls. *)
EnqueuePooled(b, kind) ==
    /\ pool[b] > 0
    /\ pool' = [pool EXCEPT ![b] = @ - 1]
    /\ pooled' = pooled \cup {b}
    /\ Enqueue(b, kind)
-----------------------------------------------------------------------------
(* Writing: shared by Flush and FlushVia (the lane) and sender. *)

Msgs(r) == IF r = "lane" THEN queue ELSE cur.msgs

(* sender always drains with flushReliable. *)
Retries(r) == r = "sender" \/ mode.reliable

(* fn is called with one datagram; WriteBatch takes any number. *)
Outcome(n, err) ==
    IF mode.via THEN n = IF err = "none" THEN 1 ELSE 0 ELSE TRUE

Drain(r, x) == io' = [io EXCEPT ![r] = x]

NextTarget(r) ==
    IF io[r].t = NTargets
    THEN Goto(r, "finish") /\ Drain(r, AtStart)
    ELSE Drain(r, [AtStart EXCEPT !.t = io[r].t + 1]) /\ UNCHANGED pc

Sent(r, n) ==
    [i \in 1..n |-> LET m == Msgs(r)[io[r].off + i]
                    IN  [id |-> m.id, buf |-> m.buf, val |-> mem[m.buf]]]

(* Mutant of Resume: a retry starts the batch over. *)
ResumeFromStart(x, n, att) == [x EXCEPT !.off = 0, !.att = att + 1]

(* Mutant of Resume: the datagram that failed is skipped. *)
ResumeSkips(x, n, att) == [x EXCEPT !.off = @ + n + 1, !.att = att + 1]

(* Where a retry goes on: behind what was sent. *)
Resume(x, n, att) == [x EXCEPT !.off = @ + n, !.att = att + 1]

WithinBudget(att) == att < MaxRetries

(* Mutant of Unsent: the datagram behind the last one sent is not counted. *)
UnsentOffByOne(r, off) == {Msgs(r)[i].id : i \in (off + 2)..Len(Msgs(r))}

(* What recordMeta counts as dropped when the drain gives up at off. *)
Unsent(r, off) == {Msgs(r)[i].id : i \in (off + 1)..Len(Msgs(r))}

(* One call of WriteBatch (or fn): n datagrams go out, then perhaps an     *)
(* error.  writeBatchAll goes on while there is progress and no error; a   *)
(* reliable drain backs off and retries a transient error or a stall       *)
(* (FlushVia: any error), its budget reset by progress; anything else      *)
(* surrenders the rest to write_error.                                     *)
WriteBatch(r, n, err) ==
    LET x == io[r]
        all == x.off + n = Len(Msgs(r))
        att == IF n > 0 THEN 0 ELSE x.att
        again == ~all /\ n > 0 /\ err = "none"
        retry == /\ ~all /\ ~again /\ Retries(r)
                 /\ err # "hard" \/ mode.via
                 /\ WithinBudget(att)
        quit == ~all /\ ~again /\ ~retry
    IN  /\ pc[r] = "write"
        /\ Outcome(n, err) /\ x.off + n <= Len(Msgs(r))
        /\ wire' = [wire EXCEPT ![x.t] = @ \o Sent(r, n)]
        /\ \/ all /\ NextTarget(r) /\ UNCHANGED dropped
           \/ /\ again
              /\ Drain(r, [x EXCEPT !.off = @ + n, !.att = 0])
              /\ UNCHANGED <<pc, dropped>>
           \/ /\ retry
              /\ Drain(r, Resume(x, n, att))
              /\ UNCHANGED <<pc, dropped>>
           \/ /\ quit
              /\ NextTarget(r)
              /\ dropped' = [dropped EXCEPT ![x.t] = @ \cup Unsent(r, x.off + n)]
        /\ UNCHANGED <<mode, mem, pool, seq, queue, pooled, tee, teed, sendQ,
                       free, cur, closed>>
-----------------------------------------------------------------------------
(* Flushing. *)

HandTees ==
    /\ teed' = [k \in Tees |-> teed[k] \o tee[k]]
    /\ tee' = [k \in Tees |-> <<>>]

(* pool.Put for each of a batch's buffers. *)
Put(bs) == pool' = [b \in Bufs |-> IF b \in bs THEN pool[b] + 1 ELSE pool[b]]

(* Mutant of Flush: the tees are handed their batches first. *)
FlushTeesFirst ==
    /\ pc.lane = "run" /\ queue # <<>> /\ ~Sending
    /\ HandTees
    /\ Goto("lane", "write")
    /\ UNCHANGED <<mode, mem, pool, seq, queue, pooled, sendQ, free, cur, closed,
                   io, wire, dropped>>

(* Flush or FlushVia begins to write inline. *)
Flush ==
    /\ pc.lane = "run" /\ queue # <<>> /\ ~Sending
    /\ Goto("lane", "write")
    /\ UNCHANGED <<mode, mem, pool, seq, queue, pooled, tee, teed, sendQ, free,
                   cur, closed, io, wire, dropped>>

(* The targets are written: the tees' batches go to their senders, then    *)
(* the pooled buffers return.                                              *)
FlushReturns ==
    /\ pc.lane = "finish"
    /\ HandTees
    /\ Put(pooled)
    /\ pooled' = {} /\ queue' = <<>>
    /\ Goto("lane", "run")
    /\ UNCHANGED <<mode, mem, seq, sendQ, free, cur, closed, io, wire, dropped>>

(* flushToSender: hand over the tees' batches, ... *)
FlushToSender ==
    /\ pc.lane = "run" /\ queue # <<>> /\ Sending
    /\ HandTees
    /\ Goto("lane", "take")
    /\ UNCHANGED <<mode, mem, pool, seq, queue, pooled, sendQ, free, cur, closed,
                   io, wire, dropped>>

(* ... wait for a free batch (b := <-e.free), ... *)
TakeBatch ==
    /\ pc.lane = "take" /\ free > 0
    /\ free' = free - 1
    /\ Goto("lane", "send")
    /\ UNCHANGED <<mode, mem, pool, seq, queue, pooled, tee, teed, sendQ, cur,
                   closed, io, wire, dropped>>

(* Mutant of SendBatch: the buffers return at Flush, as they do inline. *)
SendBatchPuts ==
    /\ pc.lane = "send" /\ Len(sendQ) < Depth
    /\ sendQ' = Append(sendQ, [msgs |-> queue, pooled |-> {}])
    /\ Put(pooled)
    /\ queue' = <<>> /\ pooled' = {}
    /\ Goto("lane", "run")
    /\ UNCHANGED <<mode, mem, seq, tee, teed, free, cur, closed, io, wire,
                   dropped>>

(* ... and swap queues with it and send it. *)
SendBatch ==
    /\ pc.lane = "send" /\ Len(sendQ) < Depth
    /\ sendQ' = Append(sendQ, [msgs |-> queue, pooled |-> pooled])
    /\ queue' = <<>> /\ pooled' = {}
    /\ Goto("lane", "run")
    /\ UNCHANGED <<mode, mem, pool, seq, tee, teed, free, cur, closed, io,
                   wire, dropped>>

(* sender receives a batch, or finds the channel closed and drained. *)
SenderTake ==
    /\ pc.sender = "wait" /\ sendQ # <<>>
    /\ cur' = Head(sendQ) /\ sendQ' = Tail(sendQ)
    /\ Goto("sender", "write")
    /\ UNCHANGED <<mode, mem, pool, seq, queue, pooled, tee, teed, free, closed,
                   io, wire, dropped>>

(* The sender returns the buffers and the batch. *)
SenderFinish ==
    /\ pc.sender = "finish"
    /\ Put(cur.pooled)
    /\ cur' = NoBatch
    /\ free' = free + 1
    /\ Goto("sender", "wait")
    /\ UNCHANGED <<mode, mem, seq, queue, pooled, tee, teed, sendQ, closed, io,
                   wire, dropped>>

(* Mutant of SenderExit: the sender leaves as soon as the channel closes. *)
SenderExitEarly ==
    /\ pc.sender = "wait" /\ closed
    /\ Goto("sender", "exited")
    /\ UNCHANGED <<mode, mem, pool, seq, queue, pooled, tee, teed, sendQ, free,
                   cur, closed, io, wire, dropped>>

SenderExit ==
    /\ pc.sender = "wait" /\ closed /\ sendQ = <<>>
    /\ Goto("sender", "exited")
    /\ UNCHANGED <<mode, mem, pool, seq, queue, pooled, tee, teed, sendQ, free,
                   cur, closed, io, wire, dropped>>

(* StopSender closes the channel ... *)
StopSender ==
    /\ pc.lane = "run" /\ Sending
    /\ closed' = TRUE
    /\ Goto("lane", "stop")
    /\ UNCHANGED <<mode, mem, pool, seq, queue, pooled, tee, teed, sendQ, free,
                   cur, io, wire, dropped>>

(* ... and waits for sendDone. *)
StopReturns ==
    /\ pc.lane = "stop" /\ pc.sender = "exited"
    /\ Goto("lane", "run")
    /\ UNCHANGED <<mode, mem, pool, seq, queue, pooled, tee, teed, sendQ, free,
                   cur, closed, io, wire, dropped>>

(* The lane has nothing left to send and the sender is idle. *)
Idle ==
    /\ pc.lane = "run" /\ queue = <<>> /\ seq = MaxMsgs
    /\ pc.sender \in {"wait", "exited"} /\ sendQ = <<>>
    /\ UNCHANGED vars

LaneWrites == \E n \in 0..MaxMsgs, err \in {"none", "transient", "hard"} :
                 WriteBatch("lane", n, err)
SenderWrites == \E n \in 0..MaxMsgs, err \in {"none", "transient", "hard"} :
                 WriteBatch("sender", n, err)

Next ==
    \/ \E kind \in Kinds : \/ \E s \in Slots : EnqueueRaw(s, kind)
                           \/ \E b \in Bufs : EnqueuePooled(b, kind)
    \/ Flush \/ LaneWrites \/ FlushReturns
    \/ FlushToSender \/ TakeBatch \/ SendBatch \/ StopSender \/ StopReturns
    \/ SenderTake \/ SenderWrites \/ SenderFinish \/ SenderExit
    \/ Idle

Spec == Init /\ [][Next]_vars

(* Both goroutines keep running: a flush that has begun goes on, and the   *)
(* sender takes what is queued.                                            *)
Fairness ==
    /\ WF_vars(LaneWrites \/ FlushReturns \/ TakeBatch \/ SendBatch \/ StopReturns)
    /\ WF_vars(SenderTake \/ SenderWrites \/ SenderFinish \/ SenderExit)

FairSpec == Spec /\ Fairness
-----------------------------------------------------------------------------
(* Properties. *)

(* The batches on their way to the sockets, oldest first. *)
Batches == <<cur>> \o sendQ \o <<[msgs |-> queue, pooled |-> pooled]>>

(* Every variable keeps its type; free never exceeds its capacity, so the  *)
(* sender never waits on it.                                               *)
TypeOK ==
    /\ mode \in Modes
    /\ mem \in [Slots \cup Bufs -> 0..MaxMsgs]
    /\ pool \in [Bufs -> Nat]
    /\ pooled \subseteq Bufs
    /\ free \in 0..(Depth + 1) /\ Len(sendQ) <= Depth
    /\ closed \in BOOLEAN
    /\ pc.lane \in {"run", "write", "finish", "take", "send", "stop"}
    /\ pc.sender \in {"wait", "write", "finish", "exited"}
    /\ \A r \in Roles : io[r].t \in Targets /\ io[r].off \in Nat
    /\ \A r \in Roles : pc[r] = "write" => io[r].off < Len(Msgs(r))

(* Every buffer of the pool is in one place: in the pool, or with exactly  *)
(* one batch whose datagrams use it.  It is returned once whatever the     *)
(* number of targets, and never while it can still be written.             *)
BuffersOwned ==
    \A b \in Bufs :
       /\ pool[b] + Cardinality({i \in DOMAIN Batches : b \in Batches[i].pooled}) = 1
       /\ \A i \in DOMAIN Batches :
             (\E m \in Range(Batches[i].msgs) : m.buf = b) <=> b \in Batches[i].pooled

(* What target t is still to be sent. *)
Waiting(t) ==
    LET Left(r, ms) ==
          IF pc[r] = "finish" \/ (pc[r] = "write" /\ t < io[r].t) THEN {}
          ELSE IF pc[r] = "write" /\ t = io[r].t
               THEN {ms[i].id : i \in (io[r].off + 1)..Len(ms)}
               ELSE {m.id : m \in Range(ms)}
    IN  Left("lane", queue) \cup Left("sender", cur.msgs)
        \cup UNION {{m.id : m \in Range(sendQ[i].msgs)} : i \in DOMAIN sendQ}

(* The bytes are those the datagram was enqueued with.  Only a lane that   *)
(* waits for its flush may lend its receive buffers.                       *)
Intact(w) == w.val = w.id \/ (mode.sender /\ w.buf \in Slots)

(* For each target every enqueued datagram is exactly one of: written as   *)
(* it was enqueued ("raw must remain valid until the next Flush call", and *)
(* a fragment's buffer until its batch is written), counted as a           *)
(* write_error drop, still to be written (flushLossy, flushReliable,       *)
(* recordMeta).                                                            *)
Accounted ==
    \A t \in Targets :
       LET w == {wire[t][i].id : i \in {j \in DOMAIN wire[t] : Intact(wire[t][j])}}
       IN  /\ w \cup dropped[t] \cup Waiting(t) = 1..seq
           /\ w \cap dropped[t] = {}
           /\ (w \cup dropped[t]) \cap Waiting(t) = {}

Settled(t) == {wire[t][i].id : i \in DOMAIN wire[t]} \cup dropped[t]

(* "Tee AFTER real egress" (Flush): an inline flush hands the tees only    *)
(* what every target is done with, and leaves nothing behind in them.      *)
TeeAfterEgress ==
    /\ ~mode.sender =>
          \A k \in Tees : \A t \in Targets : Range(teed[k]) \subseteq Settled(t)
    /\ pc.lane = "run" /\ queue = <<>> => \A k \in Tees : tee[k] = <<>>

Pipe == INSTANCE DatagramPipe
          WITH accepted <- seq,
               settled <- [t \in Targets |-> Cardinality(Settled(t))],
               written <- [t \in Targets |-> [i \in DOMAIN wire[t] |-> wire[t][i].id]]

(* Each target sees an ordered, gap-accounted prefix of what was enqueued, *)
(* whichever way the Egress writes.                                        *)
ImplementsPipe == Pipe!Spec

(* Once a flush has begun, whatever it found queued is written or given up *)
(* at every target: the retries are bounded, the sender gives its batches  *)
(* back ("Unbounded blocking is not an option"), and StopSender following  *)
(* at once loses nothing.                                                  *)
FlushedSettles ==
    \A i \in 1..MaxMsgs :
       (i <= seq /\ (pc.lane \notin {"run", "stop"} \/ \A m \in Range(queue) : m.id # i))
          ~> (\A t \in Targets : i \in Settled(t))
=============================================================================
