------------------------------ MODULE TCPLane ------------------------------
(***************************************************************************)
(* The TCP ingress lane: the listener, its connections' goroutines with    *)
(* the batched flush cadence (tcpBatcher, flushingReader), the coalescing  *)
(* linger, the shutdown watchers and the drain on shutdown.  A stream is a *)
(* count of units, a unit being a part of a frame that one read asks for:  *)
(* a frame is a header unit and, unless it is empty, a body unit.  What a  *)
(* dispatched frame turns into is Forwarder's business and a flush is      *)
(* Egress's, so here a dispatch queues, coalesces or refuses, and a flush  *)
(* is one step (FlushedSettles in Egress).                                 *)
(***************************************************************************)
EXTENDS Naturals, Sequences, FiniteSets

CONSTANTS Conns,     \* connections
          MaxBatch,  \* maxTCPBatch
          Lingers,   \* the coalesceLinger values to explore, in ticks
          Loads,     \* bound: who connects, and the units each peer sends at most
          MaxUnits   \* the largest of them

ASSUME TCPLaneAssumption ==
    /\ MaxBatch \in Nat \ {0} /\ Lingers \subseteq Nat
    /\ MaxUnits \in Nat
    /\ \A u \in Loads :
          DOMAIN u \subseteq Conns /\ \A c \in DOMAIN u : u[c] \in 0..MaxUnits

VARIABLES coalesce,  \* fw.coalesce, the -coalesce flag
          linger,    \* TCPIngress.coalesceLinger
          load,      \* the peers that connect
          listener,  \* "accepting", "waiting" (connWG.Wait) or "closed"
          done,      \* the shutdown signal
          pc,        \* see PCs
          at,        \* what is being read: "peek", "header" or "body"
          open,      \* our end of the connection is open
          eof,       \* the peer has closed its end
          sent, got, used,    \* units sent, read into the bufio.Reader, consumed
          pending,   \* tcpBatcher.pending
          frames,    \* history: frames dispatched, numbered 1..frames
          mem,       \* the content of each frame buffer
          queue,     \* the Egress's queue
          coal,      \* its coalescing buffer, bucket by bucket
          stop, watch,        \* the stop channel, and whether the watcher lives
          left,      \* ticks left of a timed read
          wire,      \* history: frames flushed, in order, and by which flush
          kept       \* history: frames not refused

Egr == <<pending, frames, mem, queue, coal, wire, kept>>
Net == <<sent, eof>>
Conf == <<coalesce, linger, load>>
Lis == <<Conf, listener, done>>
vars == <<Lis, pc, at, open, Net, got, used, Egr, stop, watch, left>>

(* "run" between reads, "timed" and "block" in the kernel's Read, then the *)
(* steps of the goroutine's return.                                        *)
PCs == {"none", "run", "timed", "block", "return", "tail", "leave", "over"}

(* CoalArmed: NewEgress(..., maxTCPBatch) makes a coalescing buffer. *)
CoalArmed == coalesce /\ MaxBatch > 1

(* handleConn's linger: a window only where coalescing is armed.  main     *)
(* never sets coalesceLinger, so in the binary an armed connection flushes *)
(* eagerly too.                                                            *)
Window == IF CoalArmed THEN linger ELSE 0

Init ==
    /\ coalesce \in BOOLEAN /\ linger \in Lingers /\ load \in Loads
    /\ listener = "accepting" /\ done = FALSE
    /\ pc = [c \in Conns |-> "none"] /\ at = [c \in Conns |-> "peek"]
    /\ open = [c \in Conns |-> FALSE] /\ eof = [c \in Conns |-> FALSE]
    /\ sent = [c \in Conns |-> 0] /\ got = [c \in Conns |-> 0]
    /\ used = [c \in Conns |-> 0] /\ pending = [c \in Conns |-> 0]
    /\ frames = [c \in Conns |-> 0]
    /\ mem = [c \in Conns |-> [b \in 1..MaxUnits |-> 0]]
    /\ queue = [c \in Conns |-> <<>>] /\ coal = [c \in Conns |-> <<>>]
    /\ stop = [c \in Conns |-> FALSE] /\ watch = [c \in Conns |-> FALSE]
    /\ left = [c \in Conns |-> 0]
    /\ wire = [c \in Conns |-> <<>>]
    /\ kept = [c \in Conns |-> {}]
-----------------------------------------------------------------------------
(* Flushing. *)

(* Mutant of Drained: the coalescing buffer is not drained. *)
DrainedQueueOnly(q, k) == [out |-> q, coal |-> k]

(* flushEgr: FlushCoalesced packs the coalescing buffer behind the queue,  *)
(* bucket by bucket, then Flush or FlushVia empties the queue.             *)
Drained(q, k) == [out |-> q \o k, coal |-> <<>>]

(* The number of the flush to come. *)
NextFlush(c) == IF wire[c] = <<>> THEN 1 ELSE wire[c][Len(wire[c])].flush + 1

(* flushEgr with the Egress holding q and k, and memory m.  Nothing gets   *)
(* out on targets that are closed.                                         *)
FlushEgr(c, q, k, m) ==
    LET d == Drained(q, k) IN
    /\ wire' = [wire EXCEPT ![c] =
                  IF listener = "closed" THEN @
                  ELSE @ \o [i \in DOMAIN d.out |->
                               [id |-> d.out[i].id, val |-> m[d.out[i].buf],
                                bundled |-> i > Len(q), flush |-> NextFlush(c)]]]
    /\ queue' = [queue EXCEPT ![c] = <<>>]
    /\ coal' = [coal EXCEPT ![c] = d.coal]

(* Mutant of Flush: a single pending frame is not flushed. *)
FlushOff(c) ==
    /\ IF pending[c] > 1
       THEN FlushEgr(c, queue[c], coal[c], mem[c])
       ELSE UNCHANGED <<queue, coal, wire>>
    /\ pending' = [pending EXCEPT ![c] = 0]
    /\ UNCHANGED <<frames, mem, kept>>

(* tcpBatcher.flush *)
Flush(c) ==
    /\ IF pending[c] > 0
       THEN FlushEgr(c, queue[c], coal[c], mem[c])
       ELSE UNCHANGED <<queue, coal, wire>>
    /\ pending' = [pending EXCEPT ![c] = 0]
    /\ UNCHANGED <<frames, mem, kept>>

(* A frame gets a buffer of its own: frameBuf and ctrlBuf are made per     *)
(* frame, and the bare and BEEF paths copy into fresh frames.              *)
FrameBuf(c, id) == id

(* Mutant of Full: the batch is never full. *)
FullNever(n) == FALSE
Full(n) == n >= MaxBatch

(* How many buckets the coalescing buffer k has: one per flow. *)
Buckets(k) == IF k = <<>> THEN 0 ELSE k[Len(k)].bucket

(* coalBuffer.add: the member goes to the end of its flow's bucket. *)
CoalAdd(k, m) ==
    LET p == Cardinality({i \in DOMAIN k : k[i].bucket <= m.bucket})
    IN  SubSeq(k, 1, p) \o <<m>> \o SubSeq(k, p + 1, Len(k))

(* DispatchClass, DispatchBareTx or ForwardControl, then tcpBatcher.add:   *)
(* the frame is refused, queued or coalesced, with its flow's bucket b or  *)
(* in a new one, and counted in any case.                                  *)
Dispatch(c, outcome, b) ==
    LET id == frames[c] + 1
        m  == [id |-> id, buf |-> FrameBuf(c, id)]
        q  == IF outcome = "queued" THEN Append(queue[c], m) ELSE queue[c]
        k  == IF outcome = "coalesced"
              THEN CoalAdd(coal[c], [id |-> m.id, buf |-> m.buf, bucket |-> b])
              ELSE coal[c]
        mm == [mem[c] EXCEPT ![m.buf] = id]
    IN  /\ outcome = "coalesced" => CoalArmed /\ b <= Buckets(coal[c]) + 1
        /\ frames' = [frames EXCEPT ![c] = id]
        /\ mem' = [mem EXCEPT ![c] = mm]
        /\ kept' = [kept EXCEPT ![c] = IF outcome = "refused" THEN @ ELSE @ \cup {id}]
        /\ IF Full(pending[c] + 1)
           THEN /\ FlushEgr(c, q, k, mm)
                /\ pending' = [pending EXCEPT ![c] = 0]
           ELSE /\ queue' = [queue EXCEPT ![c] = q]
                /\ coal' = [coal EXCEPT ![c] = k]
                /\ pending' = [pending EXCEPT ![c] = @ + 1]
                /\ UNCHANGED wire
-----------------------------------------------------------------------------
(* A connection's goroutine. *)

(* Run accepts, and starts the goroutine and its watcher. *)
Accept(c) ==
    /\ listener = "accepting" /\ pc[c] = "none" /\ c \in DOMAIN load
    /\ pc' = [pc EXCEPT ![c] = "run"]
    /\ open' = [open EXCEPT ![c] = TRUE]
    /\ watch' = [watch EXCEPT ![c] = TRUE]
    /\ UNCHANGED <<Lis, at, Net, got, used, Egr, stop, left>>

(* flushingReader.Read, when the bufio.Reader is empty: wait for up to     *)
(* Window when frames are pending, or else flush and block.                *)
EnterRead(c) ==
    /\ pc[c] = "run" /\ got[c] = used[c]
    /\ IF Window > 0 /\ pending[c] > 0
       THEN /\ pc' = [pc EXCEPT ![c] = "timed"]
            /\ left' = [left EXCEPT ![c] = Window]
            /\ UNCHANGED Egr
       ELSE /\ pc' = [pc EXCEPT ![c] = "block"]
            /\ Flush(c)
            /\ UNCHANGED left
    /\ UNCHANGED <<Lis, at, open, Net, got, used, stop, watch>>

(* The kernel returns some of what the peer sent. *)
ReadReturns(c, n) ==
    /\ pc[c] \in {"timed", "block"} /\ open[c]
    /\ n \in got[c] + 1 .. sent[c]
    /\ got' = [got EXCEPT ![c] = n]
    /\ pc' = [pc EXCEPT ![c] = "run"]
    /\ left' = [left EXCEPT ![c] = 0]
    /\ UNCHANGED <<Lis, at, open, Net, used, Egr, stop, watch>>

(* The read fails: end of stream, or the watcher closed the connection. *)
ReadFails(c) ==
    /\ pc[c] \in {"timed", "block"}
    /\ ~open[c] \/ (eof[c] /\ got[c] = sent[c])
    /\ pc' = [pc EXCEPT ![c] = "return"]
    /\ left' = [left EXCEPT ![c] = 0]
    /\ UNCHANGED <<Lis, at, open, Net, got, used, Egr, stop, watch>>

(* The deadline has passed, also where data arrives at the same moment:    *)
(* flush, then block.                                                      *)
LingerElapsed(c) ==
    /\ pc[c] = "timed" /\ left[c] = 0 /\ open[c]
    /\ Flush(c)
    /\ pc' = [pc EXCEPT ![c] = "block"]
    /\ UNCHANGED <<Lis, at, open, Net, got, used, stop, watch, left>>

(* Peek(4) commits the connection to a grammar and consumes nothing. *)
Peek(c) ==
    /\ pc[c] = "run" /\ at[c] = "peek" /\ got[c] > used[c]
    /\ at' = [at EXCEPT ![c] = "header"]
    /\ UNCHANGED <<Lis, pc, open, Net, got, used, Egr, stop, watch, left>>

(* A header that announces a body. *)
Header(c) ==
    /\ pc[c] = "run" /\ at[c] = "header" /\ got[c] > used[c]
    /\ used' = [used EXCEPT ![c] = @ + 1]
    /\ at' = [at EXCEPT ![c] = "body"]
    /\ UNCHANGED <<Lis, pc, open, Net, got, Egr, stop, watch, left>>

(* A header whose magic, version, declared length or structure is refused. *)
BadHeader(c) ==
    /\ pc[c] = "run" /\ at[c] = "header" /\ got[c] > used[c]
    /\ used' = [used EXCEPT ![c] = @ + 1]
    /\ pc' = [pc EXCEPT ![c] = "return"]
    /\ UNCHANGED <<Lis, at, open, Net, got, Egr, stop, watch, left>>

(* The frame is complete: an empty one with its header, others with their  *)
(* body.                                                                   *)
Complete(c, outcome, b) ==
    /\ pc[c] = "run" /\ at[c] \in {"header", "body"} /\ got[c] > used[c]
    /\ used' = [used EXCEPT ![c] = @ + 1]
    /\ at' = [at EXCEPT ![c] = "header"]
    /\ Dispatch(c, outcome, b)
    /\ UNCHANGED <<Lis, pc, open, Net, got, stop, watch, left>>

(* handleConn returns and closes the connection. *)
HandleReturns(c) ==
    /\ pc[c] = "return"
    /\ open' = [open EXCEPT ![c] = FALSE]
    /\ pc' = [pc EXCEPT ![c] = "tail"]
    /\ UNCHANGED <<Lis, at, Net, got, used, Egr, stop, watch, left>>

(* Mutant of TailFlush: no deferred flush. *)
TailFlushOmitted(c) ==
    /\ pc[c] = "tail"
    /\ pc' = [pc EXCEPT ![c] = "leave"]
    /\ UNCHANGED <<Lis, at, open, Net, got, used, Egr, stop, watch, left>>

(* The deferred flushEgr: drain the tail batch. *)
TailFlush(c) ==
    /\ pc[c] = "tail"
    /\ FlushEgr(c, queue[c], coal[c], mem[c])
    /\ pc' = [pc EXCEPT ![c] = "leave"]
    /\ UNCHANGED <<Lis, at, open, Net, got, used, pending, frames, mem, kept,
                   stop, watch, left>>

(* close(stop), connWG.Done *)
Leave(c) ==
    /\ pc[c] = "leave"
    /\ stop' = [stop EXCEPT ![c] = TRUE]
    /\ pc' = [pc EXCEPT ![c] = "over"]
    /\ UNCHANGED <<Lis, at, open, Net, got, used, Egr, watch, left>>

(* Mutant of Watch: the watcher waits for stop alone. *)
WatchStopOnly(c) ==
    /\ watch[c] /\ stop[c]
    /\ watch' = [watch EXCEPT ![c] = FALSE]
    /\ UNCHANGED <<Lis, pc, at, open, Net, got, used, Egr, stop, left>>

(* The shutdown watcher. *)
Watch(c) ==
    /\ watch[c] /\ (done \/ stop[c])
    /\ watch' = [watch EXCEPT ![c] = FALSE]
    /\ \/ done /\ open' = [open EXCEPT ![c] = FALSE]
       \/ stop[c] /\ UNCHANGED open
    /\ UNCHANGED <<Lis, pc, at, Net, got, used, Egr, stop, left>>
-----------------------------------------------------------------------------
(* The peer, time, and the listener. *)

Send(c) ==
    /\ pc[c] # "none" /\ ~eof[c] /\ open[c] /\ sent[c] < load[c]
    /\ sent' = [sent EXCEPT ![c] = @ + 1]
    /\ UNCHANGED <<Lis, pc, at, open, eof, got, used, Egr, stop, watch, left>>

Hangup(c) ==
    /\ pc[c] # "none" /\ ~eof[c] /\ open[c]
    /\ eof' = [eof EXCEPT ![c] = TRUE]
    /\ UNCHANGED <<Lis, pc, at, open, sent, got, used, Egr, stop, watch, left>>

(* Nothing of c's can happen before time passes or the peer acts. *)
Quiet(c) ==
    \/ pc[c] \in {"none", "over"}
    \/ /\ pc[c] \in {"timed", "block"} /\ open[c]
       /\ got[c] = sent[c] /\ ~eof[c]
       /\ pc[c] = "timed" => left[c] > 0

(* Processing takes no time: a tick passes when every goroutine waits.     *)
(* Only a wait is timed, so ticks are counted only while one is on.        *)
Tick ==
    /\ \A c \in Conns : Quiet(c)
    /\ \E c \in Conns : pc[c] = "timed"
    /\ left' = [c \in Conns |-> IF pc[c] = "timed" THEN left[c] - 1 ELSE left[c]]
    /\ UNCHANGED <<Lis, pc, at, open, Net, got, used, Egr, stop, watch>>

Signal ==
    /\ ~done /\ done' = TRUE
    /\ UNCHANGED <<Conf, listener, pc, at, open, Net, got, used, Egr, stop, watch, left>>

(* Accept fails once the listener is closed on done. *)
StopAccepting ==
    /\ done /\ listener = "accepting"
    /\ listener' = "waiting"
    /\ UNCHANGED <<Conf, done, pc, at, open, Net, got, used, Egr, stop, watch, left>>

(* connWG.Wait returns; the tee sockets and the targets are closed. *)
WaitReturns ==
    /\ listener = "waiting"
    /\ \A c \in Conns : pc[c] \in {"none", "over"}
    /\ listener' = "closed"
    /\ UNCHANGED <<Conf, done, pc, at, open, Net, got, used, Egr, stop, watch, left>>

(* The process goes on to exit. *)
Exited ==
    /\ listener = "closed" /\ \A c \in Conns : ~watch[c]
    /\ UNCHANGED vars

Outcomes == {"refused", "queued", "coalesced"}

Goroutine(c) ==
    \/ EnterRead(c)
    \/ \E n \in 1..MaxUnits : ReadReturns(c, n)
    \/ ReadFails(c) \/ LingerElapsed(c)
    \/ Peek(c) \/ Header(c) \/ BadHeader(c)
    \/ \E o \in Outcomes, b \in 1..MaxBatch : Complete(c, o, b)
    \/ HandleReturns(c) \/ TailFlush(c) \/ Leave(c)

Next ==
    \/ \E c \in Conns : Accept(c) \/ Goroutine(c) \/ Watch(c) \/ Send(c) \/ Hangup(c)
    \/ Tick \/ Signal \/ StopAccepting \/ WaitReturns \/ Exited

Spec == Init /\ [][Next]_vars

(* Goroutines that can run do, and time passes; no peer owes anything. *)
Fairness ==
    /\ \A c \in Conns : WF_vars(Goroutine(c)) /\ WF_vars(Watch(c))
    /\ WF_vars(StopAccepting) /\ WF_vars(WaitReturns) /\ WF_vars(Tick)

FairSpec == Spec /\ Fairness
-----------------------------------------------------------------------------
(* Properties. *)

Unsent(c) == queue[c] \o coal[c]

(* Every variable keeps its type. *)
TypeOK ==
    /\ listener \in {"accepting", "waiting", "closed"}
    /\ \A c \in Conns :
          /\ pc[c] \in PCs /\ at[c] \in {"peek", "header", "body"}
          /\ used[c] <= got[c] /\ got[c] <= sent[c] /\ sent[c] <= MaxUnits
          /\ pending[c] \in 0..MaxBatch - 1
          /\ left[c] \in 0..Window
          /\ kept[c] \subseteq 1..frames[c]

(* "no frame ever sits enqueued-but-unsent across a header, payload, or    *)
(* objfmt read that has to wait on the peer" (flushingReader): a goroutine *)
(* in an untimed read has nothing queued and nothing left in the           *)
(* coalescing buffer.                                                      *)
DrainedBeforeBlocking == \A c \in Conns : pc[c] = "block" => Unsent(c) = <<>>

(* When a connection's goroutine is over, exactly the frames it did not    *)
(* refuse have been flushed, each once, with its own bytes and to targets  *)
(* still open: no path of handleConn strands a frame in the batch or the   *)
(* coalescing buffer or overwrites one, and the listener closes nothing    *)
(* under a connection.  At every moment, what left is in the order the     *)
(* peer sent it, except that a coalesced frame may be overtaken by frames  *)
(* of the same flush, which number at most MaxBatch.  So "per-connection   *)
(* order is always preserved" (Run) of frames sent whole, of flushes, and  *)
(* of everything where coalescing is not armed.                            *)
NoneStranded ==
    \A c \in Conns :
       LET w == wire[c]
       IN  /\ pc[c] \in {"leave", "over"} =>
                /\ Unsent(c) = <<>>
                /\ {w[i].val : i \in DOMAIN w} = kept[c]
                /\ Len(w) = Cardinality(kept[c])
           /\ \A i, j \in DOMAIN w :
                i < j /\ w[i].id > w[j].id =>
                  CoalArmed /\ w[j].bundled /\ w[i].flush = w[j].flush
                            /\ w[i].id - w[j].id < MaxBatch

(* What a connection holds is flushed, even if the peer never sends        *)
(* another byte and never hangs up: no frame waits on the next one.        *)
HeldIsFlushed == \A c \in Conns : Unsent(c) # <<>> ~> Unsent(c) = <<>>

(* Once done is closed Run returns, whatever the peers do; and no watcher  *)
(* outlives its connection for good, done or not ("Shutdown watcher with a *)
(* per-connection exit").                                                  *)
GoroutinesEnd ==
    /\ done ~> listener = "closed"
    /\ \A c \in Conns : pc[c] = "over" ~> ~watch[c]
=============================================================================
