# A TLA+ verification of shard-proxy

shard-proxy takes transactions, blocks, subtrees and BEEF objects from UDP, TCP
and object lanes, checks and deduplicates them, stamps each with a per-flow
sequence number, and multicasts them to the shard group of their identifier.
This directory models that data path and the life of the process around it in
TLA+, model-checks both on small instances with TLC, and proves the sequence
allocator correct with TLAPS.

## The system and its parts

| part | source | module |
|---|---|---|
| per-flow SeqNum counters | `forwarder/forwarder.go` (`nextSeq`, `reserveSeq`) | `FlowSeq`, `SeqAllocator`, `FlowSeqProofs` |
| frame handlers, gates, claim, fragmentation, bridging | `forwarder/forwarder.go`, `forwarder/beef.go` | `Forwarder` |
| within-batch coalescing | `forwarder/coalesce.go` | `Forwarder` |
| egress queue, flush, retry loop, sender | `forwarder/egress.go` | `Egress`, `DatagramPipe` |
| retry tee and local mirror | `forwarder/retrytee.go` | `RetryTee` |
| TCP lane: batching, linger, shutdown | `worker/tcp.go` | `TCPLane` |
| UDP worker | `worker/worker.go` | batch loop: a lane of `Forwarder`; start and end: `Lifecycle` |
| object lanes | `worker/objingress.go` | dispatch: a lane of `Forwarder`; connections, start and end: `Lifecycle` |
| BEEF rate limiter | `forwarder/ratelimit.go` | `RateLimit`; its refusal is a choice in `Forwarder` |
| subtree root | `forwarder/subtreeroot.go` | `SubtreeRoot`; its verdict is a field of a frame in `Forwarder` |
| manifest listener and applier | `manifest/`, hooks in `main.go` | `ManifestApplier`, `Lifecycle`; their effect, `SetBridging`, in `Forwarder` |
| start-up, drain, exit, readiness | `main.go`, `metrics/metrics.go` | `Lifecycle` |
| claim store, shard engine, wire formats, manifest evaluator | shard-common (external) | constants and external actions |
| configuration, counters, tools | `config/`, `metrics/`, `cmd/` | not modelled |

A lane is a goroutine with an Egress of its own. It dispatches datagrams one at
a time; a handler decodes and gates the frame, claims its id in the store all
lanes share, draws SeqNums from counters all lanes share, and queues datagrams
on the lane's Egress. At the end of a batch the lane packs what it coalesced
and flushes: every target is written, then the tees get their copies. The
modules cut along these lines, each taking the other's promise as one step:
`Forwarder` reserves a SeqNum in one step (`SeqAllocator`, which `FlowSeq`
implements), takes what it queued for sent in order (`DatagramPipe`, which
`Egress` implements), and `TCPLane` and `Lifecycle` flush in one step
(`FlushedSettles` of `Egress` says a flush ends). `Lifecycle` extends
`ManifestApplier`: the two share `main`'s select and the close of `done`.

## Modules and how they correspond to the code

**FlowSeq.** One action per step of `reserveSeq`: `Call`, `Lock`, `Lookup`,
`Insert`, `Unlock`, `Add`. `table` is the stripes' maps, `mu` their mutexes,
`count` the atomic counters. The add happens after the unlock, as in the code.

**Forwarder.** A frame is a record of what handlers tell apart: `id` is the
identity it presents, `body` the one its payload hashes to, `form` whether it
decodes and is exactly one transaction or object. Each class has its gates
(`BareGates`, `TxGates`, `BlockGates`, `SubtreeGates`, `RecordGates`,
`BEEFGates`). A handler is split only where it touches shared state: gates and
claim (`Refuse`, `RateLimit`, `PassUnclaimed`, `ClaimWon`, `ClaimLost`,
`ClaimFailOpen`), the first load of the bridging pointer (`Route`), a SeqNum
(`Stamp`, `Fragment`, `FlushCoalesced`) and the second load (`Bridge`).
`SiblingClaim` and `Evict` are the external store. `slack`, `mark` and `win`
are history variables.

**Egress.** The queue holds references to buffers, and what is written is what
a buffer holds at that time. `WriteBatch(r, n, err)` is one kernel call by the
lane or by the sender goroutine, with any partial count and outcome; the retry
loop, `writeBatchAll` and `FlushVia` are its guards.

**RetryTee.** A tee's builder, its bounded channel, its sender, and the two
ways it ends: an owned tee closed by its lane, a shared one on a socket the
listener closes after `connWG.Wait`.

**TCPLane.** A stream is a count of units, a unit being what one read asks
for. `EnterRead`, `ReadReturns`, `LingerElapsed` are `flushingReader.Read`;
`Peek`, `Header`, `BadHeader`, `Complete` the reading loops of the grammars;
`HandleReturns`, `TailFlush`, `Leave` the deferred calls in their order;
`Watch`, `StopAccepting`, `WaitReturns` the shutdown. Whether coalescing is armed
(`CoalArmed`, from `-coalesce`) and the linger are separate settings, as in the
code: `main` never calls `SetCoalesceLinger`, so the binary runs armed
connections with the eager flush; only a test sets a linger. `coal` is the
coalescing buffer bucket by bucket; a frame joins its flow's bucket or opens one.

**RateLimit.** A lane in `allow` is at one of its critical sections: `Lookup`
(the table, under `l.mu`, with `evictOldestLocked`), then `ChargeSource` and
`ChargePlane`, one `allowN` each, with the time read at `Call`. Entries are kept
after eviction, since a lane may still hold one. Time is in ticks and tokens are
integers where the code has floats; `sourceKey` is the constant `KeyOf`.

**SubtreeRoot.** `verifySubtreePayload`'s early returns, then a level at a time:
`Ranges` splits it, each goroutine (`HashRange`) writes one parent per step,
`LevelDone` is `wg.Wait` and the swap of the buffers. A hash is the term it was
made from, so equal hashes come from equal inputs only.

**ManifestApplier.** `Evaluate` adopts any view and queues the hooks in the order
`Run` compares fields; a hook that restarts takes the three steps of `Request`,
`StoreReason` and `Notify`, which other goroutines can observe in between.

**Lifecycle.** `main` launches the configured lanes in order, selects, drains,
closes `done`, waits. A lane goes through `Bind`, (TCP) `TCPIngressReady`,
`OpenTarget` per socket, `Opened`, `EnableRetryTee`, its loop, and its deferred
calls; any bind or open may fail. Connections and their watchers are in `conn`
and `shut`. `Readyz` is one atomic load of `handleReadyz` per step.

Operators named as mutants in a comment ("Mutant of ...") are plausible bugs,
one for each property checked; substituting one for the operator it follows
must break that property. They are part of no specification.

## What the runs check

| run | bounds | what it shows |
|---|---|---|
| `FlowSeq` | 3 callers, 2 flows on 1 stripe, runs of 1 or 2, 3 reservations | no number twice (`NoOverlap`), no hole (`Dense`), refinement of `SeqAllocator` |
| `Forwarder` | 3 lanes, one of each class, 18 inputs, 3 arrivals, 1 store fault | published once plus once per store fault (`AtMostOnce`), in the classes that are verified (V2 transactions, subtrees, submitted BEEF) only a payload that is what its id says holds a claim (`HonestHolder`), no more topics than granted (`DeliverGranted`) |
| `ForwarderBatch` | 2 coalescing lanes, 8 transactions, 7 of them of one flow, 4 arrivals, 2 bridging swaps | contiguous SeqNums over bundles, fragments and whole frames; lane order; bundles within their member cap and byte budget, each of which cuts alone; fragments complete, two frames of one flow in two lanes included; claims backed; whole frames once to their group, and once to the successor's inside a window |
| `Egress` | 2 targets, 3 datagrams, 1 retry; lossy, reliable, FlushVia, sender of depth 1 | every datagram written intact, dropped and counted, or waiting; buffers returned once; tee after egress; refinement of `DatagramPipe`; what was flushed is settled |
| `RetryTee` | an owned and a shared tee, queue depth 1, 3 datagrams each | every copy accounted; buffers not shared; an owned close drains first |
| `TCPLane` | a connection of 4 units alone, or one of 1 beside an idle one; batch of 3; coalescing off, armed, armed with linger | nothing held across a blocking read (`DrainedBeforeBlocking`), nothing stranded and no frame out of order but inside one flush (`NoneStranded`), what is held is flushed, every goroutine ends at shutdown |
| `RateLimit` | 2 lanes, 3 addresses of 2 prefixes, 4 objects, 4 ticks, table of 1 or 2 | the plane lets through its depth and rate at most (`PlaneBound`); a source asks the plane for no more than its budgets allow, evicted ones included (`SourceShare`); no size is refused for ever (`NeverPermanent`) |
| `SubtreeRoot` | up to 9 nodes, any of them zero, any count, 1 to 4 goroutines | the verdict of the recursive tree (`RootCorrect`), no hash read while written (`RaceFree`) |
| `Lifecycle` | 6 configurations of 1 or 2 lanes, 2 connections, 3 views, 1 failing socket | sockets outlive every queued batch and no lane leaves one open (`EgressScoped`); adopted views take effect and restarts name a reason (`AdoptionApplied`); a 200 is true when its last flag is loaded (`ReadyHonest`); a signal or a restart request ends the process (`ExitReached`) |

The bounds are the smallest at which the cases the properties are about happen:
two lanes on one id and one flow, more members than a bundle holds, an object
past the fragment limit, one buffer that must be reused, a full queue, a batch
that fills and one that does not, a full source table, an odd level under a wider
one, an opening that fails half way. `Lifecycle`'s configurations each run few
lanes, so that state spaces add up; lanes share only `done` and the readiness
flags. `TCPLane`'s connections share only the listener and `done`, so one of them
carries the load. Symmetry (lanes, callers, and in `ForwarderBatch` the two short
and the two fragmented transactions that its inputs and groups treat alike) is
used only in runs without liveness.

All Forwarder runs have pre-stamped ingress allowed and RequireEF off.

Three runs state what a comment says and the code does not do:

- `ForwarderBridgeFragments`: a transaction that is fragmented is not
  dual-emitted while bridging ("emits to BOTH destinations",
  `forwarder.go:134`). `WholeDualEmitted` is what does hold: a
  transaction sent whole goes once to its own group and at most once to the
  successor's, whatever is swapped between the two loads of the bridging engine, and to
  both when the window is open at both.
- `RetryTeeLeak`: the sender of a TCP connection's shared tee is never stopped
  ("stopped by close", `retrytee.go:83`): no path closes the tee, so one
  goroutine per connection that teed something stays. `OwnedSenderStops` is
  what does hold.
- `LifecycleReady`: `/readyz` can answer 200 before the TCP port is bound
  ("readyz must reflect TCP reachability", `main.go:320`): the metrics server
  and the workers start before `RequireTCPIngress`. `ReadyHonest` is what does
  hold.

Further divergences seen while reading, with no run of their own:

- `egress.go:564` promises "at most ~10ms of in-line stall per flush", but
  progress resets the retry budget and each target has its own.
- `tcp.go:103` says a frame is "delayed at most linger", but every read with
  data restarts the window.
- `tcp.go:432` says "per-connection order is always preserved". That holds of a
  flow's SeqNums (`LaneOrder` of `Forwarder`) and of frames sent whole, but a
  coalesced frame leaves behind frames of its batch that were queued whole, and
  behind the buckets opened before its own. `NoneStranded` says how far: inside
  one flush, hence by fewer than `maxTCPBatch` frames.
- `egress.go:260` says the TCP Egress has a batch hint of 1, is flushed per frame
  and never coalesces, and `tcp.go:451` that it is flushed per frame; it has
  `maxTCPBatch`, is flushed per batch, and coalesces when armed.
- `tcp.go:339` says every final flush lands on a live socket, but a shared
  tee's sender may still be writing (`late` in `RetryTee`).
- `egress.go:364` promises raw buffers are free after Flush, which does not hold
  with StartSender (no caller outside tests uses both). The model allows both;
  `Accounted` leaves out what was enqueued raw while a sender runs.
- `forwarder.go:147` and `main.go:444` speak of TransitionEpoch ending the dual
  emission, but nothing reads it; the restart that `main.go` calls deferred to
  the Successor handler never happens there.
- `ratelimit.go:182` says the plane tier is charged first; the source is. Its
  object token stays spent when the plane's bytes refuse the object.
- `sourceKey` says sources it cannot parse share a budget; each gets the budget
  of its own string.
- `metrics.go:907` asks to defer WorkerDone at the top of `Worker.Run`; the code
  defers it after WorkerReady, which is right: the mutant `OpenFailsUncounts`
  follows the comment and miscounts.
- The applier compares the first adopted view with a zero one, not with the
  configuration `main` pins it to (`main.go:428`). The evaluator is not under
  `src/`, so `AdoptionApplied` cannot tell a restart that is needed from one at the
  first tick for the width the process already runs with.
- The TCP lane reports ready before it opens its targets; if that fails,
  `/readyz` keeps counting it and the port stays open until `done`.

## Fairness

Safety properties assume none. `Egress`: a goroutine in a flush, and the sender,
keep running, since a kernel call returns and retries are bounded. `RetryTee`:
the sender keeps running and a close that has begun goes on; a lane owes
nothing. `TCPLane`: each connection goroutine, watcher and the listener run when
they can, and time passes; peers owe nothing, so no property relies on another
byte or a hang-up. `Lifecycle`: main, lanes, watchers, flushes and the manifest
listener run when they can; nobody owes a signal. All of this is weak fairness,
which Go's scheduler gives a runnable goroutine.

Two actions of `Lifecycle` have strong fairness. `ApplierStops`: the applier's
select sees a cancelled context and, once a second, also a tick; Go chooses
between ready cases at random and the context is ready all the time between
ticks. `Leave` on a closed connection: the reader may still hand out what it
had buffered, but that is finite.

## What is proved

`FlowSeqProofs` proves, for every set of callers, flows and stripes, every
stripe assignment and every run length:

- `TypeCorrect`: `Spec => []TypeOK`;
- `NeverTwice`: `Spec => []NoOverlap`;
- `NoHoles`: `Spec => []Dense`;
- `Implements`: `Spec => Allocator!Spec`, the refinement `Forwarder` relies on.

Assumptions: `StripeOf` maps every flow to a stripe, `Nil` is neither a caller
nor a flowState, `MaxRun` is a positive number. `NoOverlap` is not inductive: it
needs that a caller about to add holds the flowState the map has for its flow.
That needs the mutex to be held by exactly the caller between Lock and Unlock
(`MutexInv`), that a caller which found no entry is still right when it inserts
and a resolved pointer stays the map's (`ResolvedInv`), that entries of
different flows differ (`TableInv`), and that reservations lie below the
counter (`IssuedInv`). `CoverInv` is `Dense` number by number. `IInv` is their
conjunction; each action is one step of the preservation proof. The SeqNum's 64
bits are taken as unbounded.

Everything else is only model-checked. Liveness under fairness is outside the
prover's reach, and so is what a recursively defined function computes for
every input (`BundleSize`, the reference tree of `SubtreeRoot`).

## Not modelled

- Wire encodings and the metrics counters (abstracted to what the properties
  tell apart), the HTTP server, socket options, logging.
- The registry and the evaluator of manifests (shard-common); a tick adopts any
  view. The datagrams the manifest listener ingests only change the registry.
- `main` before the metrics server starts, and its `os.Exit` when the manifest
  set-up fails: sequential, with nothing running yet but the lanes it ends.
- A second signal (buffered, never read) and an ingress socket that fails with
  an error `isClosedErr` takes for a close (EBADF, EINVAL) while it is open.
- The BEEF reserve-ahead entry points, which only tests call, and the drop of
  truncated datagrams in the UDP worker.
- `config/` (flag and environment parsing; AutoConfigBootstrap and
  AutoConfigBridgingWindow are parsed and then unused) and the tools in `cmd/`
  (senders, receivers and load tests): no state outlives a call.

## Plan

1. Forwarder runs with RequireEF and without pre-stamped ingress.
2. Proofs: `PlaneBound` of `RateLimit` (needs that tokens plus what was taken
   stay below depth plus rate times the last refill); `EgressScoped`,
   `AdoptionApplied` of `Lifecycle`; `Accounted`, `BuffersOwned` and
   `ImplementsPipe` of `Egress`; `Conserved` and `FinalFlushLive` of `RetryTee`;
   `DrainedBeforeBlocking` and `NoneStranded` of `TCPLane`; `Contiguous`,
   `HonestHolder` and `AtMostOnce` of `Forwarder`.
