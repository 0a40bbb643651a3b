------------------------------ MODULE Lifecycle ------------------------------
(***************************************************************************)
(* The life of the process: main launches the metrics server, the UDP      *)
(* workers, the TCP lane, a push-object lane and the manifest consumer,    *)
(* waits for a signal or a restart request, drains, closes done and waits  *)
(* for every goroutine.  Meanwhile each lane binds, opens its egress       *)
(* sockets, serves and, once its ingress socket is closed under it,        *)
(* unwinds its deferred calls; and load balancers ask /readyz.             *)
(*                                                                         *)
(* What a lane does with a datagram is in Forwarder, Egress and TCPLane:   *)
(* here a batch is only "queued" until it is flushed.                      *)
(***************************************************************************)
EXTENDS ManifestApplier, Functions

CONSTANTS Configs,   \* the configurations to run, see cfg
          Workers, Tcp, Object, \* lanes: UDP workers, TCP ingress, push objects
          Conns,     \* connections an accepting lane serves at once
          Ifaces,    \* egress interfaces
          Pool,      \* target sets of the TCP lane (poolN)
          MaxFaults  \* bound on sockets that fail to bind or open

(* cfg is [lanes: the lanes in launch order, auto: "off", "restart" (on a  *)
(* change) or "live", conns: the connections peers make, probed: whether   *)
(* anyone asks /readyz].                                                   *)

VARIABLES launched,  \* lanes main has started
          sig,       \* the signal channel holds its entry
          pc, in, targets, tee, \* per lane: where Run is; its ingress socket,
                     \* egress sockets held, tee sockets
          conn, shut, \* accepted connections; those whose socket is closed
          readyCount, tcpReq, tcpReady, draining, \* Recorder's readiness state
          probe,     \* a /readyz request: flags loaded so far
          listener,  \* where the manifest listener is
          faults

laneVars == <<pc, in, targets, tee, conn, shut, readyCount, tcpReady, faults>>
mainVars == <<main, done, launched, sig, tcpReq, draining>>
vars == <<cfg, manifestVars, laneVars, mainVars, probe, listener>>

Lanes == Workers \cup {Tcp, Object}
Acceptors == {Tcp, Object}
Configured == Range(cfg.lanes)
NumWorkers == Cardinality(Configured \cap Workers)
Sockets(l) == IF l = Tcp THEN Pool * Ifaces ELSE Ifaces
NoFlags == [ready |-> FALSE, tcpReq |-> FALSE, tcpRdy |-> FALSE, draining |-> FALSE]

(* As the metrics server is started: nothing else runs yet. *)
Init ==
    /\ cfg \in Configs
    /\ main = "launch" /\ launched = 0 /\ done = FALSE /\ sig = FALSE
    /\ InitManifest
    /\ pc = [l \in Lanes |-> "off"]
    /\ in = [l \in Lanes |-> "none"]
    /\ targets = [l \in Lanes |-> 0]
    /\ tee = [l \in Lanes |-> "off"]
    /\ conn = [x \in Acceptors \X Conns |-> "none"]
    /\ shut = {}
    /\ readyCount = 0 /\ tcpReq = FALSE /\ tcpReady = FALSE /\ draining = FALSE
    /\ probe = [at |-> 0, flags |-> NoFlags]
    /\ listener = "off"
    /\ faults = 0
-----------------------------------------------------------------------------
(* main. *)

NextLane == cfg.lanes[launched + 1]
MoreLanes == launched < Len(cfg.lanes)

(* The TCP lane is made a /readyz prerequisite before it is launched. *)
RequireTCPIngress ==
    /\ main = "launch" /\ MoreLanes /\ NextLane = Tcp /\ ~tcpReq
    /\ tcpReq' = TRUE
    /\ UNCHANGED <<cfg, manifestVars, laneVars, main, done, launched, sig, draining,
                   probe, listener>>

Launch ==
    /\ main = "launch" /\ MoreLanes
    /\ NextLane = Tcp => tcpReq
    /\ pc' = [pc EXCEPT ![NextLane] = "bind"]
    /\ launched' = launched + 1
    /\ UNCHANGED <<cfg, manifestVars, in, targets, tee, conn, shut, readyCount, tcpReady,
                   faults, main, done, sig, tcpReq, draining, probe, listener>>

(* With -auto-config, the manifest listener and the applier. *)
LaunchManifest ==
    /\ main = "launch" /\ ~MoreLanes
    /\ listener' = IF cfg.auto = "off" THEN "gone" ELSE "open"
    /\ applier' = IF cfg.auto = "off" THEN "gone" ELSE "tick"
    /\ main' = "notify"
    /\ UNCHANGED <<cfg, prev, next, pending, requested, reason, restartSig, bridging,
                   laneVars, done, launched, sig, tcpReq, draining, probe>>

Goes(from, to) ==
    /\ main = from /\ main' = to
    /\ UNCHANGED <<cfg, applier, prev, next, pending, requested, reason, bridging,
                   laneVars, launched, tcpReq, probe, listener>>

(* signal.Notify; from here a signal is buffered. *)
SignalNotify == Goes("notify", "select") /\ UNCHANGED <<done, sig, restartSig, draining>>

(* The operator's.  A second one fills the buffer again and is not read.   *)
Signal ==
    /\ main = "select" /\ ~sig /\ sig' = TRUE
    /\ UNCHANGED <<cfg, manifestVars, laneVars, main, done, launched, tcpReq, draining,
                   probe, listener>>

(* The select: a signal or a restart request begins the drain. *)
TakeSignal == sig /\ sig' = FALSE /\ Goes("select", "drain")
              /\ UNCHANGED <<done, restartSig, draining>>
TakeRestart == restartSig /\ restartSig' = FALSE /\ Goes("select", "drain")
               /\ UNCHANGED <<done, sig, draining>>

SetDraining == Goes("drain", "sleep") /\ draining' = TRUE
               /\ UNCHANGED <<done, sig, restartSig>>

(* The sleep ends (DrainTimeout, or at once): close(done). *)
CloseDone == Goes("sleep", "wait") /\ done' = TRUE
             /\ UNCHANGED <<sig, restartSig, draining>>

(* rec.Shutdown has returned, within its ten seconds; wg.Wait. *)
Exit ==
    /\ \A l \in Configured : pc[l] = "gone"
    /\ listener = "gone" /\ applier = "gone"
    /\ Goes("wait", "exited")
    /\ UNCHANGED <<done, sig, restartSig, draining>>

MainStep == \/ RequireTCPIngress \/ Launch \/ LaunchManifest \/ SignalNotify
            \/ TakeSignal \/ TakeRestart \/ SetDraining \/ CloseDone \/ Exit
-----------------------------------------------------------------------------
(* Run, of every kind of lane.  others is what a lane's steps leave alone. *)

others == <<cfg, manifestVars, mainVars, probe, listener>>

At(l, from, to) == pc[l] = from /\ pc' = [pc EXCEPT ![l] = to]

(* The ingress socket is opened; its watcher waits for done. *)
Bind(l) ==
    /\ At(l, "bind", IF l = Tcp THEN "announce" ELSE "open")
    /\ in' = [in EXCEPT ![l] = "open"]
    /\ UNCHANGED <<others, targets, tee, conn, shut, readyCount, tcpReady, faults>>

BindFails(l) ==
    /\ faults < MaxFaults /\ faults' = faults + 1
    /\ At(l, "bind", "gone")
    /\ UNCHANGED <<others, in, targets, tee, conn, shut, readyCount, tcpReady>>

(* The watcher closes the ingress socket under its lane. *)
Watch(l) ==
    /\ done /\ in[l] = "open"
    /\ in' = [in EXCEPT ![l] = "closed"]
    /\ UNCHANGED <<others, pc, targets, tee, conn, shut, readyCount, tcpReady, faults>>

(* The TCP lane announces itself before it opens its targets. *)
TCPIngressReady(l) ==
    /\ At(l, "announce", "open")
    /\ tcpReady' = TRUE
    /\ UNCHANGED <<others, in, targets, tee, conn, shut, readyCount, faults>>

(* OpenTargets opens and probes one socket per interface; the TCP lane     *)
(* calls it once for each set of its pool.                                 *)
OpenTarget(l) ==
    /\ pc[l] = "open" /\ targets[l] < Sockets(l)
    /\ targets' = [targets EXCEPT ![l] = @ + 1]
    /\ UNCHANGED <<others, pc, in, tee, conn, shut, readyCount, tcpReady, faults>>

(* A worker's deferred conn.Close; a listener is left to its watcher. *)
Unbind(l) == in' = IF l \in Workers THEN [in EXCEPT ![l] = "closed"] ELSE in

(* Mutant of OpenFails: WorkerDone is deferred before the early returns. *)
OpenFailsUncounts(l) ==
    /\ faults < MaxFaults /\ faults' = faults + 1
    /\ targets[l] < Sockets(l)
    /\ At(l, "open", "gone")
    /\ targets' = [targets EXCEPT ![l] = 0]
    /\ readyCount' = IF l \in Workers THEN readyCount - 1 ELSE readyCount
    /\ Unbind(l)
    /\ UNCHANGED <<others, tee, conn, shut, tcpReady>>

(* A socket that cannot be opened or probed ends the lane: the sockets of  *)
(* this set are closed by OpenTargets, those of earlier sets by Run.       *)
OpenFails(l) ==
    /\ faults < MaxFaults /\ faults' = faults + 1
    /\ targets[l] < Sockets(l)
    /\ At(l, "open", "gone")
    /\ targets' = [targets EXCEPT ![l] = 0]
    /\ Unbind(l)
    /\ UNCHANGED <<others, tee, conn, shut, readyCount, tcpReady>>

(* All targets are open.  A worker reports WorkerReady. *)
Opened(l) ==
    /\ targets[l] = Sockets(l)
    /\ At(l, "open", IF l = Object THEN "run" ELSE "tee")
    /\ readyCount' = IF l \in Workers THEN readyCount + 1 ELSE readyCount
    /\ UNCHANGED <<others, in, targets, tee, conn, shut, tcpReady, faults>>

(* The tee sockets a worker or the TCP lane dials, all or none: they are   *)
(* optional, and a failure only disables them.  The connections of an      *)
(* object lane dial their own.                                             *)
EnableRetryTee(l) ==
    /\ At(l, "tee", "run")
    /\ \E t \in {"open", "off"} : tee' = [tee EXCEPT ![l] = t]
    /\ UNCHANGED <<others, in, targets, conn, shut, readyCount, tcpReady, faults>>

CloseTee(l) == tee' = [tee EXCEPT ![l] = IF @ = "open" THEN "closed" ELSE @]

(* The last deferred call: the targets are closed. *)
CloseTargets(l) ==
    /\ At(l, "close", "gone")
    /\ targets' = [targets EXCEPT ![l] = 0]
    /\ Unbind(l)
    /\ UNCHANGED <<others, tee, conn, shut, readyCount, tcpReady, faults>>
-----------------------------------------------------------------------------
(* The UDP worker's loop. *)

(* ReadBatch returns datagrams, which are dispatched and so queued. *)
ReadBatch(w) ==
    /\ in[w] = "open" /\ At(w, "run", "flush")
    /\ UNCHANGED <<others, in, targets, tee, conn, shut, readyCount, tcpReady, faults>>

Flush(w) ==
    /\ At(w, "flush", "run")
    /\ UNCHANGED <<others, in, targets, tee, conn, shut, readyCount, tcpReady, faults>>

(* The socket is closed: the tee is closed first, then comes the last      *)
(* flush, WorkerDone, and the targets.                                     *)
ReadBatchClosed(w) ==
    /\ in[w] = "closed" /\ At(w, "run", "done")
    /\ CloseTee(w)
    /\ UNCHANGED <<others, in, targets, conn, shut, readyCount, tcpReady, faults>>

WorkerDone(w) ==
    /\ At(w, "done", "close")
    /\ readyCount' = readyCount - 1
    /\ UNCHANGED <<others, in, targets, tee, conn, shut, tcpReady, faults>>
-----------------------------------------------------------------------------
(* The accept loops, and their connections. *)

connOthers == <<others, pc, in, targets, tee, readyCount, tcpReady, faults>>
ConnAt(x, from, to) == conn[x] = from /\ conn' = [conn EXCEPT ![x] = to]

Accept(l, c) ==
    /\ pc[l] = "run" /\ in[l] = "open" /\ c \in cfg.conns
    /\ ConnAt(<<l, c>>, "none", "read")
    /\ UNCHANGED <<connOthers, shut>>

(* The connection's watcher closes it; a connection gone stops its own. *)
WatchConn(x) ==
    /\ done /\ conn[x] # "none" /\ x \notin shut
    /\ shut' = shut \cup {x}
    /\ UNCHANGED <<connOthers, conn>>

(* Something was read, perhaps from what the reader had buffered before    *)
(* the close, and dispatched.                                              *)
ReadObject(x) == ConnAt(x, "read", "queued") /\ UNCHANGED <<connOthers, shut>>

FlushEgr(x) == ConnAt(x, "queued", "read") /\ UNCHANGED <<connOthers, shut>>

(* handleConn returns: the stream ended, failed, or was malformed.  A TCP  *)
(* connection may leave a batch queued.                                    *)
Leave(x) ==
    /\ \/ ConnAt(x, "read", "tail")
       \/ x[1] = Tcp /\ ConnAt(x, "queued", "tail")
    /\ UNCHANGED <<connOthers, shut>>

(* The deferred flush of the tail; the connection's own tees are closed    *)
(* after it.                                                               *)
FlushTail(x) ==
    /\ ConnAt(x, "tail", "none")
    /\ shut' = shut \ {x}
    /\ UNCHANGED connOthers

AcceptClosed(l) ==
    /\ in[l] = "closed" /\ At(l, "run", "wait")
    /\ UNCHANGED <<others, in, targets, tee, conn, shut, readyCount, tcpReady, faults>>

(* Mutant of ConnWait: connWG is not waited for. *)
ConnWaitSkipped(l) ==
    /\ At(l, "wait", "close")
    /\ CloseTee(l)
    /\ UNCHANGED <<others, in, targets, conn, shut, readyCount, tcpReady, faults>>

(* connWG.Wait, deferred last and so run first; then the shared tees are   *)
(* closed, and the targets.                                                *)
ConnWait(l) ==
    /\ \A c \in Conns : conn[<<l, c>>] = "none"
    /\ At(l, "wait", "close")
    /\ CloseTee(l)
    /\ UNCHANGED <<others, in, targets, conn, shut, readyCount, tcpReady, faults>>
-----------------------------------------------------------------------------
(* The manifest listener: it joins its groups or gives up, and looks at    *)
(* its context after every datagram and every read deadline.               *)
probeless == <<cfg, manifestVars, laneVars, mainVars>>

ListenerOpens ==
    /\ listener = "open" /\ listener' = "loop"
    /\ UNCHANGED <<probeless, probe>>

ListenerStops ==
    /\ \/ listener = "open" /\ faults < MaxFaults /\ faults' = faults + 1
       \/ listener = "loop" /\ done /\ UNCHANGED faults
    /\ listener' = "gone"
    /\ UNCHANGED <<cfg, manifestVars, mainVars, probe, pc, in, targets, tee, conn, shut,
                   readyCount, tcpReady>>
-----------------------------------------------------------------------------
(* handleReadyz, which loads four atomics one after the other. *)

Flag(f) ==
    CASE f = "ready"    -> readyCount >= NumWorkers /\ NumWorkers > 0
      [] f = "tcpReq"   -> tcpReq
      [] f = "tcpRdy"   -> tcpReady
      [] f = "draining" -> draining

(* Mutant of ReadyzLoads: draining is looked at first. *)
ReadyzLoadsDrainingFirst == <<"draining", "ready", "tcpReq", "tcpRdy">>

ReadyzLoads == <<"ready", "tcpReq", "tcpRdy", "draining">>

(* One load.  A request that has loaded all is answered, and the next one  *)
(* may begin.                                                              *)
Readyz ==
    /\ cfg.probed
    /\ LET k == IF probe.at = 4 THEN 1 ELSE probe.at + 1
           old == IF k = 1 THEN NoFlags ELSE probe.flags
       IN probe' = [at |-> k, flags |-> [old EXCEPT ![ReadyzLoads[k]] = Flag(ReadyzLoads[k])]]
    /\ UNCHANGED <<probeless, listener>>

(* Whether the flags loaded make it a 200. *)
SaysReady(flags) == flags.ready /\ ~flags.draining /\ (flags.tcpReq => flags.tcpRdy)
-----------------------------------------------------------------------------
ManifestOthers == <<laneVars, launched, sig, tcpReq, draining, probe, listener>>

LaneStep(l) ==
    \/ Bind(l) \/ BindFails(l) \/ TCPIngressReady(l)
    \/ OpenTarget(l) \/ OpenFails(l) \/ Opened(l) \/ EnableRetryTee(l)
    \/ l \in Workers /\ (Flush(l) \/ ReadBatchClosed(l) \/ WorkerDone(l))
    \/ l \in Acceptors /\ (AcceptClosed(l) \/ ConnWait(l))
    \/ CloseTargets(l)

(* The process has exited: its goroutines are no more. *)
Exited == main = "exited" /\ UNCHANGED vars

Next ==
    \/ main # "exited" /\ ( \/ MainStep \/ Signal
                            \/ \E l \in Lanes : LaneStep(l) \/ Watch(l)
                            \/ \E w \in Workers : ReadBatch(w)
                            \/ \E l \in Acceptors, c \in Conns : Accept(l, c)
                            \/ \E x \in Acceptors \X Conns :
                                  \/ WatchConn(x) \/ ReadObject(x) \/ FlushEgr(x)
                                  \/ Leave(x) \/ FlushTail(x)
                            \/ (Evaluate \/ ApplierStep \/ ApplierStops)
                                  /\ UNCHANGED ManifestOthers
                            \/ ListenerOpens \/ ListenerStops
                            \/ Readyz )
    \/ Exited

Spec == Init /\ [][Next]_vars

Running(A) == main # "exited" /\ A

(* Goroutines run.  Peers need not send, signal or hang up; a reader of a  *)
(* closed connection meets the end of its buffer; the applier's select     *)
(* does not prefer a ticker of one second over a context that is done.     *)
Fairness ==
    /\ WF_vars(Running(MainStep))
    /\ \A l \in Lanes : WF_vars(Running(LaneStep(l))) /\ WF_vars(Running(Watch(l)))
    /\ \A x \in Acceptors \X Conns :
          /\ WF_vars(Running(WatchConn(x)))
          /\ WF_vars(Running(FlushEgr(x) \/ FlushTail(x)))
          /\ SF_vars(Running(x \in shut /\ Leave(x)))
    /\ WF_vars(Running(ListenerOpens \/ ListenerStops))
    /\ WF_vars(Running(ApplierStep /\ UNCHANGED ManifestOthers))
    /\ SF_vars(Running(ApplierStops /\ UNCHANGED ManifestOthers))

FairSpec == Spec /\ Fairness
-----------------------------------------------------------------------------
(* Properties. *)

Serving(w) == pc[w] \in {"tee", "run", "flush"}

(* Every variable keeps its type, and readyCount is the number of workers  *)
(* that serve or are about to report that they are done (WorkerReady,      *)
(* WorkerDone: no early return is counted).                                *)
TypeOK ==
    /\ pc \in [Lanes -> {"off", "bind", "announce", "open", "tee", "run", "flush", "done",
                         "wait", "close", "gone"}]
    /\ in \in [Lanes -> {"none", "open", "closed"}]
    /\ \A l \in Lanes : targets[l] \in 0..Sockets(l)
    /\ tee \in [Lanes -> {"off", "open", "closed"}]
    /\ conn \in [Acceptors \X Conns -> {"none", "read", "queued", "tail"}]
    /\ shut \subseteq Acceptors \X Conns
    /\ probe.at \in 0..4
    /\ applier \in {"off", "tick", "hooks", "reason", "notify", "gone"}
    /\ {prev, next} \subseteq Views \cup {NoView}
    /\ listener \in {"off", "open", "loop", "gone"}
    /\ readyCount = Cardinality({w \in Workers : Serving(w) \/ pc[w] = "done"})

(* Whatever is queued can still be sent: while a worker holds a batch or a *)
(* connection lives, its lane's targets are open and its tees not closed;  *)
(* and a lane that is gone, after however partial an opening, has left no  *)
(* egress socket behind (the deferred calls of Run, OpenTargets).          *)
EgressScoped ==
    /\ \A l \in Lanes :
          (pc[l] = "flush" \/ \E c \in Conns : l \in Acceptors /\ conn[<<l, c>>] # "none")
             => targets[l] = Sockets(l) /\ tee[l] # "closed"
    /\ \A l \in Lanes : pc[l] = "gone" => targets[l] = 0 /\ tee[l] # "open"

(* When a /readyz request that will say 200 has loaded its last flag, the  *)
(* process is not draining, every worker still serves, and a TCP lane it   *)
(* saw required is bound: what was loaded earlier is not stale (the order  *)
(* of the loads in handleReadyz).                                          *)
ReadyHonest ==
    [][probe.at = 3 /\ probe'.at = 4 /\ SaysReady(probe'.flags)
          => /\ ~draining
             /\ \A w \in Configured \cap Workers : Serving(w)
             /\ probe'.flags.tcpReq => in[Tcp] = "open"]_vars

(* A signal, or a change the applier asked a restart for, whenever it came *)
(* and whatever the lanes were doing, ends the process (main, Run).        *)
ExitReached == (sig \/ requested) ~> main = "exited"

(* "TCP_LISTEN_PORT > 0 => readyz must reflect TCP reachability, not just  *)
(* worker count" (main): no 200 before the TCP lane has bound.             *)
ReadyReflectsTCP ==
    [][probe.at = 3 /\ probe'.at = 4 /\ SaysReady(probe'.flags) /\ Tcp \in Configured
          => in[Tcp] = "open"]_vars
=============================================================================
