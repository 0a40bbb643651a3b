--------------------------- MODULE ManifestApplier ---------------------------
(***************************************************************************)
(* The BRC-139 manifest consumer: a goroutine that evaluates the announced *)
(* parameters once a second and, on a change, fires the hooks main gives   *)
(* it: a restart request (a flag, its reason, a channel of one entry that  *)
(* main selects on) or, with -live-resharding, the bridging engine.        *)
(*                                                                         *)
(* The registry and the evaluator are in shard-common; the view a tick     *)
(* adopts is any member of Views.                                          *)
(***************************************************************************)
EXTENDS Naturals, Sequences, FiniteSets

CONSTANTS Views,    \* what the evaluator may adopt
          Domains,  \* DomainIDs of the object planes
          Nil

(* The zero Adopted the applier starts from. *)
NoView == [bits |-> 0, ssm |-> FALSE, successor |-> Nil, domains |-> [d \in Domains |-> 0]]

VARIABLES cfg,        \* the process's configuration
          main,       \* where main is; the request meets its select
          done,       \* the channel is closed (and the contexts cancelled)
          applier,    \* where the applier is
          prev, next, \* the views before and after this tick
          pending,    \* hooks still to fire this tick
          requested, reason, \* restart
          restartSig, \* the channel holds its entry
          bridging    \* the successor whose engine is installed

manifestVars == <<applier, prev, next, pending, requested, reason, restartSig, bridging>>

InitManifest ==
    /\ applier = "off"
    /\ prev = NoView /\ next = NoView /\ pending = <<>>
    /\ requested = FALSE /\ reason = "" /\ restartSig = FALSE
    /\ bridging = Nil

Live == cfg.auto = "live"
-----------------------------------------------------------------------------
(* domainShardBitsChanges: one change per domain whose width differs, an   *)
(* absent domain counting as zero.                                         *)
DomainChanges ==
    [i \in 1..Cardinality({d \in Domains : prev.domains[d] # next'.domains[d]})
        |-> "domain_shard_bits"]

(* The hooks a tick fires, in the order Run compares the fields.  The      *)
(* successor's is set only for live resharding.                            *)
Changes ==
    (IF prev.bits # next'.bits THEN <<"shard_bits">> ELSE <<>>)
    \o (IF prev.ssm # next'.ssm THEN <<"source_mode">> ELSE <<>>)
    \o (IF Live /\ prev.successor # next'.successor THEN <<"successor">> ELSE <<>>)
    \o DomainChanges

(* A tick: evict, snapshot, evaluate, and compare with the last view. *)
Evaluate ==
    /\ applier = "tick"
    /\ next' \in Views
    /\ pending' = Changes
    /\ applier' = "hooks"
    /\ UNCHANGED <<cfg, main, done, prev, requested, reason, restartSig, bridging>>

(* All hooks have fired: prev = next. *)
EndTick ==
    /\ applier = "hooks" /\ pending = <<>>
    /\ prev' = next
    /\ applier' = "tick"
    /\ UNCHANGED <<cfg, main, done, next, pending, requested, reason, restartSig, bridging>>

(* The hooks that ask for a restart: all but the successor's, and with     *)
(* live resharding only the object planes'.                                *)
Restarts(h) == IF Live THEN h = "domain_shard_bits" ELSE h # "successor"

(* ctx.Done: looked at between ticks only. *)
ApplierStops ==
    /\ applier = "tick" /\ done
    /\ applier' = "gone"
    /\ UNCHANGED <<cfg, main, done, prev, next, pending, requested, reason,
                   restartSig, bridging>>

(* A change that live resharding only logs ("restart deferred"). *)
HookNoted ==
    /\ applier = "hooks" /\ pending # <<>>
    /\ Head(pending) # "successor" /\ ~Restarts(Head(pending))
    /\ pending' = Tail(pending)
    /\ UNCHANGED <<cfg, main, done, applier, prev, next, requested, reason,
                   restartSig, bridging>>

(* The successor's hook installs its engine, or clears it. *)
OnSuccessorChange ==
    /\ applier = "hooks" /\ pending # <<>> /\ Head(pending) = "successor"
    /\ bridging' = next.successor
    /\ pending' = Tail(pending)
    /\ UNCHANGED <<cfg, main, done, applier, prev, next, requested, reason, restartSig>>

(* Mutant of Request: main is notified before the reason is stored. *)
RequestUnexplained ==
    /\ applier = "hooks" /\ pending # <<>> /\ Restarts(Head(pending))
    /\ requested' = TRUE
    /\ applier' = IF requested THEN "notify" ELSE "reason"
    /\ restartSig' = TRUE
    /\ UNCHANGED <<cfg, main, done, prev, next, pending, reason, bridging>>

(* restart.Request: the first caller swaps the flag ... *)
Request ==
    /\ applier = "hooks" /\ pending # <<>> /\ Restarts(Head(pending))
    /\ requested' = TRUE
    /\ applier' = IF requested THEN "notify" ELSE "reason"
    /\ UNCHANGED <<cfg, main, done, prev, next, pending, reason, restartSig, bridging>>

(* ... and stores its reason, ... *)
StoreReason ==
    /\ applier = "reason"
    /\ reason' = Head(pending)
    /\ applier' = "notify"
    /\ UNCHANGED <<cfg, main, done, prev, next, pending, requested, restartSig, bridging>>

(* Mutant of Notify: a channel without a buffer, whose send is dropped     *)
(* unless main is already waiting.                                         *)
NotifyUnbuffered ==
    /\ applier = "notify"
    /\ restartSig' = (restartSig \/ main = "select")
    /\ pending' = Tail(pending)
    /\ applier' = "hooks"
    /\ UNCHANGED <<cfg, main, done, prev, next, requested, reason, bridging>>

(* ... then the hook sends on restartSig, or finds it full. *)
Notify ==
    /\ applier = "notify"
    /\ restartSig' = TRUE
    /\ pending' = Tail(pending)
    /\ applier' = "hooks"
    /\ UNCHANGED <<cfg, main, done, prev, next, requested, reason, bridging>>

ApplierStep ==
    \/ EndTick \/ HookNoted \/ OnSuccessorChange
    \/ Request \/ StoreReason \/ Notify
-----------------------------------------------------------------------------
(* Between ticks the view last adopted has taken effect, the first one     *)
(* too, which is compared with the zero view: with live resharding the     *)
(* forwarder bridges to its successor or, once that is withdrawn, to none, *)
(* and otherwise never; a width or source mode the process cannot take up  *)
(* live has had a restart requested.  A request that main can see names    *)
(* its reason (Run, the hooks, RestartRequest).                            *)
AdoptionApplied ==
    /\ applier = "tick" =>
          /\ bridging = IF Live THEN prev.successor ELSE Nil
          /\ prev.domains # NoView.domains \/ (~Live /\ (prev.bits # 0 \/ prev.ssm))
                => requested
    /\ restartSig => reason # ""
=============================================================================
