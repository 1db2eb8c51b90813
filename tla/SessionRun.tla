----------------------------- MODULE SessionRun -----------------------------
(***************************************************************************)
(* runWithContext (src/src/context.ts): one run of a session.  Its main    *)
(* flow provisions a sandbox, attaches, calls fn, saves, detaches and      *)
(* destroys the sandbox; when fn throws and the sandbox is dead it         *)
(* provisions another one and re-attaches.  Beside it run the checkpoint   *)
(* timer, the lock renewal timer with its heartbeat, emergency checkpoints *)
(* and the finalizer of a signal.  Sandboxes are numbered in the order in  *)
(* which they are provisioned; a mount has the number of its sandbox.      *)
(***************************************************************************)
EXTENDS LeaseRegister, Integers, Sequences, FiniteSets

CONSTANTS Me,          \* the owner string of this run
          MaxAttempts, \* recovery.maxAttempts
          Threshold,   \* recovery.failureThreshold
          Recovers,    \* recovery is enabled, with a provisioner and a consumer
          Reinvoke,    \* recovery.reinvoke
          MaxCheckpoints \* bound: checkpoints of a mount that run or wait

ASSUME RunAssumption ==
  /\ Me \in Owners
  /\ MaxAttempts \in Nat \ {0} /\ Threshold \in Nat \ {0}
  /\ Recovers \in BOOLEAN /\ Reinvoke \in BOOLEAN
  /\ MaxCheckpoints \in Nat

VARIABLES pc,       \* where the main flow is
          sig,      \* where the finalizer of a signal is
          boxes,    \* sandboxes provisioned so far
          alive,    \* those that live and that nobody asked to be destroyed
          destroyed,\* those that destroyRuntime was called for
          ran,      \* history: those fn has been running in
          runtime,  \* the main flow's variable
          bound,    \* session.runtime and session.mounted
          attempts, \* recoveryAttempts
          adopted,  \* the attach under way adopted the session's own lock
          timers,   \* which timers run
          heart,    \* the heartbeat: failures in a row, degraded
          queue,    \* per mount, the operations that hold or await its write lock
          ops       \* per operation and mount, how far it is

sandboxes == <<boxes, alive, destroyed, ran>>

session == <<runtime, bound, attempts, adopted>>

vars == <<lease, pc, sig, sandboxes, session, timers, heart, queue, ops>>

Boxes == 1 .. MaxAttempts + 1

Kinds == {"save", "checkpoint", "emergency", "signal", "touch", "signalTouch"}

PCs == {"provision", "start", "attach", "fn", "save", "failed", "renew", "recover",
        "reprovision", "reattach", "remount", "readBack", "onRecover", "errorSave",
        "detach", "finalize", "touch", "done", "exited"}

Sigs == {"none", "save", "detach", "touch", "destroy", "exit"}

Timers == {"checkpoint", "renewal", "recoveryRenewal"}

(* An operation works from its check of the lock to the put of the manifest,
   with the sandbox box; a stale one has read a manifest since replaced. *)
Steps == [pc: {"none", "queued", "works", "stale", "ok", "failed"}, box: Boxes \cup {0}]

NotUnderWay == [pc |-> "none", box |-> 0]

Ops == Kinds \X Boxes

Init ==
  /\ LeaseInit
  /\ pc = "provision"
  /\ sig = "none"
  /\ boxes = 0 /\ alive = {} /\ destroyed = {} /\ ran = {}
  /\ runtime = 0 /\ bound = 0 /\ attempts = 0 /\ adopted = FALSE
  /\ timers = {}
  /\ heart = [failures |-> 0, degraded |-> FALSE]
  /\ queue = [m \in Boxes |-> << >>]
  /\ ops = [o \in Ops |-> NotUnderWay]

Healthy == [failures |-> 0, degraded |-> FALSE]

Running == pc \notin {"done", "exited"}

(* The failures of destroyRuntime are swallowed: what it was called for may
   be there still. *)
MayAnswer(b) == b \in alive \cup destroyed

-----------------------------------------------------------------------------
(* withSessionWriteLock: the operations of a mount run one after the other *)

Enqueue(kind) ==
  /\ queue' = [queue EXCEPT ![bound] = Append(@, kind)]
  /\ ops' = [ops EXCEPT ![<<kind, bound>>] = [NotUnderWay EXCEPT !.pc = "queued"]]

\* the caller of a save or of a runtime-state update waits for its outcome
Awaited == {"save", "signal", "touch", "signalTouch"}

(* MUTANT SettledOnSuccess: a failed operation blocks those behind it. *)
SettledOnSuccess(o, outcome) ==
  /\ queue' = IF outcome = "ok" THEN [queue EXCEPT ![o[2]] = Tail(@)] ELSE queue
  /\ ops' = [ops EXCEPT ![o] = [NotUnderWay EXCEPT !.pc = IF o[1] \in Awaited THEN outcome ELSE "none"]]

Settled(o, outcome) ==
  /\ queue' = [queue EXCEPT ![o[2]] = Tail(@)]
  /\ ops' = [ops EXCEPT ![o] = [NotUnderWay EXCEPT !.pc = IF o[1] \in Awaited THEN outcome ELSE "none"]]

\* assertLockOwnership
OwnershipHolds == lease.owner \in {Me, NoOwner}

Touches(o) == o[1] \in {"touch", "signalTouch"}

(* MUTANT StartsAtOnce: nobody waits for the operation ahead. *)
StartsAtOnce(o) == ops[o].pc = "queued"

Starts(o) == ops[o].pc = "queued" /\ Head(queue[o[2]]) = o[1]

(* The check of the lock and the read of the manifest.  The operation works
   with the sandbox the session is bound to by now. *)
Begin(o) ==
  /\ Starts(o) /\ ~Touches(o) /\ OwnershipHolds
  /\ ops' = [ops EXCEPT ![o] = [pc |-> "works", box |-> bound]]
  /\ UNCHANGED queue

BeginRefused(o) ==
  /\ Starts(o) /\ ~Touches(o) /\ ~OwnershipHolds
  /\ Settled(o, "failed")

\* a committed manifest outdates those the others have read
Committed(o) ==
  /\ queue' = [queue EXCEPT ![o[2]] = Tail(@)]
  /\ ops' = [p \in Ops |->
               IF p = o THEN [NotUnderWay EXCEPT !.pc = IF o[1] \in Awaited THEN "ok" ELSE "none"]
               ELSE [ops[p] EXCEPT !.pc = IF @ = "works" THEN "stale" ELSE @]]

(* The tree is packed in the sandbox and the manifest put under ifMatch. *)
Commit(o) ==
  /\ ops[o].pc = "works"
  /\ MayAnswer(ops[o].box) /\ OwnershipHolds
  /\ Committed(o)

(* The commands of a dead sandbox throw, or time out; storage may fail; the
   lock may be lost and the manifest replaced. *)
WorkFails(o) ==
  /\ ops[o].pc \in {"works", "stale"}
  /\ Settled(o, "failed")

(* updateManifestRuntimeState reads again when the manifest was replaced. *)
Touch(o) == Starts(o) /\ Touches(o) /\ (Committed(o) \/ Settled(o, "failed"))

Operate(o) ==
  /\ pc # "exited"
  /\ Begin(o) \/ BeginRefused(o) \/ Commit(o) \/ WorkFails(o) \/ Touch(o)
  /\ UNCHANGED <<lease, pc, sig, sandboxes, session, timers, heart>>

\* the outcome of an awaited operation is taken notice of
Outcome(kind, m) == ops[<<kind, m>>].pc

Ended(kind, m) == m # 0 /\ Outcome(kind, m) \in {"ok", "failed"}

Noticed(kind, m) ==
  /\ ops' = [ops EXCEPT ![<<kind, m>>] = NotUnderWay]
  /\ UNCHANGED queue

-----------------------------------------------------------------------------
(* The main flow up to fn *)

Provisioned ==
  /\ boxes' = boxes + 1
  /\ alive' = alive \cup {boxes + 1}
  /\ runtime' = boxes + 1
  /\ UNCHANGED <<destroyed, ran>>

Provision ==
  /\ pc = "provision"
  /\ \/ Provisioned /\ pc' = "start"
     \/ pc' = "done" /\ UNCHANGED <<sandboxes, runtime>>
  /\ UNCHANGED <<lease, sig, bound, attempts, adopted, timers, heart, queue, ops>>

(* startContextSession: when it throws, nothing is cleaned up but the lock. *)
Start ==
  /\ pc = "start"
  /\ \/ Grant(Me, TRUE) /\ pc' = "attach"
     \/ Blocks(Me) /\ pc' = "done" /\ UNCHANGED lease
  /\ UNCHANGED <<sig, sandboxes, session, timers, heart, queue, ops>>

Attach ==
  /\ pc = "attach"
  /\ MayAnswer(runtime)
  /\ pc' = "fn"
  /\ bound' = runtime
  /\ ran' = ran \cup {runtime}
  /\ timers' = {"checkpoint", "renewal"}
  /\ UNCHANGED <<lease, sig, boxes, alive, destroyed, runtime, attempts, adopted, heart, queue, ops>>

AttachFails ==
  /\ pc = "attach"
  /\ Drop
  /\ pc' = "done"
  /\ UNCHANGED <<sig, sandboxes, session, timers, heart, queue, ops>>

FnReturns ==
  /\ pc = "fn"
  /\ pc' = "save"
  /\ timers' = timers \ {"checkpoint"}
  /\ Enqueue("save")
  /\ UNCHANGED <<lease, sig, sandboxes, session, heart>>

FnThrows ==
  /\ pc = "fn"
  /\ pc' = "failed"
  /\ timers' = timers \ {"checkpoint"}
  /\ UNCHANGED <<lease, sig, sandboxes, session, heart, queue, ops>>

\* the finally block stops these two; the third is tryRecover's own
TimersAtEnd == timers \ {"checkpoint", "renewal"}

SaveEnds ==
  /\ pc = "save"
  /\ Ended("save", bound)
  /\ Noticed("save", bound)
  /\ IF Outcome("save", bound) = "ok"
     THEN pc' = "detach" /\ timers' = TimersAtEnd
     ELSE pc' = "failed" /\ UNCHANGED timers
  /\ UNCHANGED <<lease, sig, sandboxes, session, heart>>

-----------------------------------------------------------------------------
(* tryRecover *)

SaveOnError == pc' = "errorSave" /\ Enqueue("save")

(* isRuntimeDead: only a sandbox that lives answers the probe; one that lives
   may fail it too, by a throw, a timeout or an exit code. *)
FailsForGood ==
  /\ pc = "failed"
  /\ Recovers => MayAnswer(runtime)
  /\ SaveOnError
  /\ UNCHANGED <<lease, sig, sandboxes, session, timers, heart>>

StartRecovery ==
  /\ pc = "failed"
  /\ Recovers
  /\ pc' = "renew"
  /\ timers' = timers \ {"renewal"}
  /\ UNCHANGED <<lease, sig, sandboxes, session, heart, queue, ops>>

(* MUTANT RenewOnce: the lock-only timer is not started. *)
RenewOnce ==
  /\ pc = "renew"
  /\ IF lease.owner = Me THEN Extend(Me, TRUE) ELSE UNCHANGED lease
  /\ pc' = "recover"
  /\ UNCHANGED <<sig, sandboxes, session, timers, heart, queue, ops>>

RenewNow ==
  /\ pc = "renew"
  /\ IF lease.owner = Me THEN Extend(Me, TRUE) ELSE UNCHANGED lease
  /\ timers' = timers \cup {"recoveryRenewal"}
  /\ pc' = "recover"
  /\ UNCHANGED <<sig, sandboxes, session, heart, queue, ops>>

Destroy(b) ==
  /\ destroyed' = destroyed \cup {b}
  /\ alive' = alive \ {b}
  /\ UNCHANGED <<boxes, ran>>

(* MUTANT NextAttemptAlways: the attempts are counted but not limited. *)
NextAttemptAlways ==
  /\ pc = "recover"
  /\ attempts' = attempts + 1
  /\ Destroy(runtime)
  /\ pc' = "reprovision"
  /\ UNCHANGED <<lease, sig, runtime, bound, adopted, timers, heart, queue, ops>>

(* MUTANT NextAttemptKeeps: the sandbox that failed is taken for gone. *)
NextAttemptKeeps ==
  /\ pc = "recover"
  /\ attempts < MaxAttempts
  /\ attempts' = attempts + 1
  /\ pc' = "reprovision"
  /\ UNCHANGED <<lease, sig, sandboxes, runtime, bound, adopted, timers, heart, queue, ops>>

NextAttempt ==
  /\ pc = "recover"
  /\ attempts < MaxAttempts
  /\ attempts' = attempts + 1
  /\ Destroy(runtime)
  /\ pc' = "reprovision"
  /\ UNCHANGED <<lease, sig, runtime, bound, adopted, timers, heart, queue, ops>>

(* MUTANT RecoveryTimerLeft: without its finally block tryRecover gives up
   and its timer renews on. *)
RecoveryTimerLeft ==
  /\ pc = "recover"
  /\ attempts = MaxAttempts
  /\ SaveOnError
  /\ UNCHANGED <<lease, sig, sandboxes, session, timers, heart>>

RecoveryAborted ==
  /\ pc = "recover"
  /\ attempts = MaxAttempts
  /\ timers' = timers \ {"recoveryRenewal"}
  /\ SaveOnError
  /\ UNCHANGED <<lease, sig, sandboxes, session, heart>>

Reprovision ==
  /\ pc = "reprovision"
  /\ \/ Provisioned /\ pc' = "reattach"
     \/ pc' = "recover" /\ UNCHANGED <<sandboxes, runtime>>
  /\ UNCHANGED <<lease, sig, bound, attempts, adopted, timers, heart, queue, ops>>

Reattach ==
  /\ pc = "reattach"
  /\ \/ /\ Grant(Me, TRUE)
        /\ adopted' = (lease = [owner |-> Me, live |-> TRUE])
        /\ pc' = "remount"
     \/ Blocks(Me) /\ pc' = "recover" /\ UNCHANGED <<lease, adopted>>
  /\ UNCHANGED <<sig, sandboxes, runtime, bound, attempts, timers, heart, queue, ops>>

Remount ==
  /\ pc = "remount"
  /\ MayAnswer(runtime)
  /\ bound' = runtime
  /\ heart' = Healthy
  /\ adopted' = FALSE
  /\ pc' = "readBack"
  /\ UNCHANGED <<lease, sig, sandboxes, runtime, attempts, timers, queue, ops>>

(* MUTANT ReleasesAlways: a failed attach releases the lock it adopted. *)
ReleasesAlways == TRUE

\* the catch block of attachContext spares a lock that was adopted
Releases == ~adopted

RemountFails ==
  /\ pc = "remount"
  /\ IF Releases THEN Drop ELSE UNCHANGED lease
  /\ adopted' = FALSE
  /\ pc' = "recover"
  /\ UNCHANGED <<sig, sandboxes, runtime, bound, attempts, timers, heart, queue, ops>>

(* readManifest for the report; when it throws, the attempt has failed
   although the session is bound to the new sandbox. *)
ReadBack ==
  /\ pc = "readBack"
  /\ \/ pc' = "onRecover" /\ timers' = {"checkpoint", "renewal"}
     \/ pc' = "recover" /\ UNCHANGED timers
  /\ UNCHANGED <<lease, sig, sandboxes, session, heart, queue, ops>>

FnAgain ==
  /\ pc = "onRecover"
  /\ Reinvoke
  /\ pc' = "fn"
  /\ ran' = ran \cup {bound}
  /\ UNCHANGED <<lease, sig, boxes, alive, destroyed, session, timers, heart, queue, ops>>

(* The callback throws, or nobody asks for fn to be called again. *)
NotAgain ==
  /\ pc = "onRecover"
  /\ SaveOnError
  /\ UNCHANGED <<lease, sig, sandboxes, session, timers, heart>>

-----------------------------------------------------------------------------
(* The end of the main flow *)

ErrorSaveEnds ==
  /\ pc = "errorSave"
  /\ Ended("save", bound)
  /\ Noticed("save", bound)
  /\ pc' = "detach"
  /\ timers' = TimersAtEnd
  /\ UNCHANGED <<lease, sig, sandboxes, session, heart>>

(* detachContext may throw, with a dead sandbox it does, and it then skips
   releaseLock. *)
Detached == (MayAnswer(bound) /\ lease.owner = Me /\ Drop) \/ UNCHANGED lease

Detach ==
  /\ pc = "detach"
  /\ Detached
  /\ pc' = "finalize"
  /\ UNCHANGED <<sig, sandboxes, session, timers, heart, queue, ops>>

(* MUTANT FinalizeBound: the sandbox the session is bound to is destroyed. *)
FinalizeBound ==
  /\ pc = "finalize"
  /\ Destroy(bound)
  /\ pc' = "done"
  /\ UNCHANGED <<lease, sig, session, timers, heart, queue, ops>>

(* The sandbox goes, and its last runtime state into the manifest, if any. *)
Finalize ==
  /\ pc = "finalize"
  /\ Destroy(runtime)
  /\ \/ pc' = "touch" /\ Enqueue("touch")
     \/ pc' = "done" /\ UNCHANGED <<queue, ops>>
  /\ UNCHANGED <<lease, sig, session, timers, heart>>

TouchEnds ==
  /\ pc = "touch"
  /\ Ended("touch", bound)
  /\ Noticed("touch", bound)
  /\ pc' = "done"
  /\ UNCHANGED <<lease, sig, sandboxes, session, timers, heart>>

-----------------------------------------------------------------------------
(* Timers and heartbeat *)

MayCheckpoint(kind) ==
  /\ Outcome(kind, bound) = "none"
  /\ Cardinality({k \in {"checkpoint", "emergency"} : Outcome(k, bound) # "none"}) < MaxCheckpoints

CheckpointTick ==
  /\ "checkpoint" \in timers
  /\ MayCheckpoint("checkpoint")
  /\ Enqueue("checkpoint")
  /\ UNCHANGED <<lease, pc, sig, sandboxes, session, timers, heart>>

(* A beat renews the lock and keeps the sandbox alive. *)
BeatOk ==
  /\ "renewal" \in timers
  /\ lease.owner = Me /\ MayAnswer(bound)
  /\ heart # Healthy \/ ~lease.live
  /\ Extend(Me, TRUE)
  /\ heart' = Healthy
  /\ UNCHANGED <<pc, sig, sandboxes, session, timers, queue, ops>>

Min2(a, b) == IF a < b THEN a ELSE b

(* Either half of a beat may fail for once.  The first beat that degrades the
   session fires an emergency checkpoint. *)
BeatFails ==
  /\ "renewal" \in timers
  /\ heart # [failures |-> Threshold, degraded |-> TRUE]
  /\ LET failures == Min2(heart.failures + 1, Threshold)
         degrades == failures = Threshold /\ ~heart.degraded IN
     /\ heart' = [failures |-> failures, degraded |-> heart.degraded \/ degrades]
     /\ IF degrades /\ Recovers /\ MayCheckpoint("emergency")
        THEN Enqueue("emergency")
        ELSE UNCHANGED <<queue, ops>>
  /\ UNCHANGED <<lease, pc, sig, sandboxes, session, timers>>

-----------------------------------------------------------------------------
(* A signal: the finalizer runs beside the main flow, then the process exits *)

Signal ==
  /\ sig = "none"
  /\ pc \notin {"provision", "start", "attach", "detach", "finalize", "touch", "done", "exited"}
  /\ sig' = "save"
  /\ timers' = timers \ {"checkpoint", "renewal"}
  /\ Enqueue("signal")
  /\ UNCHANGED <<lease, pc, sandboxes, session, heart>>

SignalSaved ==
  /\ sig = "save"
  /\ \E m \in Boxes : Ended("signal", m) /\ Noticed("signal", m)
  /\ sig' = "detach"
  /\ UNCHANGED <<lease, pc, sandboxes, session, timers, heart>>

SignalDetach ==
  /\ sig = "detach"
  /\ Detached
  /\ \/ sig' = "touch" /\ Enqueue("signalTouch")
     \/ sig' = "destroy" /\ UNCHANGED <<queue, ops>>
  /\ UNCHANGED <<pc, sandboxes, session, timers, heart>>

SignalTouched ==
  /\ sig = "touch"
  /\ \E m \in Boxes : Ended("signalTouch", m) /\ Noticed("signalTouch", m)
  /\ sig' = "destroy"
  /\ UNCHANGED <<lease, pc, sandboxes, session, timers, heart>>

SignalDestroy ==
  /\ sig = "destroy"
  /\ Destroy(runtime)
  /\ sig' = "exit"
  /\ UNCHANGED <<lease, pc, session, timers, heart, queue, ops>>

Exit ==
  /\ sig = "exit"
  /\ pc # "exited"
  /\ pc' = "exited"
  /\ timers' = {}
  /\ queue' = [m \in Boxes |-> << >>]
  /\ ops' = [o \in Ops |-> NotUnderWay]
  /\ UNCHANGED <<lease, sig, sandboxes, session, heart>>

-----------------------------------------------------------------------------
(* Sandboxes die; a lock nobody renews lapses; other owners come and go *)

SandboxDies ==
  /\ \E b \in alive : alive' = alive \ {b}
  /\ Running
  /\ UNCHANGED <<lease, pc, sig, boxes, destroyed, ran, session, timers, heart, queue, ops>>

(* A timer that runs renews in time: that is all the lock-only timer of a
   recovery does.  One request, and one attach, are shorter than the ttl. *)
Unattended ==
  /\ timers \cap {"renewal", "recoveryRenewal"} = {}
  /\ pc \notin {"attach", "renew"}

Expire ==
  /\ lease.owner = Me /\ Unattended
  /\ Lapse
  /\ UNCHANGED <<pc, sig, sandboxes, session, timers, heart, queue, ops>>

OtherComes ==
  /\ ~lease.live
  /\ \E o \in Owners \ {Me} : Grant(o, TRUE)
  /\ UNCHANGED <<pc, sig, sandboxes, session, timers, heart, queue, ops>>

OtherLeaves ==
  /\ lease.owner \notin {Me, NoOwner}
  /\ Drop
  /\ UNCHANGED <<pc, sig, sandboxes, session, timers, heart, queue, ops>>

Main ==
  /\ pc # "exited"
  /\ \/ Provision \/ Start \/ Attach \/ AttachFails
     \/ FnReturns \/ FnThrows \/ SaveEnds
     \/ FailsForGood \/ StartRecovery \/ RenewNow \/ NextAttempt \/ RecoveryAborted
     \/ Reprovision \/ Reattach \/ Remount \/ RemountFails \/ ReadBack
     \/ FnAgain \/ NotAgain
     \/ ErrorSaveEnds \/ Detach \/ Finalize \/ TouchEnds

Finalizer ==
  /\ pc # "exited"
  /\ SignalSaved \/ SignalDetach \/ SignalTouched \/ SignalDestroy \/ Exit

Beats == CheckpointTick \/ BeatOk \/ BeatFails

Environment == Signal \/ SandboxDies \/ Expire \/ OtherComes \/ OtherLeaves

Next ==
  \/ Main \/ Finalizer \/ Beats \/ Environment
  \/ \E o \in Ops : Operate(o)

(***************************************************************************)
(* The event loop runs whatever can go on, fn returns or throws, commands  *)
(* have timeouts, and time passes.                                         *)
(***************************************************************************)
Fairness ==
  /\ WF_vars(Main) /\ WF_vars(Finalizer) /\ WF_vars(Expire)
  /\ \A m \in Boxes : WF_vars(\E kind \in Kinds : Operate(<<kind, m>>))

Spec == Init /\ [][Next]_vars /\ Fairness

-----------------------------------------------------------------------------
TypeOK ==
  /\ lease \in Leases
  /\ pc \in PCs /\ sig \in Sigs
  /\ boxes \in 0 .. MaxAttempts + 1
  /\ alive \subseteq Boxes /\ destroyed \subseteq Boxes /\ ran \subseteq Boxes
  /\ runtime \in 0 .. MaxAttempts + 1 /\ bound \in 0 .. MaxAttempts + 1
  /\ attempts \in 0 .. MaxAttempts /\ adopted \in BOOLEAN
  /\ timers \subseteq Timers
  /\ heart \in [failures: 0 .. Threshold, degraded: BOOLEAN]
  /\ queue \in [Boxes -> Seq(Kinds)]
  /\ ops \in [Ops -> Steps]

(***************************************************************************)
(* "The storage lock is held by this process the whole way through"        *)
(* (src/src/context.ts:615): from the attach to the end of fn, and through *)
(* a recovery with all its failed attempts, until it is given up.          *)
(***************************************************************************)
LockKept ==
  sig = "none" /\ pc \in {"fn", "save", "failed", "renew", "recover", "reprovision", "reattach",
                          "remount", "readBack", "onRecover"}
    => lease = [owner |-> Me, live |-> TRUE]

(***************************************************************************)
(* No sandbox outlives the run: once the session was started, whatever     *)
(* attempts failed, every sandbox provisioned is destroyed at the end.     *)
(***************************************************************************)
NoSandboxLeft == pc = "done" /\ bound # 0 => 1 .. boxes \subseteq destroyed

(***************************************************************************)
(* To destroy a sandbox that still answers and to call fn again "would     *)
(* replay fn's side effects" (src/src/context.ts:631).  A probe that fails *)
(* is taken for a dead sandbox, so the replay happens; but fn runs in one  *)
(* sandbox at a time: it is called again only in one it never ran in, when *)
(* destroyRuntime was called for all it ran in.                            *)
(***************************************************************************)
ReplayInFresh ==
  [][pc # "fn" /\ pc' = "fn" => bound' \notin ran /\ ran \subseteq destroyed]_vars

(***************************************************************************)
(* Every run ends: saves behind stuck checkpoints, recoveries and signals  *)
(* included.                                                               *)
(***************************************************************************)
RunEnds == <>(pc \in {"done", "exited"})

(***************************************************************************)
(* The context does not stay locked: after the run the lock is released or *)
(* lapses, also when the detach failed.                                    *)
(***************************************************************************)
LockGivenUp == pc \in {"done", "exited"} ~> (lease.owner # Me \/ ~lease.live)

(***************************************************************************)
(* "Serializes manifest-writing operations for one mounted session"        *)
(* (src/src/context.ts:53): two operations work in one sandbox, whose      *)
(* bundle has one path, only after a recovery, when an operation that was  *)
(* queued on the old mount meets one of the new mount.                     *)
(***************************************************************************)
AtWork(o) == ops[o].pc \in {"works", "stale"}

OneOperationPerMount ==
  \A o, p \in Ops :
    o # p /\ AtWork(o) /\ AtWork(p) /\ ops[o].box = ops[p].box => o[2] # p[2] /\ attempts > 0
=============================================================================
