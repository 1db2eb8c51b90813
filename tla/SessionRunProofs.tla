-------------------------- MODULE SessionRunProofs --------------------------
(***************************************************************************)
(* What a run keeps and what it leaves behind, for any number of recovery  *)
(* attempts, any failure threshold and any options.                        *)
(***************************************************************************)
EXTENDS SessionRun, TLAPS

USE RunAssumption DEF RunAssumption

-----------------------------------------------------------------------------
(* The lock *)

Held == [owner |-> Me, live |-> TRUE]

(* Where the session's own timer renews, and where the recovery's does. *)
UnderRenewal == {"fn", "save", "failed", "onRecover"}

UnderRecovery == {"recover", "reprovision", "reattach", "remount", "readBack"}

LockInv ==
  sig = "none" =>
    /\ pc \in {"attach", "renew"} \cup UnderRenewal \cup UnderRecovery => lease = Held
    /\ pc \in UnderRenewal => "renewal" \in timers
    /\ pc \in UnderRecovery => "recoveryRenewal" \in timers
    /\ pc = "remount" => adopted

LEMMA NextLockInv == LockInv /\ [Next]_vars => LockInv'
<1> SUFFICES ASSUME LockInv, [Next]_vars
             PROVE  LockInv'
  OBVIOUS
<1> USE DEF LockInv, Held, UnderRenewal, UnderRecovery, session, sandboxes
<1>1. CASE Main
  <2>1. CASE Provision
    BY <2>1 DEF Provision
  <2>2. CASE Start
    BY <2>2 DEF Start, Grant
  <2>3. CASE Attach
    BY <2>3 DEF Attach
  <2>4. CASE AttachFails
    BY <2>4 DEF AttachFails, Drop
  <2>5. CASE FnReturns
    BY <2>5 DEF FnReturns
  <2>6. CASE FnThrows
    BY <2>6 DEF FnThrows
  <2>7. CASE SaveEnds
    BY <2>7 DEF SaveEnds
  <2>8. CASE FailsForGood
    BY <2>8 DEF FailsForGood, SaveOnError
  <2>9. CASE StartRecovery
    BY <2>9 DEF StartRecovery
  <2>10. CASE RenewNow
    BY <2>10 DEF RenewNow, Extend
  <2>11. CASE NextAttempt
    BY <2>11 DEF NextAttempt
  <2>12. CASE RecoveryAborted
    BY <2>12 DEF RecoveryAborted, SaveOnError
  <2>13. CASE Reprovision
    BY <2>13 DEF Reprovision
  <2>14. CASE Reattach
    BY <2>14 DEF Reattach, Grant, Blocks
  <2>15. CASE Remount
    BY <2>15 DEF Remount
  <2>16. CASE RemountFails
    BY <2>16 DEF RemountFails, Releases
  <2>17. CASE ReadBack
    BY <2>17 DEF ReadBack
  <2>18. CASE FnAgain
    BY <2>18 DEF FnAgain
  <2>19. CASE NotAgain
    BY <2>19 DEF NotAgain, SaveOnError
  <2>20. CASE ErrorSaveEnds
    BY <2>20 DEF ErrorSaveEnds
  <2>21. CASE Detach
    BY <2>21 DEF Detach
  <2>22. CASE Finalize
    BY <2>22 DEF Finalize
  <2>23. CASE TouchEnds
    BY <2>23 DEF TouchEnds
  <2> QED
    BY <1>1, <2>1, <2>2, <2>3, <2>4, <2>5, <2>6, <2>7, <2>8, <2>9, <2>10, <2>11, <2>12, <2>13, <2>14, <2>15, <2>16, <2>17, <2>18, <2>19, <2>20, <2>21, <2>22, <2>23 DEF Main
<1>2. CASE Finalizer
  <2>1. CASE SignalSaved
    BY <2>1 DEF SignalSaved
  <2>2. CASE SignalDetach
    BY <2>2 DEF SignalDetach
  <2>3. CASE SignalTouched
    BY <2>3 DEF SignalTouched
  <2>4. CASE SignalDestroy
    BY <2>4 DEF SignalDestroy
  <2>5. CASE Exit
    BY <2>5 DEF Exit
  <2> QED
    BY <1>2, <2>1, <2>2, <2>3, <2>4, <2>5 DEF Finalizer
<1>3. CASE Beats
  <2>1. CASE CheckpointTick
    BY <2>1 DEF CheckpointTick
  <2>2. CASE BeatOk
    BY <2>2 DEF BeatOk, Extend
  <2>3. CASE BeatFails
    BY <2>3 DEF BeatFails
  <2> QED
    BY <1>3, <2>1, <2>2, <2>3 DEF Beats
<1>4. CASE Environment
  <2>1. CASE Signal
    BY <2>1 DEF Signal
  <2>2. CASE SandboxDies
    BY <2>2 DEF SandboxDies
  <2>3. CASE Expire
    BY <2>3 DEF Expire, Unattended, Lapse
  <2>4. CASE OtherComes
    BY <2>4 DEF OtherComes
  <2>5. CASE OtherLeaves
    BY <2>5 DEF OtherLeaves
  <2> QED
    BY <1>4, <2>1, <2>2, <2>3, <2>4, <2>5 DEF Environment
<1>5. ASSUME NEW o \in Ops, Operate(o)
      PROVE  LockInv'
  BY <1>5 DEF Operate
<1>6. CASE UNCHANGED vars
  BY <1>6 DEF vars
<1> QED
  BY <1>1, <1>2, <1>3, <1>4, <1>5, <1>6 DEF Next

(***************************************************************************)
(* "The storage lock is held by this process the whole way through"        *)
(* (LockKept), also through recoveries that fail any number of times: a    *)
(* re-attach always adopts, and an adopted lock is not released.           *)
(***************************************************************************)
THEOREM Kept == Spec => []LockKept
<1>1. Init => LockInv
  BY DEF Init, LockInv, UnderRenewal, UnderRecovery
<1>2. LockInv => LockKept
  BY DEF LockInv, LockKept, Held, UnderRenewal, UnderRecovery
<1> QED
  BY <1>1, <1>2, NextLockInv, PTL DEF Spec

-----------------------------------------------------------------------------
(* The sandboxes *)

(* All sandboxes but the current one are destroyed, and that one is too
   where the run asks for another one or is over. *)
SandboxInv ==
  /\ boxes \in Nat
  /\ 1 .. boxes \subseteq destroyed \cup {runtime}
  /\ pc = "provision" => boxes = 0
  /\ pc \in {"provision", "start", "attach"} => bound = 0
  /\ pc \in {"reprovision", "touch"} => runtime \in destroyed
  /\ pc = "done" /\ bound # 0 => runtime \in destroyed

LEMMA NextSandboxInv == SandboxInv /\ [Next]_vars => SandboxInv'
<1> SUFFICES ASSUME SandboxInv, [Next]_vars
             PROVE  SandboxInv'
  OBVIOUS
<1> USE DEF SandboxInv, session, sandboxes
<1>1. CASE Main
  <2>1. CASE Provision
    BY <2>1 DEF Provision, Provisioned
  <2>2. CASE Start
    BY <2>2 DEF Start
  <2>3. CASE Attach
    BY <2>3 DEF Attach
  <2>4. CASE AttachFails
    BY <2>4 DEF AttachFails
  <2>5. CASE FnReturns
    BY <2>5 DEF FnReturns
  <2>6. CASE FnThrows
    BY <2>6 DEF FnThrows
  <2>7. CASE SaveEnds
    BY <2>7 DEF SaveEnds
  <2>8. CASE FailsForGood
    BY <2>8 DEF FailsForGood, SaveOnError
  <2>9. CASE StartRecovery
    BY <2>9 DEF StartRecovery
  <2>10. CASE RenewNow
    BY <2>10 DEF RenewNow
  <2>11. CASE NextAttempt
    BY <2>11 DEF NextAttempt, Destroy
  <2>12. CASE RecoveryAborted
    BY <2>12 DEF RecoveryAborted, SaveOnError
  <2>13. CASE Reprovision
    BY <2>13 DEF Reprovision, Provisioned
  <2>14. CASE Reattach
    BY <2>14 DEF Reattach
  <2>15. CASE Remount
    BY <2>15 DEF Remount
  <2>16. CASE RemountFails
    BY <2>16 DEF RemountFails
  <2>17. CASE ReadBack
    BY <2>17 DEF ReadBack
  <2>18. CASE FnAgain
    BY <2>18 DEF FnAgain
  <2>19. CASE NotAgain
    BY <2>19 DEF NotAgain, SaveOnError
  <2>20. CASE ErrorSaveEnds
    BY <2>20 DEF ErrorSaveEnds
  <2>21. CASE Detach
    BY <2>21 DEF Detach
  <2>22. CASE Finalize
    BY <2>22 DEF Finalize, Destroy
  <2>23. CASE TouchEnds
    BY <2>23 DEF TouchEnds
  <2> QED
    BY <1>1, <2>1, <2>2, <2>3, <2>4, <2>5, <2>6, <2>7, <2>8, <2>9, <2>10, <2>11, <2>12, <2>13, <2>14, <2>15, <2>16, <2>17, <2>18, <2>19, <2>20, <2>21, <2>22, <2>23 DEF Main
<1>2. CASE Finalizer
  <2>1. CASE SignalSaved
    BY <2>1 DEF SignalSaved
  <2>2. CASE SignalDetach
    BY <2>2 DEF SignalDetach
  <2>3. CASE SignalTouched
    BY <2>3 DEF SignalTouched
  <2>4. CASE SignalDestroy
    BY <2>4 DEF SignalDestroy, Destroy
  <2>5. CASE Exit
    BY <2>5 DEF Exit
  <2> QED
    BY <1>2, <2>1, <2>2, <2>3, <2>4, <2>5 DEF Finalizer
<1>3. CASE Beats
  <2>1. CASE CheckpointTick
    BY <2>1 DEF CheckpointTick
  <2>2. CASE BeatOk
    BY <2>2 DEF BeatOk
  <2>3. CASE BeatFails
    BY <2>3 DEF BeatFails
  <2> QED
    BY <1>3, <2>1, <2>2, <2>3 DEF Beats
<1>4. CASE Environment
  <2>1. CASE Signal
    BY <2>1 DEF Signal
  <2>2. CASE SandboxDies
    BY <2>2 DEF SandboxDies
  <2>3. CASE Expire
    BY <2>3 DEF Expire
  <2>4. CASE OtherComes
    BY <2>4 DEF OtherComes
  <2>5. CASE OtherLeaves
    BY <2>5 DEF OtherLeaves
  <2> QED
    BY <1>4, <2>1, <2>2, <2>3, <2>4, <2>5 DEF Environment
<1>5. ASSUME NEW o \in Ops, Operate(o)
      PROVE  SandboxInv'
  BY <1>5 DEF Operate
<1>6. CASE UNCHANGED vars
  BY <1>6 DEF vars
<1> QED
  BY <1>1, <1>2, <1>3, <1>4, <1>5, <1>6 DEF Next

(***************************************************************************)
(* Every sandbox of a run whose session was started is destroyed by its    *)
(* end (NoSandboxLeft), whichever attempts failed at whichever point.      *)
(***************************************************************************)
THEOREM NoneLeft == Spec => []NoSandboxLeft
<1>1. Init => SandboxInv
  BY DEF Init, SandboxInv
<1>2. SandboxInv => NoSandboxLeft
  BY DEF SandboxInv, NoSandboxLeft
<1> QED
  BY <1>1, <1>2, NextSandboxInv, PTL DEF Spec

-----------------------------------------------------------------------------
(* Calling fn again *)

(* From a sandbox that was provisioned to the next call of fn, the current one
   is one fn has not run in. *)
FreshInv ==
  /\ ran \subseteq 1 .. boxes
  /\ pc = "provision" => ran = {}
  /\ pc \in {"start", "attach", "reattach", "remount"} => runtime \in 1 .. boxes
  /\ pc \in {"readBack", "onRecover"} => bound = runtime /\ bound \in 1 .. boxes
  /\ pc \in {"start", "attach", "reattach", "remount", "readBack", "onRecover"} => runtime \notin ran

(* A sandbox that is provisioned has a number fn has not run in. *)
LEMMA OneMore ==
  ASSUME SandboxInv, FreshInv
  PROVE  /\ boxes + 1 \in Nat /\ boxes + 1 \in 1 .. boxes + 1
         /\ boxes + 1 \notin ran
         /\ ran \subseteq 1 .. boxes + 1
  BY DEF SandboxInv, FreshInv

LEMMA NextFreshInv == SandboxInv /\ FreshInv /\ [Next]_vars => FreshInv'
<1> SUFFICES ASSUME SandboxInv, FreshInv, [Next]_vars
             PROVE  FreshInv'
  OBVIOUS
<1> USE DEF FreshInv, session, sandboxes
<1>1. CASE Main
  <2>1. CASE Provision
    <3>1. CASE Provisioned /\ pc' = "start"
      BY <2>1, <3>1, OneMore DEF Provision, Provisioned
    <3>2. CASE pc' = "done" /\ UNCHANGED <<sandboxes, runtime>>
      BY <2>1, <3>2 DEF Provision
    <3> QED
      BY <2>1, <3>1, <3>2 DEF Provision
  <2>2. CASE Start
    BY <2>2 DEF Start
  <2>3. CASE Attach
    BY <2>3 DEF Attach
  <2>4. CASE AttachFails
    BY <2>4 DEF AttachFails
  <2>5. CASE FnReturns
    BY <2>5 DEF FnReturns
  <2>6. CASE FnThrows
    BY <2>6 DEF FnThrows
  <2>7. CASE SaveEnds
    BY <2>7 DEF SaveEnds
  <2>8. CASE FailsForGood
    BY <2>8 DEF FailsForGood, SaveOnError
  <2>9. CASE StartRecovery
    BY <2>9 DEF StartRecovery
  <2>10. CASE RenewNow
    BY <2>10 DEF RenewNow
  <2>11. CASE NextAttempt
    BY <2>11 DEF NextAttempt, Destroy
  <2>12. CASE RecoveryAborted
    BY <2>12 DEF RecoveryAborted, SaveOnError
  <2>13. CASE Reprovision
    <3>1. CASE Provisioned /\ pc' = "reattach"
      BY <2>13, <3>1, OneMore DEF Reprovision, Provisioned
    <3>2. CASE pc' = "recover" /\ UNCHANGED <<sandboxes, runtime>>
      BY <2>13, <3>2 DEF Reprovision
    <3> QED
      BY <2>13, <3>1, <3>2 DEF Reprovision
  <2>14. CASE Reattach
    BY <2>14 DEF Reattach
  <2>15. CASE Remount
    BY <2>15 DEF Remount
  <2>16. CASE RemountFails
    BY <2>16 DEF RemountFails
  <2>17. CASE ReadBack
    BY <2>17 DEF ReadBack
  <2>18. CASE FnAgain
    BY <2>18 DEF FnAgain
  <2>19. CASE NotAgain
    BY <2>19 DEF NotAgain, SaveOnError
  <2>20. CASE ErrorSaveEnds
    BY <2>20 DEF ErrorSaveEnds
  <2>21. CASE Detach
    BY <2>21 DEF Detach
  <2>22. CASE Finalize
    BY <2>22 DEF Finalize, Destroy
  <2>23. CASE TouchEnds
    BY <2>23 DEF TouchEnds
  <2> QED
    BY <1>1, <2>1, <2>2, <2>3, <2>4, <2>5, <2>6, <2>7, <2>8, <2>9, <2>10, <2>11, <2>12, <2>13, <2>14, <2>15, <2>16, <2>17, <2>18, <2>19, <2>20, <2>21, <2>22, <2>23 DEF Main
<1>2. CASE Finalizer
  <2>1. CASE SignalSaved
    BY <2>1 DEF SignalSaved
  <2>2. CASE SignalDetach
    BY <2>2 DEF SignalDetach
  <2>3. CASE SignalTouched
    BY <2>3 DEF SignalTouched
  <2>4. CASE SignalDestroy
    BY <2>4 DEF SignalDestroy, Destroy
  <2>5. CASE Exit
    BY <2>5 DEF Exit
  <2> QED
    BY <1>2, <2>1, <2>2, <2>3, <2>4, <2>5 DEF Finalizer
<1>3. CASE Beats
  <2>1. CASE CheckpointTick
    BY <2>1 DEF CheckpointTick
  <2>2. CASE BeatOk
    BY <2>2 DEF BeatOk
  <2>3. CASE BeatFails
    BY <2>3 DEF BeatFails
  <2> QED
    BY <1>3, <2>1, <2>2, <2>3 DEF Beats
<1>4. CASE Environment
  <2>1. CASE Signal
    BY <2>1 DEF Signal
  <2>2. CASE SandboxDies
    BY <2>2 DEF SandboxDies
  <2>3. CASE Expire
    BY <2>3 DEF Expire
  <2>4. CASE OtherComes
    BY <2>4 DEF OtherComes
  <2>5. CASE OtherLeaves
    BY <2>5 DEF OtherLeaves
  <2> QED
    BY <1>4, <2>1, <2>2, <2>3, <2>4, <2>5 DEF Environment
<1>5. ASSUME NEW o \in Ops, Operate(o)
      PROVE  FreshInv'
  BY <1>5 DEF Operate
<1>6. CASE UNCHANGED vars
  BY <1>6 DEF vars
<1> QED
  BY <1>1, <1>2, <1>3, <1>4, <1>5, <1>6 DEF Next

(* fn is called by the attach and after a recovery, and by nothing else. *)
LEMMA CallStep ==
  ASSUME SandboxInv, FreshInv, [Next]_vars, pc # "fn", pc' = "fn"
  PROVE  bound' \notin ran /\ ran \subseteq destroyed
<1>1. CASE Attach
  BY <1>1 DEF Attach, FreshInv, SandboxInv
<1>2. CASE FnAgain
  BY <1>2 DEF FnAgain, FreshInv, SandboxInv, session
<1>3. Attach \/ FnAgain
  <2>1. CASE Main
    BY <2>1 DEF Main, Provision, Start, AttachFails, FnReturns, FnThrows, SaveEnds, SaveOnError,
         FailsForGood, StartRecovery, RenewNow, NextAttempt, RecoveryAborted, Reprovision, Reattach,
         Remount, RemountFails, ReadBack, NotAgain, ErrorSaveEnds, Detach, Finalize, TouchEnds
  <2>2. CASE Finalizer
    BY <2>2 DEF Finalizer, SignalSaved, SignalDetach, SignalTouched, SignalDestroy, Exit
  <2>3. CASE Beats \/ Environment
    BY <2>3 DEF Beats, CheckpointTick, BeatOk, BeatFails,
         Environment, Signal, SandboxDies, Expire, OtherComes, OtherLeaves
  <2>4. CASE \E o \in Ops : Operate(o)
    BY <2>4 DEF Operate
  <2>5. CASE UNCHANGED vars
    BY <2>5 DEF vars
  <2> QED
    BY <2>1, <2>2, <2>3, <2>4, <2>5 DEF Next
<1> QED
  BY <1>1, <1>2, <1>3

(***************************************************************************)
(* fn runs in one sandbox at a time (ReplayInFresh): whatever the probe    *)
(* said and however many attempts failed, it is called again only in a     *)
(* sandbox it never ran in, when the others were asked to be destroyed.    *)
(***************************************************************************)
THEOREM Fresh == Spec => ReplayInFresh
<1>1. Init => SandboxInv /\ FreshInv
  BY DEF Init, SandboxInv, FreshInv
<1>2. SandboxInv /\ FreshInv /\ [Next]_vars
        => [pc # "fn" /\ pc' = "fn" => bound' \notin ran /\ ran \subseteq destroyed]_vars
  BY CallStep
<1> QED
  BY <1>1, <1>2, NextSandboxInv, NextFreshInv, PTL DEF Spec, ReplayInFresh

-----------------------------------------------------------------------------
(* Types: everything but the queues *)

(* A recovery provisions one sandbox per attempt, and from then on there is *)
(* a sandbox; where fn is called again there is a mount.                   *)
Numbers ==
  /\ lease \in Leases /\ pc \in PCs /\ sig \in Sigs
  /\ attempts \in 0 .. MaxAttempts /\ adopted \in BOOLEAN
  /\ boxes \in Nat /\ boxes <= attempts + 1
  /\ pc = "reprovision" => boxes <= attempts
  /\ pc = "provision" => boxes = 0
  /\ alive \subseteq Boxes /\ destroyed \subseteq Boxes /\ ran \subseteq Boxes
  /\ runtime \in 0 .. boxes /\ bound \in 0 .. boxes
  /\ pc \notin {"provision", "done"} => runtime # 0
  /\ sig # "none" => runtime # 0
  /\ pc \in {"readBack", "onRecover"} => bound # 0
  /\ timers \subseteq Timers
  /\ heart \in [failures: 0 .. Threshold, degraded: BOOLEAN]

LEMMA NextNumbers == Numbers /\ [Next]_vars => Numbers'
<1> SUFFICES ASSUME Numbers, [Next]_vars
             PROVE  Numbers'
  OBVIOUS
<1>0. /\ attempts \in Nat /\ boxes \in Nat /\ MaxAttempts \in Nat /\ Threshold \in Nat
      /\ heart.failures \in 0 .. Threshold /\ heart.degraded \in BOOLEAN
      /\ \A o \in Owners \cup {NoOwner}, b \in BOOLEAN : [owner |-> o, live |-> b] \in Leases
      /\ \A b \in BOOLEAN : [lease EXCEPT !.live = b] \in Leases
      /\ Healthy \in [failures: 0 .. Threshold, degraded: BOOLEAN]
  BY DEF Numbers, Leases, Healthy
<1>p. boxes <= attempts => boxes + 1 \in Boxes /\ 0 .. boxes \subseteq 0 .. boxes + 1
  BY <1>0 DEF Numbers, Boxes
<1>b. \A b \in Nat : b \in 0 .. boxes /\ b # 0 => b \in Boxes
  BY <1>0 DEF Numbers, Boxes
<1> USE DEF Numbers, session, sandboxes, PCs, Sigs, Timers
<1>1. CASE Main
  <2>1. CASE Provision
    <3>1. CASE Provisioned
      <4>1. boxes <= attempts
        BY <1>0, <2>1, <3>1 DEF Provision
      <4>2. /\ boxes' = boxes + 1 /\ boxes' \in Nat /\ boxes' <= attempts + 1
            /\ alive' \subseteq Boxes /\ destroyed' \subseteq Boxes /\ ran' \subseteq Boxes
            /\ runtime' \in 0 .. boxes' /\ runtime' # 0 /\ bound \in 0 .. boxes'
        BY <1>0, <1>p, <3>1, <4>1 DEF Provisioned
      <4> QED
        BY <1>0, <2>1, <3>1, <4>2 DEF Provision
    <3>2. CASE ~Provisioned
      BY <1>0, <2>1, <3>2 DEF Provision
    <3> QED
      BY <3>1, <3>2
  <2>2. CASE Start
    BY <1>0, <2>2 DEF Start, Grant
  <2>3. CASE Attach
    BY <1>0, <2>3 DEF Attach, Boxes
  <2>4. CASE AttachFails
    BY <1>0, <2>4 DEF AttachFails, Drop, NoLease
  <2>5. CASE FnReturns
    BY <1>0, <2>5 DEF FnReturns
  <2>6. CASE FnThrows
    BY <1>0, <2>6 DEF FnThrows
  <2>7. CASE SaveEnds
    BY <1>0, <2>7 DEF SaveEnds, TimersAtEnd
  <2>8. CASE FailsForGood
    BY <1>0, <2>8 DEF FailsForGood, SaveOnError
  <2>9. CASE StartRecovery
    BY <1>0, <2>9 DEF StartRecovery
  <2>10. CASE RenewNow
    BY <1>0, <2>10 DEF RenewNow, Extend
  <2>11. CASE NextAttempt
    BY <1>0, <2>11 DEF NextAttempt, Destroy, Boxes
  <2>12. CASE RecoveryAborted
    BY <1>0, <2>12 DEF RecoveryAborted, SaveOnError
  <2>13. CASE Reprovision
    <3>1. CASE Provisioned
      <4>1. boxes <= attempts
        BY <1>0, <2>13, <3>1 DEF Reprovision
      <4>2. /\ boxes' = boxes + 1 /\ boxes' \in Nat /\ boxes' <= attempts + 1
            /\ alive' \subseteq Boxes /\ destroyed' \subseteq Boxes /\ ran' \subseteq Boxes
            /\ runtime' \in 0 .. boxes' /\ runtime' # 0 /\ bound \in 0 .. boxes'
        BY <1>0, <1>p, <3>1, <4>1 DEF Provisioned
      <4> QED
        BY <1>0, <2>13, <3>1, <4>2 DEF Reprovision
    <3>2. CASE ~Provisioned
      BY <1>0, <2>13, <3>2 DEF Reprovision
    <3> QED
      BY <3>1, <3>2
  <2>14. CASE Reattach
    BY ZenonT(60), <1>0, <2>14 DEF Reattach, Grant
  <2>15. CASE Remount
    BY <1>0, <2>15 DEF Remount, Boxes
  <2>16. CASE RemountFails
    BY <1>0, <2>16 DEF RemountFails, Drop, NoLease
  <2>17. CASE ReadBack
    BY <1>0, <2>17 DEF ReadBack
  <2>18. CASE FnAgain
    BY <1>0, <2>18 DEF FnAgain, Boxes
  <2>19. CASE NotAgain
    BY <1>0, <2>19 DEF NotAgain, SaveOnError
  <2>20. CASE ErrorSaveEnds
    BY <1>0, <2>20 DEF ErrorSaveEnds, TimersAtEnd
  <2>21. CASE Detach
    BY <1>0, <2>21 DEF Detach, Detached, Drop, NoLease
  <2>22. CASE Finalize
    BY <1>0, <2>22 DEF Finalize, Destroy, Boxes
  <2>23. CASE TouchEnds
    BY <1>0, <2>23 DEF TouchEnds
  <2> QED
    BY <1>1, <2>1, <2>2, <2>3, <2>4, <2>5, <2>6, <2>7, <2>8, <2>9, <2>10, <2>11, <2>12, <2>13, <2>14, <2>15, <2>16, <2>17, <2>18, <2>19, <2>20, <2>21, <2>22, <2>23
    DEF Main
<1>2. CASE Finalizer
  <2>1. CASE SignalSaved
    BY <1>0, <2>1 DEF SignalSaved
  <2>2. CASE SignalDetach
    BY ZenonT(60), <1>0, <2>2 DEF SignalDetach, Detached, Drop, NoLease
  <2>3. CASE SignalTouched
    BY <1>0, <2>3 DEF SignalTouched
  <2>4. CASE SignalDestroy
    BY <1>0, <2>4 DEF SignalDestroy, Destroy, Boxes
  <2>5. CASE Exit
    BY <1>0, <2>5 DEF Exit
  <2> QED
    BY <1>2, <2>1, <2>2, <2>3, <2>4, <2>5
    DEF Finalizer
<1>3. CASE Beats
  <2>1. CASE CheckpointTick
    BY <1>0, <2>1 DEF CheckpointTick
  <2>2. CASE BeatOk
    BY ZenonT(60), <1>0, <2>2 DEF BeatOk, Extend
  <2>3. CASE BeatFails
    BY <1>0, <2>3 DEF BeatFails, Min2
  <2> QED
    BY <1>3, <2>1, <2>2, <2>3
    DEF Beats
<1>4. CASE Environment
  <2>1. CASE Signal
    BY <1>0, <2>1 DEF Signal
  <2>2. CASE SandboxDies
    BY <1>0, <2>2 DEF SandboxDies
  <2>3. CASE Expire
    <3>1. lease' \in Leases
      BY <1>0, <2>3 DEF Expire, Lapse, Numbers
    <3> QED
      BY <1>0, <2>3, <3>1 DEF Expire, Numbers, sandboxes, session
  <2>4. CASE OtherComes
    <3>1. lease' \in Leases
      BY <1>0, <2>4 DEF OtherComes, Grant, Numbers
    <3> QED
      BY <1>0, <2>4, <3>1 DEF OtherComes, Numbers, sandboxes, session
  <2>5. CASE OtherLeaves
    <3>1. lease' \in Leases
      BY <1>0, <2>5 DEF OtherLeaves, Drop, NoLease, Numbers
    <3> QED
      BY <1>0, <2>5, <3>1 DEF OtherLeaves, Numbers, sandboxes, session
  <2> QED
    BY <1>4, <2>1, <2>2, <2>3, <2>4, <2>5
    DEF Environment
<1>5. ASSUME NEW o \in Ops, Operate(o)
      PROVE  Numbers'
  BY <1>5 DEF Operate
<1>6. CASE UNCHANGED vars
  BY <1>6 DEF vars
<1> QED
  BY <1>1, <1>2, <1>3, <1>4, <1>5, <1>6 DEF Next

-----------------------------------------------------------------------------
(* The queues *)

Under(s) == s.pc \in {"queued", "works", "stale"}

(* The queue of a mount names the operations that wait or work on it, each *)
(* once; who works is at its head.                                         *)
QueueSound(q, m) ==
  /\ \A i \in 1 .. Len(q) : Under(ops[<<q[i], m>>])
  /\ \A i, j \in 1 .. Len(q) : q[i] = q[j] => i = j
  /\ \A k \in Kinds : Under(ops[<<k, m>>]) => \E i \in 1 .. Len(q) : q[i] = k
  /\ \A k \in Kinds : AtWork(<<k, m>>) => q[1] = k

Lined ==
  /\ queue \in [Boxes -> Seq(Kinds)]
  /\ ops \in [Ops -> Steps]
  /\ \A m \in Boxes : QueueSound(queue[m], m)
  /\ \A o \in Ops : Under(ops[o]) => o[2] <= boxes

(* Where the main flow and the finalizer wait for what they have queued.   *)
Waits ==
  /\ \A m \in Boxes : Under(ops[<<"save", m>>]) => pc \in {"save", "errorSave"} /\ m = bound
  /\ \A m \in Boxes : Under(ops[<<"touch", m>>]) => pc = "touch" /\ m = bound
  /\ \A m \in Boxes : Under(ops[<<"signal", m>>]) => sig # "none"
  /\ \A m \in Boxes : Under(ops[<<"signalTouch", m>>]) => sig \notin {"none", "save", "detach"}

LEMMA OpPairs ==
  /\ \A o \in Ops : o[1] \in Kinds /\ o[2] \in Boxes /\ o = <<o[1], o[2]>>
  /\ \A k \in Kinds, m \in Boxes : <<k, m>> \in Ops
  BY DEF Ops

(* A new operation goes to the end of the queue of the mount.              *)
LEMMA EnqueueKeeps ==
  ASSUME Numbers, Lined, boxes' = boxes, NEW kind \in Kinds, Enqueue(kind),
         bound \in Boxes => ~Under(ops[<<kind, bound>>])
  PROVE  /\ Lined'
         /\ \A o \in Ops : Under(ops'[o]) <=> Under(ops[o]) \/ o = <<kind, bound>>
<1>1. CASE bound \notin Boxes
  <2>1. <<kind, bound>> \notin Ops
    BY <1>1 DEF Ops
  <2>2. queue' = queue /\ ops' = ops
    BY <1>1, <2>1 DEF Enqueue, Lined
  <2> QED
    BY <2>1, <2>2 DEF Lined, QueueSound, AtWork
<1>2. CASE bound \in Boxes
  <2> DEFINE new == [NotUnderWay EXCEPT !.pc = "queued"]
  <2>1. new \in Steps /\ new.pc = "queued"
    BY DEF NotUnderWay, Steps
  <2>2. /\ queue' = [queue EXCEPT ![bound] = Append(@, kind)]
        /\ ops' = [ops EXCEPT ![<<kind, bound>>] = new]
    BY DEF Enqueue
  <2> HIDE DEF new
  <2>3. <<kind, bound>> \in Ops /\ ops \in [Ops -> Steps] /\ queue \in [Boxes -> Seq(Kinds)]
    BY <1>2 DEF Ops, Lined
  <2>4. queue' \in [Boxes -> Seq(Kinds)] /\ ops' \in [Ops -> Steps]
    BY <1>2, <2>1, <2>2, <2>3
  <2>5. ops'[<<kind, bound>>] = new /\ \A o \in Ops : o # <<kind, bound>> => ops'[o] = ops[o]
    BY <2>2, <2>3
  <2>6. \A o \in Ops : Under(ops'[o]) <=> Under(ops[o]) \/ o = <<kind, bound>>
    BY <2>1, <2>3, <2>5 DEF Under
  <2>7. ASSUME NEW m \in Boxes
        PROVE  QueueSound(queue[m], m)'
    <3>1. QueueSound(queue[m], m)
      BY DEF Lined
    <3>2. CASE m # bound
      <4>1. queue'[m] = queue[m] /\ \A k \in Kinds : ops'[<<k, m>>] = ops[<<k, m>>]
        BY <2>2, <2>3, <2>5, <3>2, OpPairs
      <4>2. \A i \in 1 .. Len(queue[m]) : queue[m][i] \in Kinds
        BY <2>3
      <4> QED
        BY <3>1, <4>1, <4>2 DEF QueueSound, AtWork
    <3>3. CASE m = bound
      <4> DEFINE q == queue[m]
                 r == queue'[m]
      <4>1. q \in Seq(Kinds) /\ r = Append(q, kind) /\ r \in Seq(Kinds)
        BY <2>2, <2>3, <3>3
      <4> HIDE DEF q, r
      <4>2. /\ Len(q) \in Nat /\ Len(r) = Len(q) + 1
            /\ \A i \in 1 .. Len(q) : r[i] = q[i] /\ q[i] \in Kinds
            /\ r[Len(q) + 1] = kind
        BY <4>1
      <4>3. QueueSound(q, m)
        BY <3>1 DEF q
      <4>4. \A i \in 1 .. Len(q) : q[i] # kind
        BY <1>2, <3>3, <4>3 DEF QueueSound
      <4>5. \A k \in Kinds : k # kind => ops'[<<k, m>>] = ops[<<k, m>>]
        BY <2>5, <3>3, OpPairs
      <4>6. Under(ops'[<<kind, m>>]) /\ ~AtWork(<<kind, m>>)'
        BY <2>1, <2>5, <3>3 DEF Under, AtWork
      <4>7. \A i \in 1 .. Len(r) : Under(ops'[<<r[i], m>>])
        <5>1. ASSUME NEW i \in 1 .. Len(q)
              PROVE  Under(ops'[<<r[i], m>>])
          BY <4>2, <4>3, <4>4, <4>5, <5>1 DEF QueueSound
        <5>2. ASSUME NEW i \in 1 .. Len(r), i \notin 1 .. Len(q)
              PROVE  Under(ops'[<<r[i], m>>])
          BY <4>2, <4>6, <5>2
        <5> QED
          BY <5>1, <5>2
      <4>8. ASSUME NEW i \in 1 .. Len(r), NEW j \in 1 .. Len(r), r[i] = r[j]
            PROVE  i = j
        <5>1. CASE i \in 1 .. Len(q) /\ j \in 1 .. Len(q)
          BY <4>2, <4>3, <4>8, <5>1 DEF QueueSound
        <5>2. CASE i = Len(q) + 1 \/ j = Len(q) + 1
          BY <4>2, <4>4, <4>8, <5>2
        <5> QED
          BY <4>2, <5>1, <5>2
      <4>9. ASSUME NEW k \in Kinds, Under(ops'[<<k, m>>])
            PROVE  \E i \in 1 .. Len(r) : r[i] = k
        <5>1. CASE k = kind
          BY <4>2, <5>1
        <5>2. CASE k # kind
          <6>1. PICK i \in 1 .. Len(q) : q[i] = k
            BY <4>3, <4>5, <4>9, <5>2 DEF QueueSound
          <6>2. i \in 1 .. Len(r) /\ r[i] = k
            BY <4>2, <6>1
          <6> QED
            BY <6>2
        <5> QED
          BY <5>1, <5>2
      <4>10. ASSUME NEW k \in Kinds, AtWork(<<k, m>>)'
             PROVE  r[1] = k
        <5>1. k # kind
          BY <4>6, <4>10
        <5>2. AtWork(<<k, m>>) /\ Under(ops[<<k, m>>])
          BY <4>5, <4>10, <5>1 DEF AtWork, Under
        <5>3. q[1] = k /\ \E i \in 1 .. Len(q) : q[i] = k
          BY <4>3, <5>2 DEF QueueSound
        <5>4. 1 \in 1 .. Len(q)
          BY <4>2, <5>3
        <5> QED
          BY <4>2, <5>3, <5>4
      <4> QED
        BY <4>7, <4>8, <4>9, <4>10 DEF QueueSound, r
    <3> QED
      BY <3>2, <3>3
  <2>8. \A o \in Ops : Under(ops'[o]) => o[2] <= boxes'
    BY <2>6 DEF Lined, Numbers
  <2> QED
    BY <2>4, <2>6, <2>7, <2>8 DEF Lined
<1> QED
  BY <1>1, <1>2 DEF Numbers

(* Who is at work or may start is at the head.                             *)
LEMMA AtHead ==
  ASSUME Lined, NEW o \in Ops, Starts(o) \/ AtWork(o)
  PROVE  /\ Len(queue[o[2]]) # 0 /\ queue[o[2]][1] = o[1]
         /\ queue[o[2]] \in Seq(Kinds) /\ Under(ops[o])
<1>1. Under(ops[o])
  BY DEF Starts, AtWork, Under
<1>2. queue[o[2]] \in Seq(Kinds) /\ QueueSound(queue[o[2]], o[2])
  BY OpPairs DEF Lined
<1>3. PICK i \in 1 .. Len(queue[o[2]]) : queue[o[2]][i] = o[1]
  BY <1>1, <1>2, OpPairs DEF QueueSound
<1>4. Len(queue[o[2]]) # 0
  BY <1>2, <1>3
<1>5. queue[o[2]][1] = o[1]
  BY <1>2, <1>4, OpPairs DEF Starts, QueueSound
<1> QED
  BY <1>1, <1>2, <1>4, <1>5

(* The operation at the head is over; the others are where they were.      *)
LEMMA DequeueKeeps ==
  ASSUME Lined, boxes' = boxes, NEW o \in Ops, Starts(o) \/ AtWork(o),
         queue' = [queue EXCEPT ![o[2]] = Tail(@)],
         ops' \in [Ops -> Steps], ~Under(ops'[o]),
         \A p \in Ops : p # o => /\ Under(ops'[p]) <=> Under(ops[p])
                                 /\ AtWork(p)' <=> AtWork(p)
  PROVE  Lined' /\ \A p \in Ops : Under(ops'[p]) => Under(ops[p])
<1>1. /\ o[2] \in Boxes /\ o[1] \in Kinds /\ o = <<o[1], o[2]>>
      /\ Len(queue[o[2]]) # 0 /\ queue[o[2]][1] = o[1] /\ queue[o[2]] \in Seq(Kinds)
  BY AtHead, OpPairs
<1>2. \A p \in Ops : Under(ops'[p]) => Under(ops[p])
  OBVIOUS
<1>3. queue' \in [Boxes -> Seq(Kinds)]
  BY <1>1 DEF Lined
<1>4. ASSUME NEW m \in Boxes
      PROVE  QueueSound(queue[m], m)'
  <2>1. QueueSound(queue[m], m) /\ queue[m] \in Seq(Kinds)
    BY DEF Lined
  <2>2. CASE m # o[2]
    <3>1. queue'[m] = queue[m]
      BY <2>2 DEF Lined
    <3>2. \A k \in Kinds : /\ Under(ops'[<<k, m>>]) <=> Under(ops[<<k, m>>])
                           /\ AtWork(<<k, m>>)' <=> AtWork(<<k, m>>)
      BY <1>1, <2>2, OpPairs
    <3>3. \A i \in 1 .. Len(queue[m]) : queue[m][i] \in Kinds
      BY <2>1
    <3>4. \A i \in 1 .. Len(queue[m]) : Under(ops'[<<queue[m][i], m>>])
      BY <2>1, <3>2, <3>3 DEF QueueSound
    <3>5. \A k \in Kinds : Under(ops'[<<k, m>>]) => \E i \in 1 .. Len(queue[m]) : queue[m][i] = k
      BY <2>1, <3>2 DEF QueueSound
    <3>6. \A k \in Kinds : AtWork(<<k, m>>)' => queue[m][1] = k
      BY <2>1, <3>2 DEF QueueSound
    <3> QED
      BY ZenonT(60), <2>1, <3>1, <3>4, <3>5, <3>6 DEF QueueSound
  <2>3. CASE m = o[2]
    <3> DEFINE q == queue[m]
               r == queue'[m]
    <3>1. q \in Seq(Kinds) /\ r = Tail(q) /\ Len(q) # 0 /\ q[1] = o[1]
      BY <1>1, <2>1, <2>3 DEF Lined
    <3>2. QueueSound(q, m)
      BY <2>1
    <3> HIDE DEF q, r
    <3>3. /\ Len(q) \in Nat /\ Len(r) = Len(q) - 1
          /\ \A i \in 1 .. Len(r) : r[i] = q[i + 1] /\ r[i] \in Kinds
                                    /\ i + 1 \in 1 .. Len(q) /\ 1 \in 1 .. Len(q)
      BY <3>1
    <3>4. \A i \in 1 .. Len(r) : r[i] # o[1]
      BY <3>1, <3>2, <3>3 DEF QueueSound
    <3>5. \A k \in Kinds : k # o[1] =>
            /\ Under(ops'[<<k, m>>]) <=> Under(ops[<<k, m>>])
            /\ AtWork(<<k, m>>)' <=> AtWork(<<k, m>>)
      BY <1>1, <2>3, OpPairs
    <3>6. ~Under(ops'[<<o[1], m>>]) /\ ~AtWork(<<o[1], m>>)'
      BY <1>1, <2>3 DEF Under, AtWork
    <3>7. ASSUME NEW i \in 1 .. Len(r)
          PROVE  Under(ops'[<<r[i], m>>])
      <4>1. Under(ops[<<q[i + 1], m>>])
        BY <3>2, <3>3 DEF QueueSound
      <4>2. r[i] = q[i + 1] /\ r[i] \in Kinds /\ r[i] # o[1]
        BY <3>3, <3>4
      <4> QED
        BY <3>5, <4>1, <4>2
    <3>8. ASSUME NEW i \in 1 .. Len(r), NEW j \in 1 .. Len(r), r[i] = r[j]
          PROVE  i = j
      BY <3>2, <3>3, <3>8 DEF QueueSound
    <3>9. ASSUME NEW k \in Kinds, Under(ops'[<<k, m>>])
          PROVE  \E i \in 1 .. Len(r) : r[i] = k
      <4>1. k # o[1]
        BY <3>6, <3>9
      <4>2. PICK i \in 1 .. Len(q) : q[i] = k
        BY <3>2, <3>5, <3>9, <4>1 DEF QueueSound
      <4>3. i # 1
        BY <3>1, <4>1, <4>2
      <4>4. i - 1 \in 1 .. Len(r) /\ r[i - 1] = k
        BY <3>3, <4>2, <4>3
      <4> QED
        BY <4>4
    <3>10. ASSUME NEW k \in Kinds, AtWork(<<k, m>>)'
           PROVE  r[1] = k
      BY <3>1, <3>2, <3>5, <3>6, <3>10 DEF QueueSound
    <3> QED
      BY <3>7, <3>8, <3>9, <3>10 DEF QueueSound, r
  <2> QED
    BY <2>2, <2>3
<1> QED
  BY <1>2, <1>3, <1>4 DEF Lined

(* Who waits stays in line, and who is at the head goes to work.           *)
LEMMA MoveKeeps ==
  ASSUME Lined, boxes' \in Nat, boxes \in Nat, boxes <= boxes', queue' = queue, ops' \in [Ops -> Steps],
         \A p \in Ops : /\ Under(ops'[p]) <=> Under(ops[p])
                        /\ AtWork(p)' => AtWork(p) \/ Starts(p)
  PROVE  Lined'
<1>1. ASSUME NEW m \in Boxes
      PROVE  QueueSound(queue[m], m)'
  <2>1. QueueSound(queue[m], m) /\ queue[m] \in Seq(Kinds)
    BY DEF Lined
  <2>2. \A i \in 1 .. Len(queue[m]) : queue[m][i] \in Kinds
    BY <2>1
  <2>3. \A k \in Kinds : Under(ops'[<<k, m>>]) <=> Under(ops[<<k, m>>])
    BY OpPairs
  <2>4. ASSUME NEW k \in Kinds, AtWork(<<k, m>>)'
        PROVE  queue[m][1] = k
    <3>1. <<k, m>> \in Ops /\ <<k, m>>[1] = k /\ <<k, m>>[2] = m
      BY OpPairs
    <3>2. AtWork(<<k, m>>) \/ Starts(<<k, m>>)
      BY <2>4, <3>1
    <3> QED
      BY <3>1, <3>2, AtHead
  <2> QED
    BY <2>1, <2>2, <2>3, <2>4 DEF QueueSound
<1>2. \A p \in Ops : Under(ops'[p]) => p[2] <= boxes'
  BY OpPairs DEF Lined, Boxes
<1> QED
  BY <1>1, <1>2 DEF Lined

LEMMA NoticedKeeps ==
  ASSUME Lined, boxes' = boxes, boxes \in Nat, NEW kind \in Kinds, NEW m \in Boxes,
         Ended(kind, m), Noticed(kind, m)
  PROVE  Lined' /\ \A p \in Ops : Under(ops'[p]) <=> Under(ops[p])
<1>1. NotUnderWay \in Steps /\ NotUnderWay.pc = "none"
  BY DEF NotUnderWay, Steps
<1>2. queue' = queue /\ ops' \in [Ops -> Steps]
  BY <1>1 DEF Noticed, Lined
<1>3. <<kind, m>> \in Ops /\ ~Under(ops[<<kind, m>>])
  BY OpPairs DEF Ended, Outcome, Under
<1>4. ops'[<<kind, m>>] = NotUnderWay /\ \A p \in Ops : p # <<kind, m>> => ops'[p] = ops[p]
  BY <1>3 DEF Noticed, Lined
<1>5. \A p \in Ops : /\ Under(ops'[p]) <=> Under(ops[p])
                     /\ AtWork(p)' => AtWork(p) \/ Starts(p)
  BY <1>1, <1>3, <1>4 DEF Under, AtWork
<1> QED
  BY <1>2, <1>5, MoveKeeps

(* The steps of the operations themselves.                                 *)
LEMMA OperateKeeps ==
  ASSUME Numbers, Lined, NEW o \in Ops, Operate(o)
  PROVE  Lined' /\ \A p \in Ops : Under(ops'[p]) => Under(ops[p])
<1>0. /\ boxes' = boxes /\ boxes \in Nat /\ ops \in [Ops -> Steps]
      /\ bound \in Boxes \cup {0}
  BY DEF Operate, sandboxes, Lined, Numbers, Boxes
<1>1. ASSUME NEW outcome \in {"ok", "failed"}, Settled(o, outcome), Starts(o) \/ AtWork(o)
      PROVE  Lined' /\ \A p \in Ops : Under(ops'[p]) => Under(ops[p])
  <2> DEFINE e == [NotUnderWay EXCEPT !.pc = IF o[1] \in Awaited THEN outcome ELSE "none"]
  <2>1. e \in Steps /\ ~Under(e)
    BY DEF NotUnderWay, Steps, Under
  <2>2. ops' = [ops EXCEPT ![o] = e] /\ queue' = [queue EXCEPT ![o[2]] = Tail(@)]
    BY <1>1 DEF Settled
  <2> HIDE DEF e
  <2>3. ops' \in [Ops -> Steps] /\ ops'[o] = e /\ \A p \in Ops : p # o => ops'[p] = ops[p]
    BY <1>0, <2>1, <2>2
  <2>4. \A p \in Ops : p # o => (Under(ops'[p]) <=> Under(ops[p])) /\ (AtWork(p)' <=> AtWork(p))
    BY <2>3 DEF AtWork
  <2> QED
    BY <1>0, <1>1, <2>1, <2>2, <2>3, <2>4, DequeueKeeps
<1>2. ASSUME Committed(o), Starts(o) \/ AtWork(o)
      PROVE  Lined' /\ \A p \in Ops : Under(ops'[p]) => Under(ops[p])
  <2> DEFINE e == [NotUnderWay EXCEPT !.pc = IF o[1] \in Awaited THEN "ok" ELSE "none"]
             old(p) == [ops[p] EXCEPT !.pc = IF @ = "works" THEN "stale" ELSE @]
  <2>1. e \in Steps /\ ~Under(e)
    BY DEF NotUnderWay, Steps, Under
  <2>2. ASSUME NEW p \in Ops
        PROVE  /\ old(p) \in Steps /\ (Under(old(p)) <=> Under(ops[p]))
               /\ (old(p).pc \in {"works", "stale"} <=> ops[p].pc \in {"works", "stale"})
    <3>1. ops[p] \in Steps
      BY <1>0
    <3> QED
      BY <3>1 DEF Steps, Under
  <2>3. /\ ops' = [p \in Ops |-> IF p = o THEN e ELSE old(p)]
        /\ queue' = [queue EXCEPT ![o[2]] = Tail(@)]
    BY <1>2 DEF Committed
  <2> HIDE DEF e, old
  <2>4. ops' \in [Ops -> Steps] /\ ops'[o] = e /\ \A p \in Ops : p # o => ops'[p] = old(p)
    BY <2>1, <2>2, <2>3
  <2>5. \A p \in Ops : p # o => (Under(ops'[p]) <=> Under(ops[p])) /\ (AtWork(p)' <=> AtWork(p))
    BY <2>2, <2>4 DEF AtWork
  <2> QED
    BY <1>0, <1>2, <2>1, <2>3, <2>4, <2>5, DequeueKeeps
<1>3. CASE Begin(o)
  <2> DEFINE b == [pc |-> "works", box |-> bound]
  <2>1. b \in Steps /\ b.pc = "works"
    BY <1>0 DEF Steps
  <2>2. ops' = [ops EXCEPT ![o] = b] /\ queue' = queue /\ Starts(o)
    BY <1>3 DEF Begin
  <2> HIDE DEF b
  <2>3. ops' \in [Ops -> Steps] /\ ops'[o] = b /\ \A p \in Ops : p # o => ops'[p] = ops[p]
    BY <1>0, <2>1, <2>2
  <2>4. \A p \in Ops : (Under(ops'[p]) <=> Under(ops[p])) /\ (AtWork(p)' => AtWork(p) \/ Starts(p))
    BY <2>1, <2>2, <2>3 DEF AtWork, Under, Starts
  <2> QED
    BY <1>0, <2>2, <2>3, <2>4, MoveKeeps
<1>4. CASE BeginRefused(o)
  BY <1>1, <1>4 DEF BeginRefused
<1>5. CASE Commit(o)
  BY <1>2, <1>5 DEF Commit, AtWork
<1>6. CASE WorkFails(o)
  BY <1>1, <1>6 DEF WorkFails, AtWork
<1>7. CASE Touch(o)
  BY <1>1, <1>2, <1>7 DEF Touch
<1> QED
  BY <1>3, <1>4, <1>5, <1>6, <1>7 DEF Operate

RunInv == Numbers /\ Lined /\ Waits

LEMMA NextRunInv == RunInv /\ [Next]_vars => RunInv'
<1> SUFFICES ASSUME RunInv, [Next]_vars
             PROVE  Lined' /\ Waits'
  BY NextNumbers DEF RunInv
<1>0. /\ Numbers /\ Lined /\ Waits /\ Numbers'
      /\ boxes \in Nat /\ boxes' \in Nat /\ ops \in [Ops -> Steps] /\ bound \in 0 .. boxes
      /\ \A k \in Kinds, m \in Boxes : <<k, m>> \in Ops
  BY NextNumbers, OpPairs DEF RunInv, Numbers, Lined
<1> USE DEF Kinds
(* Nothing happens to the queues.                                          *)
<1>a. ASSUME UNCHANGED <<queue, ops>>, boxes <= boxes'
      PROVE  Lined'
  <2>1. \A p \in Ops : (Under(ops'[p]) <=> Under(ops[p])) /\ (AtWork(p)' => AtWork(p) \/ Starts(p))
    BY <1>a DEF AtWork
  <2>2. queue' = queue /\ ops' \in [Ops -> Steps]
    BY <1>0, <1>a
  <2> QED
    BY <1>0, <1>a, <2>1, <2>2, MoveKeeps
(* Something is queued while nobody is notified of anything.               *)
<1>b. ASSUME NEW kind \in Kinds, Enqueue(kind), boxes' = boxes,
             bound \in Boxes => ~Under(ops[<<kind, bound>>])
      PROVE  /\ Lined'
             /\ \A m \in Boxes, k \in Kinds :
                  Under(ops'[<<k, m>>]) => Under(ops[<<k, m>>]) \/ (k = kind /\ m = bound)
  BY <1>0, <1>b, EnqueueKeeps
<1>c. ASSUME NEW kind \in Kinds, NEW m \in Boxes, Ended(kind, m), Noticed(kind, m), boxes' = boxes
      PROVE  /\ Lined'
             /\ \A n \in Boxes, k \in Kinds : Under(ops'[<<k, n>>]) <=> Under(ops[<<k, n>>])
             /\ ~Under(ops[<<kind, m>>])
  <2>1. ~Under(ops[<<kind, m>>])
    BY <1>c DEF Ended, Outcome, Under
  <2> QED
    BY <1>0, <1>c, <2>1, NoticedKeeps
<1>1. CASE Main
  <2>1. CASE Provision
    BY <1>0, <1>a, <2>1 DEF Provision, Provisioned, sandboxes, session, Waits
  <2>2. CASE Start
    BY <1>0, <1>a, <2>2 DEF Start, sandboxes, session, Waits
  <2>3. CASE Attach
    <3>1. \A m \in Boxes : ~Under(ops[<<"save", m>>]) /\ ~Under(ops[<<"touch", m>>])
      BY <1>0, <2>3 DEF Attach, Waits
    <3> QED
      BY <1>0, <1>a, <2>3, <3>1 DEF Attach, Waits, sandboxes
  <2>4. CASE AttachFails
    BY <1>0, <1>a, <2>4 DEF AttachFails, sandboxes, session, Waits
  <2>5. CASE FnReturns
    <3>1. Enqueue("save") /\ boxes' = boxes
      BY <2>5 DEF FnReturns, sandboxes
    <3>2. bound \in Boxes => ~Under(ops[<<"save", bound>>])
      BY <1>0, <2>5 DEF FnReturns, Waits
    <3> QED
      BY <1>0, <1>b, <2>5, <3>1, <3>2 DEF FnReturns, Waits, session
  <2>6. CASE FnThrows
    BY <1>0, <1>a, <2>6 DEF FnThrows, sandboxes, session, Waits
  <2>7. CASE SaveEnds
    <3>1. /\ Ended("save", bound) /\ Noticed("save", bound) /\ boxes' = boxes
          /\ bound \in Boxes
      BY <1>0, <2>7 DEF SaveEnds, sandboxes, Ended, Boxes, Numbers
    <3> QED
      BY <1>0, <1>c, <2>7, <3>1 DEF SaveEnds, Waits, session
  <2>8. CASE FailsForGood
    <3>1. Enqueue("save") /\ boxes' = boxes
      BY <2>8 DEF FailsForGood, sandboxes, SaveOnError
    <3>2. bound \in Boxes => ~Under(ops[<<"save", bound>>])
      BY <1>0, <2>8 DEF FailsForGood, Waits, SaveOnError
    <3> QED
      BY <1>0, <1>b, <2>8, <3>1, <3>2 DEF FailsForGood, Waits, session, SaveOnError
  <2>9. CASE StartRecovery
    BY <1>0, <1>a, <2>9 DEF StartRecovery, sandboxes, session, Waits
  <2>10. CASE RenewNow
    BY <1>0, <1>a, <2>10 DEF RenewNow, sandboxes, session, Waits
  <2>11. CASE NextAttempt
    BY <1>0, <1>a, <2>11 DEF NextAttempt, Destroy, sandboxes, session, Waits
  <2>12. CASE RecoveryAborted
    <3>1. Enqueue("save") /\ boxes' = boxes
      BY <2>12 DEF RecoveryAborted, sandboxes, SaveOnError
    <3>2. bound \in Boxes => ~Under(ops[<<"save", bound>>])
      BY <1>0, <2>12 DEF RecoveryAborted, Waits, SaveOnError
    <3> QED
      BY <1>0, <1>b, <2>12, <3>1, <3>2 DEF RecoveryAborted, Waits, session, SaveOnError
  <2>13. CASE Reprovision
    BY <1>0, <1>a, <2>13 DEF Reprovision, Provisioned, sandboxes, session, Waits
  <2>14. CASE Reattach
    BY <1>0, <1>a, <2>14 DEF Reattach, sandboxes, session, Waits
  <2>15. CASE Remount
    <3>1. \A m \in Boxes : ~Under(ops[<<"save", m>>]) /\ ~Under(ops[<<"touch", m>>])
      BY <1>0, <2>15 DEF Remount, Waits
    <3> QED
      BY <1>0, <1>a, <2>15, <3>1 DEF Remount, Waits, sandboxes
  <2>16. CASE RemountFails
    BY <1>0, <1>a, <2>16 DEF RemountFails, sandboxes, session, Waits
  <2>17. CASE ReadBack
    BY <1>0, <1>a, <2>17 DEF ReadBack, sandboxes, session, Waits
  <2>18. CASE FnAgain
    BY <1>0, <1>a, <2>18 DEF FnAgain, sandboxes, session, Waits
  <2>19. CASE NotAgain
    <3>1. Enqueue("save") /\ boxes' = boxes
      BY <2>19 DEF NotAgain, sandboxes, SaveOnError
    <3>2. bound \in Boxes => ~Under(ops[<<"save", bound>>])
      BY <1>0, <2>19 DEF NotAgain, Waits, SaveOnError
    <3> QED
      BY <1>0, <1>b, <2>19, <3>1, <3>2 DEF NotAgain, Waits, session, SaveOnError
  <2>20. CASE ErrorSaveEnds
    <3>1. /\ Ended("save", bound) /\ Noticed("save", bound) /\ boxes' = boxes
          /\ bound \in Boxes
      BY <1>0, <2>20 DEF ErrorSaveEnds, sandboxes, Ended, Boxes, Numbers
    <3> QED
      BY <1>0, <1>c, <2>20, <3>1 DEF ErrorSaveEnds, Waits, session
  <2>21. CASE Detach
    BY <1>0, <1>a, <2>21 DEF Detach, sandboxes, session, Waits
  <2>22. CASE Finalize
    <3>1. CASE pc' = "touch" /\ Enqueue("touch")
      <4>1. boxes' = boxes /\ (bound \in Boxes => ~Under(ops[<<"touch", bound>>]))
        BY <1>0, <2>22, <3>1 DEF Finalize, Waits, sandboxes, Destroy
      <4> QED
        BY <1>0, <1>b, <2>22, <3>1, <4>1 DEF Finalize, Waits, session, Destroy
    <3>2. CASE UNCHANGED <<queue, ops>>
      BY <1>0, <1>a, <2>22, <3>2 DEF Finalize, Waits, sandboxes, session, Destroy
    <3> QED
      BY <2>22, <3>1, <3>2 DEF Finalize
  <2>23. CASE TouchEnds
    <3>1. /\ Ended("touch", bound) /\ Noticed("touch", bound) /\ boxes' = boxes
          /\ bound \in Boxes
      BY <1>0, <2>23 DEF TouchEnds, sandboxes, Ended, Boxes, Numbers
    <3> QED
      BY <1>0, <1>c, <2>23, <3>1 DEF TouchEnds, Waits, session
  <2> QED
    BY <1>1, <2>1, <2>2, <2>3, <2>4, <2>5, <2>6, <2>7, <2>8, <2>9, <2>10, <2>11, <2>12, <2>13, <2>14, <2>15, <2>16, <2>17, <2>18, <2>19, <2>20, <2>21, <2>22, <2>23
    DEF Main
<1>2. CASE Finalizer
  <2>1. CASE SignalSaved
    <3>1. PICK m \in Boxes : Ended("signal", m) /\ Noticed("signal", m)
      BY <2>1 DEF SignalSaved
    <3> QED
      BY <1>0, <1>c, <2>1, <3>1 DEF SignalSaved, Waits, session, sandboxes
  <2>2. CASE SignalDetach
    <3>1. CASE sig' = "touch" /\ Enqueue("signalTouch")
      <4>1. boxes' = boxes /\ (bound \in Boxes => ~Under(ops[<<"signalTouch", bound>>]))
        BY <1>0, <2>2, <3>1 DEF SignalDetach, Waits, sandboxes
      <4> QED
        BY <1>0, <1>b, <2>2, <3>1, <4>1 DEF SignalDetach, Waits, session
    <3>2. CASE UNCHANGED <<queue, ops>>
      BY <1>0, <1>a, <2>2, <3>2 DEF SignalDetach, Waits, sandboxes, session
    <3> QED
      BY <2>2, <3>1, <3>2 DEF SignalDetach
  <2>3. CASE SignalTouched
    <3>1. PICK m \in Boxes : Ended("signalTouch", m) /\ Noticed("signalTouch", m)
      BY <2>3 DEF SignalTouched
    <3> QED
      BY <1>0, <1>c, <2>3, <3>1 DEF SignalTouched, Waits, session, sandboxes
  <2>4. CASE SignalDestroy
    BY <1>0, <1>a, <2>4 DEF SignalDestroy, Destroy, sandboxes, session, Waits
  <2>5. CASE Exit
    <3>1. NotUnderWay \in Steps /\ NotUnderWay.pc = "none"
      BY DEF NotUnderWay, Steps
    <3>2. /\ ops' = [o \in Ops |-> NotUnderWay] /\ queue' = [m \in Boxes |-> << >>]
          /\ boxes' = boxes
      BY <2>5 DEF Exit, sandboxes
    <3>3. \A o \in Ops : ~Under(ops'[o]) /\ ~AtWork(o)'
      BY <3>1, <3>2 DEF Under, AtWork
    <3>4. ops' \in [Ops -> Steps] /\ queue' \in [Boxes -> Seq(Kinds)]
      BY <3>1, <3>2
    <3>5. \A m \in Boxes : 1 .. Len(queue'[m]) = {}
      BY <3>2
    <3>6. \A m \in Boxes, k \in Kinds : ~Under(ops'[<<k, m>>]) /\ ~AtWork(<<k, m>>)'
      BY <1>0, <3>3
    <3>7. ASSUME NEW m \in Boxes
          PROVE  QueueSound(queue[m], m)'
      <4>1. 1 .. Len(queue'[m]) = {} /\ \A k \in Kinds : ~Under(ops'[<<k, m>>]) /\ ~AtWork(<<k, m>>)'
        BY <3>5, <3>6
      <4> HIDE DEF Kinds
      <4> QED
        BY <4>1 DEF QueueSound
    <3> QED
      BY <1>0, <3>3, <3>4, <3>6, <3>7 DEF Lined, Waits
  <2> QED
    BY <1>2, <2>1, <2>2, <2>3, <2>4, <2>5
    DEF Finalizer
<1>3. CASE Beats
  <2>1. CASE CheckpointTick
    <3>1. Enqueue("checkpoint") /\ boxes' = boxes /\ ~Under(ops[<<"checkpoint", bound>>])
      BY <2>1 DEF CheckpointTick, sandboxes, MayCheckpoint, Outcome, Under
    <3> QED
      BY <1>0, <1>b, <2>1, <3>1 DEF CheckpointTick, Waits, session
  <2>2. CASE BeatOk
    BY <1>0, <1>a, <2>2 DEF BeatOk, sandboxes, session, Waits
  <2>3. CASE BeatFails
    <3>1. /\ (Enqueue("emergency") /\ MayCheckpoint("emergency")) \/ UNCHANGED <<queue, ops>>
          /\ UNCHANGED <<pc, sig, sandboxes, session>>
      BY <2>3 DEF BeatFails
    <3>2. CASE Enqueue("emergency") /\ MayCheckpoint("emergency")
      <4>1. ~Under(ops[<<"emergency", bound>>])
        BY <3>2 DEF MayCheckpoint, Outcome, Under
      <4> QED
        BY <1>0, <1>b, <3>1, <3>2, <4>1 DEF Waits, sandboxes, session
    <3>3. CASE UNCHANGED <<queue, ops>>
      BY <1>0, <1>a, <3>1, <3>3 DEF Waits, sandboxes, session
    <3> QED
      BY <3>1, <3>2, <3>3
  <2> QED
    BY <1>3, <2>1, <2>2, <2>3
    DEF Beats
<1>4. CASE Environment
  <2>1. CASE Signal
    <3>1. Enqueue("signal") /\ boxes' = boxes
      BY <2>1 DEF Signal, sandboxes
    <3>2. bound \in Boxes => ~Under(ops[<<"signal", bound>>])
      BY <1>0, <2>1 DEF Signal, Waits
    <3> QED
      BY <1>0, <1>b, <2>1, <3>1, <3>2 DEF Signal, Waits, session
  <2>2. CASE SandboxDies
    BY <1>0, <1>a, <2>2 DEF SandboxDies, sandboxes, session, Waits
  <2>3. CASE Expire
    BY <1>0, <1>a, <2>3 DEF Expire, sandboxes, session, Waits
  <2>4. CASE OtherComes
    BY <1>0, <1>a, <2>4 DEF OtherComes, sandboxes, session, Waits
  <2>5. CASE OtherLeaves
    BY <1>0, <1>a, <2>5 DEF OtherLeaves, sandboxes, session, Waits
  <2> QED
    BY <1>4, <2>1, <2>2, <2>3, <2>4, <2>5
    DEF Environment
<1>5. ASSUME NEW o \in Ops, Operate(o)
      PROVE  Lined' /\ Waits'
  <2>1. Lined' /\ \A p \in Ops : Under(ops'[p]) => Under(ops[p])
    BY <1>0, <1>5, OperateKeeps
  <2>2. UNCHANGED <<pc, sig, bound>>
    BY <1>5 DEF Operate, session
  <2> QED
    BY <1>0, <2>1, <2>2 DEF Waits
<1>6. CASE UNCHANGED vars
  BY <1>0, <1>a, <1>6 DEF vars, sandboxes, session, Waits
<1> QED
  BY <1>1, <1>2, <1>3, <1>4, <1>5, <1>6 DEF Next

LEMMA InitRunInv == Init => RunInv
<1> SUFFICES ASSUME Init PROVE RunInv
  OBVIOUS
<1>1. Numbers
  <2>1. lease \in Leases /\ heart \in [failures: 0 .. Threshold, degraded: BOOLEAN]
    BY DEF Init, LeaseInit, NoLease, Leases
  <2>2. /\ attempts = 0 /\ boxes = 0 /\ runtime = 0 /\ bound = 0 /\ adopted = FALSE
        /\ alive = {} /\ destroyed = {} /\ ran = {} /\ timers = {}
        /\ pc = "provision" /\ sig = "none"
    BY DEF Init
  <2>3. 0 \in 0 .. MaxAttempts /\ 0 \in 0 .. 0 /\ 0 <= 0 + 1
    OBVIOUS
  <2> QED
    BY <2>1, <2>2, <2>3 DEF Numbers, PCs, Sigs
<1>2. NotUnderWay \in Steps /\ ~Under(NotUnderWay) /\ NotUnderWay.pc = "none"
  BY DEF NotUnderWay, Steps, Under
<1>3. /\ queue = [m \in Boxes |-> << >>] /\ ops = [o \in Ops |-> NotUnderWay]
  BY DEF Init
<1>4. \A k \in Kinds, m \in Boxes : ops[<<k, m>>] = NotUnderWay
  BY <1>3, OpPairs
<1>5. \A m \in Boxes : queue[m] = << >> /\ queue[m] \in Seq(Kinds)
  BY <1>3
<1>6. \A m \in Boxes : QueueSound(queue[m], m)
  BY <1>2, <1>4, <1>5 DEF QueueSound, AtWork
<1>7. Lined
  BY <1>2, <1>3, <1>5, <1>6 DEF Lined
<1>8. Waits
  BY <1>2, <1>4 DEF Waits, Kinds
<1> QED
  BY <1>1, <1>7, <1>8 DEF RunInv

LEMMA RunInvKept == Spec => []RunInv
  BY InitRunInv, NextRunInv, PTL DEF Spec

(***************************************************************************)
(* Every variable keeps its type, for any number of recoveries and         *)
(* whatever is queued.                                                     *)
(***************************************************************************)
THEOREM TypesKept == Spec => []TypeOK
<1>1. RunInv => TypeOK
  BY DEF RunInv, Numbers, Lined, TypeOK
<1> QED
  BY <1>1, RunInvKept, PTL

(***************************************************************************)
(* The operations of a mount are serialised, and as long as nothing was    *)
(* recovered there is one mount (OneOperationPerMount): only a recovery    *)
(* makes two operations work in one sandbox.                               *)
(***************************************************************************)
THEOREM OneAtATime == Spec => []OneOperationPerMount
<1>1. ASSUME RunInv, NEW o \in Ops, NEW p \in Ops, o # p, AtWork(o), AtWork(p)
      PROVE  o[2] # p[2] /\ attempts > 0
  <2>1. /\ queue[o[2]][1] = o[1] /\ queue[p[2]][1] = p[1]
        /\ Under(ops[o]) /\ Under(ops[p])
    BY <1>1, AtHead DEF RunInv
  <2>2. o[2] # p[2]
    BY <1>1, <2>1, OpPairs
  <2>3. /\ o[2] <= boxes /\ p[2] <= boxes /\ o[2] \in Boxes /\ p[2] \in Boxes
        /\ boxes <= attempts + 1 /\ attempts \in Nat /\ boxes \in Nat
    BY <1>1, <2>1, OpPairs DEF RunInv, Lined, Numbers
  <2> QED
    BY <2>2, <2>3 DEF Boxes
<1>2. RunInv => OneOperationPerMount
  BY <1>1 DEF OneOperationPerMount
<1> QED
  BY <1>2, RunInvKept, PTL
=============================================================================
