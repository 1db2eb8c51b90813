---------------------------- MODULE ContextLock ----------------------------
(***************************************************************************)
(* The storage lock of one context (src/src/lock.ts): acquire, adopt, take *)
(* over, force, renew and release, each a read of the lock object followed *)
(* by a conditional or unconditional write that lands later.  Clients are  *)
(* the concurrent callers (a session's main flow, its renewal timer, its   *)
(* recovery driver, other processes); several clients may share an owner.  *)
(***************************************************************************)
EXTENDS Integers

CONSTANTS Clients,    \* concurrent callers of the lock functions
          Owners,     \* owner strings
          NoOwner,    \* the owner of an absent lock object
          OwnerOf,    \* the owner string each client passes
          Ttl,        \* ttlMs, in ticks
          AllowForce, \* TRUE when callers use force (--force-unlock, attach cleanup)
          LostAcks,   \* TRUE when a put may land and still be reported as failed
          Etags,      \* TRUE when the storage adapter returns etags
          MaxTime,    \* bound on the clock
          MaxRev      \* bound on the number of lock objects written

ASSUME LockAssumption ==
  /\ NoOwner \notin Owners
  /\ OwnerOf \in [Clients -> Owners]
  /\ Ttl \in Nat \ {0}
  /\ AllowForce \in BOOLEAN /\ LostAcks \in BOOLEAN /\ Etags \in BOOLEAN
  /\ MaxTime \in Nat /\ MaxRev \in Nat

VARIABLES now,     \* the clock the hosts share
          lock,    \* the lock object: owner, rev (its etag) and expiresAt
          nextRev, \* the next etag the storage hands out
          op,      \* what each client is doing
          lease,   \* history: per owner, the latest expiry it was told since it last released; 0: none
          cut,     \* history: the owners whose own acquisition wrote an earlier expiry than that
          broken   \* history: somebody overwrote or deleted another owner's lock unconditionally

vars == <<now, lock, nextRev, op, lease, cut, broken>>

LockObjects == [owner: Owners \cup {NoOwner}, rev: Nat, expiresAt: Nat]

NoLock == [owner |-> NoOwner, rev |-> 0, expiresAt |-> 0]

Ops == [pc: {"idle", "acquireRead", "acquirePut", "renewPut", "releaseDelete"},
        force: BOOLEAN, at: Nat, existing: LockObjects]

Idle == [pc |-> "idle", force |-> FALSE, at |-> 0, existing |-> NoLock]

Present(l) == l.owner # NoOwner

IsExpired(l, t) == l.expiresAt <= t

Init ==
  /\ now = 0
  /\ lock = NoLock
  /\ nextRev = 1
  /\ op = [c \in Clients |-> Idle]
  /\ lease = [o \in Owners |-> 0]
  /\ cut = {}
  /\ broken = FALSE

Done(c) == op' = [op EXCEPT ![c] = Idle]

(***************************************************************************)
(* A put of c lands: a new revision of the lock object, with c's owner.    *)
(* MUTANT WriteLockBackdated: the ttl is subtracted.                       *)
(***************************************************************************)
WriteLockBackdated(c, stamp) ==
  /\ nextRev <= MaxRev
  /\ lock' = [owner |-> OwnerOf[c], rev |-> nextRev, expiresAt |-> stamp - Ttl]
  /\ nextRev' = nextRev + 1

WriteLock(c, stamp) ==
  /\ nextRev <= MaxRev
  /\ lock' = [owner |-> OwnerOf[c], rev |-> nextRev, expiresAt |-> stamp + Ttl]
  /\ nextRev' = nextRev + 1

(* The caller is told that its owner has the lock until the given time; what
   others of the same owner were told before, they go by until it is over. *)
Told(o, until) == lease' = [lease EXCEPT ![o] = IF until > @ THEN until ELSE @]

(***************************************************************************)
(* ifMatch on the etag that was read: the object is still that revision.   *)
(* Without an etag adoption and renewal write unconditionally.             *)
(* MUTANT IfMatchPresent: the object need only exist.                      *)
(***************************************************************************)
IfMatchPresent(c) == Present(lock)

IfMatch(c) == Etags => lock.rev = op[c].existing.rev

-----------------------------------------------------------------------------
(* acquireLock *)

(* `now` is taken before the lock object is read. *)
AcquireStart(c, force) ==
  /\ op[c].pc = "idle"
  /\ force => AllowForce
  /\ op' = [op EXCEPT ![c] = [Idle EXCEPT !.pc = "acquireRead", !.force = force, !.at = now]]
  /\ UNCHANGED <<now, lock, nextRev, lease, cut, broken>>

(* A live lock of another owner refuses the acquisition. *)
AcquireRefused(c) ==
  /\ op[c].pc = "acquireRead"
  /\ Present(lock) /\ ~IsExpired(lock, op[c].at) /\ ~op[c].force
  /\ lock.owner # OwnerOf[c]
  /\ Done(c)
  /\ UNCHANGED <<now, lock, nextRev, lease, cut, broken>>

(* No lock, an expired one, one's own, or force: go on to the write. *)
AcquireRead(c) ==
  /\ op[c].pc = "acquireRead"
  /\ \/ ~Present(lock)
     \/ IsExpired(lock, op[c].at)
     \/ op[c].force
     \/ lock.owner = OwnerOf[c]
  /\ op' = [op EXCEPT ![c].pc = "acquirePut",
                        ![c].existing = IF op[c].force THEN NoLock ELSE lock]
  /\ UNCHANGED <<now, lock, nextRev, lease, cut, broken>>

(* MUTANT AcquireOverwrites: a fresh lock is put without ifNoneMatch. *)
AcquireOverwrites(c) ==
  LET existing == op[c].existing IN
  Present(existing) /\ ~op[c].force =>
    IfMatch(c) /\ (Etags \/ ~IsExpired(existing, op[c].at))

(* Forced, fresh (ifNoneMatch), adopting one's own unexpired lock, or taking
   an expired lock over, which needs an etag. *)
AcquireCondition(c) ==
  LET existing == op[c].existing IN
  \/ op[c].force
  \/ ~Present(existing) /\ ~Present(lock)
  \/ Present(existing) /\ IfMatch(c) /\ (Etags \/ ~IsExpired(existing, op[c].at))

(* In each case the same fields are written.  The stamp is older than the
   object that was read when another put of the same owner came between: the
   adoption then brings the expiry forward. *)
AcquirePut(c, acked) ==
  LET o == OwnerOf[c]  until == op[c].at + Ttl IN
  /\ op[c].pc = "acquirePut"
  /\ ~acked => LostAcks
  /\ AcquireCondition(c)
  /\ WriteLock(c, op[c].at)
  /\ IF acked THEN Told(o, until) ELSE UNCHANGED lease
  /\ cut' = IF lease[o] > until THEN cut \cup {o} ELSE cut \ {o}
  /\ broken' = (broken \/ (op[c].force /\ Present(lock) /\ lock.owner # OwnerOf[c]))
  /\ Done(c)
  /\ UNCHANGED now

AcquireLost(c) ==
  /\ op[c].pc = "acquirePut"
  /\ ~AcquireCondition(c)
  /\ Done(c)
  /\ UNCHANGED <<now, lock, nextRev, lease, cut, broken>>

-----------------------------------------------------------------------------
(* renewLock: refuses an absent or foreign lock, never looks at its expiry. *)

RenewRead(c) ==
  /\ op[c].pc = "idle"
  /\ lock.owner = OwnerOf[c]
  /\ op' = [op EXCEPT ![c] = [Idle EXCEPT !.pc = "renewPut", !.at = now, !.existing = lock]]
  /\ UNCHANGED <<now, lock, nextRev, lease, cut, broken>>

(* The stamp is taken at some moment between the read and the landing. *)
RenewPut(c, acked) ==
  /\ op[c].pc = "renewPut"
  /\ ~acked => LostAcks
  /\ IfMatch(c)
  /\ \E stamp \in op[c].at .. now :
       /\ WriteLock(c, stamp)
       /\ IF acked THEN Told(OwnerOf[c], stamp + Ttl) ELSE UNCHANGED lease
       /\ cut' = IF lease[OwnerOf[c]] > stamp + Ttl THEN cut ELSE cut \ {OwnerOf[c]}
  /\ Done(c)
  /\ UNCHANGED <<now, broken>>

RenewLost(c) ==
  /\ op[c].pc = "renewPut"
  /\ ~IfMatch(c)
  /\ Done(c)
  /\ UNCHANGED <<now, lock, nextRev, lease, cut, broken>>

-----------------------------------------------------------------------------
(* releaseLock: the owner check and the delete are two requests, and the
   delete carries no condition. *)

ReleaseRead(c, force) ==
  /\ op[c].pc = "idle"
  /\ force => AllowForce
  /\ Present(lock)
  /\ force \/ lock.owner = OwnerOf[c]
  /\ op' = [op EXCEPT ![c] = [Idle EXCEPT !.pc = "releaseDelete"]]
  /\ UNCHANGED <<now, lock, nextRev, lease, cut, broken>>

ReleaseDelete(c) ==
  /\ op[c].pc = "releaseDelete"
  /\ lock' = NoLock
  /\ lease' = [lease EXCEPT ![OwnerOf[c]] = 0]
  /\ cut' = cut \ {OwnerOf[c]}
  /\ broken' = (broken \/ (Present(lock) /\ lock.owner # OwnerOf[c]))
  /\ Done(c)
  /\ UNCHANGED <<now, nextRev>>

-----------------------------------------------------------------------------
(* A call that fails before it lands, or whose process dies; and time. *)

GiveUp(c) ==
  /\ op[c].pc # "idle"
  /\ Done(c)
  /\ UNCHANGED <<now, lock, nextRev, lease, cut, broken>>

Tick ==
  /\ now < MaxTime
  /\ now' = now + 1
  /\ UNCHANGED <<lock, nextRev, op, lease, cut, broken>>

Acquire(c) ==
  \/ \E force \in BOOLEAN : AcquireStart(c, force)
  \/ AcquireRefused(c) \/ AcquireRead(c) \/ AcquireLost(c)
  \/ \E acked \in BOOLEAN : AcquirePut(c, acked)

Renew(c) ==
  \/ RenewRead(c) \/ RenewLost(c)
  \/ \E acked \in BOOLEAN : RenewPut(c, acked)

Release(c) ==
  \/ \E force \in BOOLEAN : ReleaseRead(c, force)
  \/ ReleaseDelete(c)

Next ==
  \/ \E c \in Clients : Acquire(c) \/ Renew(c) \/ Release(c) \/ GiveUp(c)
  \/ Tick

Spec == Init /\ [][Next]_vars

-----------------------------------------------------------------------------
TypeOK ==
  /\ now \in Nat
  /\ lock \in LockObjects
  /\ nextRev \in Nat \ {0}
  /\ op \in [Clients -> Ops]
  /\ lease \in [Owners -> Nat]
  /\ cut \in SUBSET Owners
  /\ broken \in BOOLEAN

(***************************************************************************)
(* Two owners never hold the context at once: when acquisitions and        *)
(* renewals told each of two owners that it holds the lock and neither has *)
(* reached the latest expiry it was told, a forced write or the            *)
(* unconditional delete of releaseLock hit a lock of somebody else before, *)
(* or one of the two has itself brought its expiry forward, by adopting    *)
(* its lock with a stamp that another put of its own had overtaken.  It    *)
(* rests on every takeover and renewal replacing exactly the revision it   *)
(* read, however long the put takes to land and even when its answer is    *)
(* lost, and on no renewal bringing an expiry forward.                     *)
(***************************************************************************)
MutualExclusion ==
  \A o, p \in Owners :
    o # p /\ lease[o] > now /\ lease[p] > now => broken \/ o \in cut \/ p \in cut

(***************************************************************************)
(* The lock object is a lease register: it never passes from a live lease  *)
(* of one owner to another owner without a lapse or a deletion between,    *)
(* and is never extended but by its owner; only a forced put seizes it.    *)
(***************************************************************************)
LeaseView == [owner |-> lock.owner, live |-> Present(lock) /\ ~IsExpired(lock, now)]

Register == INSTANCE LeaseRegister WITH lease <- LeaseView

Seizes(c) ==
  /\ op[c].pc = "acquirePut" /\ op[c].force
  /\ \E live \in BOOLEAN : Register!Seize(OwnerOf[c], live)

ImplementsRegister ==
  /\ Register!LeaseInit
  /\ [][Register!LeaseNext \/ \E c \in Clients : Seizes(c)]_LeaseView
=============================================================================
