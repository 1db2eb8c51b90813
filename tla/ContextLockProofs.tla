------------------------- MODULE ContextLockProofs -------------------------
(***************************************************************************)
(* Proofs about ContextLock, for any number of callers and owners, any     *)
(* time to live and any clock.                                             *)
(***************************************************************************)
EXTENDS ContextLock, TLAPS

LEMMA InitTypeOK == Init => TypeOK
<1> SUFFICES ASSUME Init PROVE TypeOK
  OBVIOUS
<1>1. NoLock \in LockObjects /\ Idle \in Ops
  BY DEF NoLock, Idle, LockObjects, Ops
<1>2. now \in Nat /\ lock \in LockObjects /\ nextRev \in Nat \ {0}
  BY <1>1 DEF Init
<1>3. broken \in BOOLEAN
  BY DEF Init
<1>4. op \in [Clients -> Ops]
  BY <1>1 DEF Init
<1>5. lease \in [Owners -> Nat] /\ cut \in SUBSET Owners
  BY DEF Init
<1> QED
  BY <1>2, <1>3, <1>4, <1>5 DEF TypeOK

(* An acquisition that has read a lock is about to put. *)
LEMMA ReadKeepsType ==
  ASSUME NEW o \in Ops, NEW l \in LockObjects
  PROVE  [o EXCEPT !.pc = "acquirePut", !.existing = l] \in Ops
  BY DEF Ops

LEMMA NextTypeOK == TypeOK /\ [Next]_vars => TypeOK'
<1> USE LockAssumption DEF LockAssumption, TypeOK, LockObjects, Ops
<1>0. NoLock \in LockObjects /\ Idle \in Ops
  BY DEF NoLock, Idle
<1> SUFFICES ASSUME TypeOK, [Next]_vars
             PROVE  TypeOK'
  OBVIOUS
<1>1. ASSUME NEW c \in Clients, Acquire(c)
      PROVE  TypeOK'
  <2>1. ASSUME NEW force \in BOOLEAN, AcquireStart(c, force)
        PROVE  TypeOK'
    BY <2>1 DEF AcquireStart, Idle, NoLock
  <2>2. CASE AcquireRefused(c)
    BY <2>2 DEF AcquireRefused, Done, Idle, NoLock
  <2>3. CASE AcquireRead(c)
    <3> DEFINE existing == IF op[c].force THEN NoLock ELSE lock
               new == [op[c] EXCEPT !.pc = "acquirePut", !.existing = existing]
    <3>1. new \in Ops
      <4>1. existing \in LockObjects
        BY <1>0
      <4> HIDE DEF Ops, LockObjects, existing
      <4> QED
        BY <4>1, ReadKeepsType
    <3>2. op' = [op EXCEPT ![c] = new] /\ UNCHANGED <<now, lock, nextRev, lease, cut, broken>>
      BY <2>3 DEF AcquireRead
    <3> HIDE DEF new
    <3> QED
      BY <3>1, <3>2
  <2>4. CASE AcquireLost(c)
    BY <2>4 DEF AcquireLost, Done, Idle, NoLock
  <2>5. ASSUME NEW acked \in BOOLEAN, AcquirePut(c, acked)
        PROVE  TypeOK'
    BY <2>5 DEF AcquirePut, WriteLock, Told, Done, Idle, NoLock
  <2> QED
    BY <1>1, <2>1, <2>2, <2>3, <2>4, <2>5 DEF Acquire
<1>2. ASSUME NEW c \in Clients, Renew(c)
      PROVE  TypeOK'
  <2>1. CASE RenewRead(c)
    BY <2>1 DEF RenewRead, Idle, NoLock
  <2>2. CASE RenewLost(c)
    BY <2>2 DEF RenewLost, Done, Idle, NoLock
  <2>3. ASSUME NEW acked \in BOOLEAN, RenewPut(c, acked)
        PROVE  TypeOK'
    BY <2>3 DEF RenewPut, WriteLock, Told, Done, Idle, NoLock
  <2> QED
    BY <1>2, <2>1, <2>2, <2>3 DEF Renew
<1>3. ASSUME NEW c \in Clients, Release(c)
      PROVE  TypeOK'
  <2>1. ASSUME NEW force \in BOOLEAN, ReleaseRead(c, force)
        PROVE  TypeOK'
    BY <2>1 DEF ReleaseRead, Idle, NoLock
  <2>2. CASE ReleaseDelete(c)
    BY <1>0, <2>2 DEF ReleaseDelete, Done
  <2> QED
    BY <1>3, <2>1, <2>2 DEF Release
<1>4. ASSUME NEW c \in Clients, GiveUp(c)
      PROVE  TypeOK'
  BY <1>4 DEF GiveUp, Done, Idle, NoLock
<1>5. CASE Tick
  BY <1>5 DEF Tick
<1>6. CASE UNCHANGED vars
  BY <1>6 DEF vars
<1> QED
  BY <1>1, <1>2, <1>3, <1>4, <1>5, <1>6 DEF Next

(***************************************************************************)
(* The state of the lock object is always well formed, whatever the        *)
(* callers of acquireLock, renewLock and releaseLock do and however their  *)
(* requests interleave.                                                    *)
(***************************************************************************)
THEOREM TypeCorrect == Spec => []TypeOK
  BY InitTypeOK, NextTypeOK, PTL DEF Spec

-----------------------------------------------------------------------------
(***************************************************************************)
(* The inductive invariant behind mutual exclusion.                        *)
(***************************************************************************)

(* Etags are handed out once, and 0 stands for the absent object only. *)
RevisionsFresh ==
  /\ lock.rev < nextRev
  /\ lock.rev = 0 => lock = NoLock
  /\ Present(lock) <=> lock.rev # 0
  /\ \A c \in Clients :
       /\ op[c].existing.rev < nextRev
       /\ op[c].existing.rev = 0 => op[c].existing = NoLock
       /\ Present(op[c].existing) <=> op[c].existing.rev # 0

(* A lock object with the etag a caller read is the object it read. *)
RevisionsIdentify ==
  \A c \in Clients :
    op[c].pc \in {"acquirePut", "renewPut"} /\ lock.rev = op[c].existing.rev
      => lock = op[c].existing

(* What a caller has established when its write is in flight. *)
ReadsJustify ==
  \A c \in Clients :
    /\ op[c].at <= now
    /\ op[c].pc = "acquirePut" /\ ~op[c].force =>
         \/ ~Present(op[c].existing)
         \/ op[c].existing.expiresAt <= op[c].at
         \/ op[c].existing.owner = OwnerOf[c]
    /\ op[c].pc = "renewPut" =>
         /\ op[c].existing.owner = OwnerOf[c]
         /\ op[c].existing.expiresAt <= op[c].at + Ttl

(* An unexpired lease is backed by a lock object that lasts at least as long,
   unless its owner has itself brought the expiry forward. *)
LeasesBacked ==
  /\ lock.expiresAt <= now + Ttl
  /\ \A o \in Owners :
       lease[o] > now /\ ~broken /\ o \notin cut =>
         lock.owner = o /\ lock.expiresAt >= lease[o]

IInv == TypeOK /\ RevisionsFresh /\ RevisionsIdentify /\ ReadsJustify /\ LeasesBacked

USE LockAssumption DEF LockAssumption

LEMMA InitIInv == Init => IInv
<1> SUFFICES ASSUME Init PROVE IInv
  OBVIOUS
<1>1. TypeOK
  BY InitTypeOK
<1>2. RevisionsFresh /\ RevisionsIdentify /\ ReadsJustify
  BY DEF Init, RevisionsFresh, RevisionsIdentify, ReadsJustify, Present, NoLock, Idle
<1>3. LeasesBacked
  BY DEF Init, LeasesBacked, NoLock
<1> QED
  BY <1>1, <1>2, <1>3 DEF IInv

(***************************************************************************)
(* A step that leaves the store, the clock and the leases alone and only   *)
(* returns a caller to idle preserves the invariant: refused and lost      *)
(* acquisitions, lost renewals, failed calls.                              *)
(***************************************************************************)
LEMMA DonePreserves ==
  ASSUME IInv, TypeOK', NEW c \in Clients, Done(c),
         UNCHANGED <<now, lock, nextRev, lease, cut, broken>>
  PROVE  IInv'
<1> USE DEF IInv, Done
<1>1. op'[c] = Idle /\ \A d \in Clients : d # c => op'[d] = op[d]
  BY DEF TypeOK
<1>2. RevisionsFresh'
  BY <1>1 DEF RevisionsFresh, TypeOK, Idle, NoLock, Present
<1>3. RevisionsIdentify'
  BY <1>1 DEF RevisionsIdentify, TypeOK, Idle
<1>4. ReadsJustify'
  BY <1>1 DEF ReadsJustify, TypeOK, Idle, NoLock, Present
<1>5. LeasesBacked'
  BY DEF LeasesBacked
<1> QED
  BY <1>2, <1>3, <1>4, <1>5

(***************************************************************************)
(* A read, which puts a caller's write in flight with the object it saw    *)
(* and leaves the rest alone, preserves the invariant when what it saw     *)
(* justifies the write.                                                    *)
(***************************************************************************)
LEMMA ReadPreserves ==
  ASSUME IInv, TypeOK', NEW c \in Clients, NEW new \in Ops,
         op' = [op EXCEPT ![c] = new],
         UNCHANGED <<now, lock, nextRev, lease, cut, broken>>,
         new.existing \in {lock, NoLock},
         (new.pc = "acquirePut" /\ ~new.force) \/ new.pc = "renewPut" => new.existing = lock,
         new.at <= now,
         new.pc = "acquirePut" /\ ~new.force =>
           \/ ~Present(lock)
           \/ lock.expiresAt <= new.at
           \/ lock.owner = OwnerOf[c],
         new.pc = "renewPut" => lock.owner = OwnerOf[c] /\ lock.expiresAt <= new.at + Ttl
  PROVE  IInv'
<1> USE DEF IInv
<1>1. op'[c] = new /\ \A d \in Clients : d # c => op'[d] = op[d]
  BY DEF TypeOK
<1>2. RevisionsFresh'
  <2>1. new.existing.rev < nextRev
    BY DEF RevisionsFresh, TypeOK, NoLock
  <2>2. new.existing.rev = 0 => new.existing = NoLock
    BY DEF RevisionsFresh
  <2>3. Present(new.existing) <=> new.existing.rev # 0
    BY DEF RevisionsFresh, NoLock, Present
  <2> QED
    BY <1>1, <2>1, <2>2, <2>3 DEF RevisionsFresh
<1>3. RevisionsIdentify'
  <2>1. lock.rev = new.existing.rev => lock = new.existing
    BY DEF RevisionsFresh, NoLock
  <2> QED
    BY <1>1, <2>1 DEF RevisionsIdentify
<1>4. ReadsJustify'
  BY <1>1 DEF ReadsJustify
<1>5. LeasesBacked'
  BY DEF LeasesBacked
<1> QED
  BY <1>2, <1>3, <1>4, <1>5

(***************************************************************************)
(* A put that lands gives the lock object a new revision, which no other   *)
(* caller can have read.                                                   *)
(***************************************************************************)
LEMMA WritePreserves ==
  ASSUME IInv, TypeOK', NEW c \in Clients, NEW stamp \in Nat, stamp <= now,
         WriteLock(c, stamp), Done(c), now' = now
  PROVE  /\ RevisionsFresh' /\ RevisionsIdentify' /\ ReadsJustify'
         /\ lock'.owner = OwnerOf[c] /\ lock'.expiresAt = stamp + Ttl
         /\ lock'.expiresAt <= now' + Ttl
<1> USE DEF IInv, Done, WriteLock
<1>1. op'[c] = Idle /\ \A d \in Clients : d # c => op'[d] = op[d]
  BY DEF TypeOK
<1>2. RevisionsFresh'
  BY <1>1 DEF RevisionsFresh, TypeOK, Ops, LockObjects, Idle, NoLock, Present
<1>3. RevisionsIdentify'
  BY <1>1 DEF RevisionsIdentify, RevisionsFresh, TypeOK, Ops, LockObjects, Idle
<1>4. ReadsJustify'
  BY <1>1 DEF ReadsJustify, TypeOK, Idle, NoLock, Present
<1>5. lock'.owner = OwnerOf[c] /\ lock'.expiresAt = stamp + Ttl
  OBVIOUS
<1>6. stamp + Ttl <= now + Ttl
  BY DEF TypeOK
<1> QED
  BY <1>2, <1>3, <1>4, <1>5, <1>6

(***************************************************************************)
(* acquireLock: unless it is forced, the put replaces an object that was   *)
(* absent, expired or its own when it was read, and has not changed since. *)
(***************************************************************************)
LEMMA AcquirePutPreserves ==
  ASSUME Etags, IInv, TypeOK', NEW c \in Clients, NEW acked \in BOOLEAN,
         AcquirePut(c, acked)
  PROVE  IInv'
<1>1. op[c].at \in Nat /\ op[c].at <= now /\ now \in Nat
  BY DEF IInv, TypeOK, Ops, ReadsJustify
<1>2. /\ RevisionsFresh' /\ RevisionsIdentify' /\ ReadsJustify'
      /\ lock'.owner = OwnerOf[c] /\ lock'.expiresAt = op[c].at + Ttl
      /\ lock'.expiresAt <= now' + Ttl
  BY <1>1, WritePreserves DEF AcquirePut
<1>3. ASSUME NEW o \in Owners, lease'[o] > now', ~broken', o \notin cut'
      PROVE  lock'.owner = o /\ lock'.expiresAt >= lease'[o]
  <2>1. CASE o = OwnerOf[c]
    <3>1. lease[o] <= op[c].at + Ttl
      BY <1>1, <1>3, <2>1 DEF AcquirePut, IInv, TypeOK
    <3>2. lease'[o] <= op[c].at + Ttl
      BY <1>1, <2>1, <3>1 DEF AcquirePut, Told, IInv, TypeOK
    <3> QED
      BY <1>1, <1>2, <2>1, <3>2
  <2>2. CASE o # OwnerOf[c]
    <3>1. lease[o] > now /\ o \notin cut
      BY <1>3, <2>2 DEF AcquirePut, Told, IInv, TypeOK
    <3>2. ~broken /\ ~(op[c].force /\ Present(lock) /\ lock.owner # OwnerOf[c])
      BY <1>3 DEF AcquirePut
    <3>3. lock.owner = o /\ lock.expiresAt >= lease[o]
      BY <3>1, <3>2 DEF IInv, LeasesBacked
    <3>4. lock.expiresAt > now
      BY <3>1, <3>3, <1>1 DEF IInv, TypeOK, LockObjects
    <3>5. Present(lock)
      BY <3>3 DEF Present
    <3>6. ~op[c].force
      BY <2>2, <3>2, <3>3, <3>5
    <3>7. op[c].pc = "acquirePut" /\ Present(op[c].existing) /\ lock = op[c].existing
      BY <3>5, <3>6 DEF AcquirePut, AcquireCondition, IfMatch, IInv, RevisionsIdentify
    <3>8. lock.expiresAt <= op[c].at
      BY <2>2, <3>3, <3>6, <3>7 DEF IInv, ReadsJustify
    <3> QED
      BY <1>1, <3>4, <3>8 DEF IInv, TypeOK, LockObjects
  <2> QED
    BY <2>1, <2>2
<1>4. LeasesBacked'
  BY <1>2, <1>3 DEF LeasesBacked
<1> QED
  BY <1>2, <1>4 DEF IInv

(***************************************************************************)
(* renewLock: the object is the revision of its own it read, and the new   *)
(* expiry is not before the old one.                                       *)
(***************************************************************************)
LEMMA RenewPutPreserves ==
  ASSUME Etags, IInv, TypeOK', NEW c \in Clients, NEW acked \in BOOLEAN,
         RenewPut(c, acked)
  PROVE  IInv'
<1>1. PICK stamp \in op[c].at .. now :
        /\ WriteLock(c, stamp)
        /\ IF acked THEN Told(OwnerOf[c], stamp + Ttl) ELSE UNCHANGED lease
        /\ cut' = IF lease[OwnerOf[c]] > stamp + Ttl THEN cut ELSE cut \ {OwnerOf[c]}
  BY DEF RenewPut
<1>2. op[c].at \in Nat /\ now \in Nat /\ stamp \in Nat /\ op[c].at <= stamp /\ stamp <= now
  BY <1>1 DEF IInv, TypeOK, Ops
<1>3. /\ RevisionsFresh' /\ RevisionsIdentify' /\ ReadsJustify'
      /\ lock'.owner = OwnerOf[c] /\ lock'.expiresAt = stamp + Ttl
      /\ lock'.expiresAt <= now' + Ttl
  BY <1>1, <1>2, WritePreserves DEF RenewPut
<1>4. lock.owner = OwnerOf[c] /\ lock.expiresAt <= op[c].at + Ttl
  BY DEF RenewPut, IfMatch, IInv, RevisionsIdentify, ReadsJustify
<1>5. ASSUME NEW o \in Owners, lease'[o] > now', ~broken', o \notin cut'
      PROVE  lock'.owner = o /\ lock'.expiresAt >= lease'[o]
  <2>1. ~broken /\ now' = now
    BY <1>5 DEF RenewPut
  <2>2. ASSUME lease[o] > now, o \notin cut
        PROVE  o = OwnerOf[c] /\ lease[o] <= stamp + Ttl
    <3>1. lock.owner = o /\ lock.expiresAt >= lease[o]
      BY <2>1, <2>2 DEF IInv, LeasesBacked
    <3>2. op[c].at + Ttl <= stamp + Ttl
      BY <1>2
    <3> QED
      BY <1>2, <1>4, <3>1, <3>2 DEF IInv, TypeOK, LockObjects
  <2>3. o = OwnerOf[c]
    <3> SUFFICES ASSUME o # OwnerOf[c] PROVE FALSE
      OBVIOUS
    <3>1. lease[o] > now /\ o \notin cut
      BY <1>1, <1>5, <2>1 DEF Told, IInv, TypeOK
    <3> QED
      BY <2>2, <3>1
  <2>4. lease[o] <= stamp + Ttl
    <3>1. CASE o \in cut
      BY <1>1, <1>2, <1>5, <2>3, <3>1 DEF IInv, TypeOK
    <3>2. CASE o \notin cut /\ lease[o] > now
      BY <2>2, <3>2
    <3>3. CASE ~(lease[o] > now)
      <4>1. lease'[o] = stamp + Ttl
        BY <1>1, <1>5, <2>1, <2>3, <3>3 DEF Told, IInv, TypeOK
      <4>2. lease'[o] # lease[o]
        BY <1>5, <2>1, <3>3
      <4> QED
        BY <1>1, <1>2, <2>3, <4>1, <4>2 DEF Told, IInv, TypeOK
    <3> QED
      BY <3>1, <3>2, <3>3
  <2>5. lease'[o] <= stamp + Ttl
    BY <1>1, <1>2, <2>3, <2>4 DEF Told, IInv, TypeOK
  <2> QED
    BY <1>3, <2>3, <2>5
<1>6. LeasesBacked'
  BY <1>3, <1>5 DEF LeasesBacked
<1> QED
  BY <1>3, <1>6 DEF IInv

(***************************************************************************)
(* releaseLock: whoever loses a lock to the unconditional delete is        *)
(* recorded in broken.                                                     *)
(***************************************************************************)
LEMMA ReleaseDeletePreserves ==
  ASSUME IInv, TypeOK', NEW c \in Clients, ReleaseDelete(c)
  PROVE  IInv'
<1> USE DEF IInv, ReleaseDelete, Done
<1>1. op'[c] = Idle /\ \A d \in Clients : d # c => op'[d] = op[d]
  BY DEF TypeOK
<1>2. RevisionsFresh'
  BY <1>1 DEF RevisionsFresh, TypeOK, Idle, NoLock, Present
<1>3. RevisionsIdentify'
  BY <1>1 DEF RevisionsIdentify, RevisionsFresh, TypeOK, Idle, NoLock
<1>4. ReadsJustify'
  BY <1>1 DEF ReadsJustify, TypeOK, Idle, NoLock, Present
<1>5. ASSUME NEW o \in Owners, lease'[o] > now', ~broken', o \notin cut'
      PROVE  FALSE
  <2>1. o # OwnerOf[c] /\ lease[o] > now /\ o \notin cut
    BY <1>5 DEF TypeOK
  <2>2. ~broken /\ ~(Present(lock) /\ lock.owner # OwnerOf[c])
    BY <1>5
  <2>3. lock.owner = o
    BY <2>1, <2>2 DEF LeasesBacked
  <2> QED
    BY <2>1, <2>2, <2>3 DEF Present
<1>6. LeasesBacked'
  BY <1>5 DEF LeasesBacked, NoLock, TypeOK
<1> QED
  BY <1>2, <1>3, <1>4, <1>6

LEMMA NextIInv == Etags /\ IInv /\ [Next]_vars => IInv'
<1> SUFFICES ASSUME Etags, IInv, [Next]_vars
             PROVE  IInv'
  OBVIOUS
<1>0. TypeOK'
  BY NextTypeOK DEF IInv
<1>1. ASSUME NEW c \in Clients, Acquire(c)
      PROVE  IInv'
  <2>1. ASSUME NEW force \in BOOLEAN, AcquireStart(c, force)
        PROVE  IInv'
    <3> DEFINE new == [Idle EXCEPT !.pc = "acquireRead", !.force = force, !.at = now]
    <3>1. new \in Ops /\ new.existing = NoLock /\ new.pc = "acquireRead" /\ new.at = now
      BY DEF Idle, Ops, LockObjects, NoLock, IInv, TypeOK
    <3>2. op' = [op EXCEPT ![c] = new] /\ UNCHANGED <<now, lock, nextRev, lease, cut, broken>>
      BY <2>1 DEF AcquireStart
    <3>3. new.at <= now
      BY <3>1 DEF IInv, TypeOK
    <3> HIDE DEF new
    <3> QED
      BY <1>0, <3>1, <3>2, <3>3, ReadPreserves
  <2>2. CASE AcquireRead(c)
    <3> DEFINE existing == IF op[c].force THEN NoLock ELSE lock
               new == [op[c] EXCEPT !.pc = "acquirePut", !.existing = existing]
    <3>1. op[c] \in Ops /\ op[c].at <= now
      BY DEF IInv, TypeOK, ReadsJustify
    <3>0. lock \in LockObjects /\ NoLock \in LockObjects
      BY DEF IInv, TypeOK, LockObjects, NoLock
    <3>2. /\ new \in Ops /\ new.pc = "acquirePut" /\ new.at <= now
          /\ new.existing \in {lock, NoLock}
          /\ ~new.force => new.existing = lock
      <4>1. existing \in LockObjects
        BY <3>0
      <4>2. new \in Ops
        BY <3>1, <4>1, ReadKeepsType
      <4>3. new.pc = "acquirePut" /\ new.at = op[c].at /\ new.force = op[c].force /\ new.existing = existing
        BY <3>1 DEF Ops
      <4> QED
        BY <3>1, <4>2, <4>3
    <3>3. op' = [op EXCEPT ![c] = new] /\ UNCHANGED <<now, lock, nextRev, lease, cut, broken>>
      BY <2>2, <3>1 DEF AcquireRead, Ops
    <3>4. ~new.force =>
            ~Present(lock) \/ lock.expiresAt <= new.at \/ lock.owner = OwnerOf[c]
      BY <2>2, <3>1 DEF AcquireRead, Ops, IsExpired
    <3> HIDE DEF new
    <3> QED
      BY <1>0, <3>2, <3>3, <3>4, ReadPreserves
  <2>3. CASE AcquireRefused(c) \/ AcquireLost(c)
    BY <1>0, <2>3, DonePreserves DEF AcquireRefused, AcquireLost
  <2>4. ASSUME NEW acked \in BOOLEAN, AcquirePut(c, acked)
        PROVE  IInv'
    BY <1>0, <2>4, AcquirePutPreserves
  <2> QED
    BY <1>1, <2>1, <2>2, <2>3, <2>4 DEF Acquire
<1>2. ASSUME NEW c \in Clients, Renew(c)
      PROVE  IInv'
  <2>1. CASE RenewRead(c)
    <3> DEFINE new == [Idle EXCEPT !.pc = "renewPut", !.at = now, !.existing = lock]
    <3>1. /\ new \in Ops /\ new.existing = lock
          /\ new.pc = "renewPut" /\ new.at = now
      BY DEF Idle, Ops, IInv, TypeOK
    <3>2. op' = [op EXCEPT ![c] = new] /\ UNCHANGED <<now, lock, nextRev, lease, cut, broken>>
      BY <2>1 DEF RenewRead
    <3>3. /\ new.at <= now
          /\ lock.owner = OwnerOf[c] /\ lock.expiresAt <= new.at + Ttl
      BY <2>1, <3>1 DEF RenewRead, IInv, TypeOK, LeasesBacked
    <3> HIDE DEF new
    <3> QED
      BY <1>0, <3>1, <3>2, <3>3, ReadPreserves
  <2>2. CASE RenewLost(c)
    BY <1>0, <2>2, DonePreserves DEF RenewLost
  <2>3. ASSUME NEW acked \in BOOLEAN, RenewPut(c, acked)
        PROVE  IInv'
    BY <1>0, <2>3, RenewPutPreserves
  <2> QED
    BY <1>2, <2>1, <2>2, <2>3 DEF Renew
<1>3. ASSUME NEW c \in Clients, Release(c)
      PROVE  IInv'
  <2>1. ASSUME NEW force \in BOOLEAN, ReleaseRead(c, force)
        PROVE  IInv'
    <3> DEFINE new == [Idle EXCEPT !.pc = "releaseDelete"]
    <3>1. new \in Ops /\ new.existing = NoLock /\ new.pc = "releaseDelete" /\ new.at = 0
      BY DEF Idle, Ops, LockObjects, NoLock
    <3>2. op' = [op EXCEPT ![c] = new] /\ UNCHANGED <<now, lock, nextRev, lease, cut, broken>>
      BY <2>1 DEF ReleaseRead
    <3>3. new.at <= now
      BY <3>1 DEF IInv, TypeOK
    <3> HIDE DEF new
    <3> QED
      BY <1>0, <3>1, <3>2, <3>3, ReadPreserves
  <2>2. CASE ReleaseDelete(c)
    BY <1>0, <2>2, ReleaseDeletePreserves
  <2> QED
    BY <1>3, <2>1, <2>2 DEF Release
<1>4. ASSUME NEW c \in Clients, GiveUp(c)
      PROVE  IInv'
  BY <1>0, <1>4, DonePreserves DEF GiveUp
<1>5. CASE Tick
  <2> USE <1>5 DEF Tick, IInv
  <2>1. RevisionsFresh' /\ RevisionsIdentify'
    BY DEF RevisionsFresh, RevisionsIdentify
  <2>2. ReadsJustify'
    BY DEF ReadsJustify, TypeOK, Ops
  <2>3. LeasesBacked'
    BY DEF LeasesBacked, TypeOK, LockObjects
  <2> QED
    BY <1>0, <2>1, <2>2, <2>3
<1>6. CASE UNCHANGED vars
  BY <1>0, <1>6 DEF vars, IInv, RevisionsFresh, RevisionsIdentify, ReadsJustify, LeasesBacked
<1> QED
  BY <1>1, <1>2, <1>3, <1>4, <1>5, <1>6 DEF Next

(***************************************************************************)
(* Two unexpired leases that nothing has cut are both backed by the one    *)
(* lock object.                                                            *)
(***************************************************************************)
LEMMA BackedExcludes == IInv => MutualExclusion
  BY DEF IInv, TypeOK, LeasesBacked, MutualExclusion

(***************************************************************************)
(* On a store that returns etags, no interleaving of acquisitions,         *)
(* takeovers, adoptions, renewals and releases, no late put and no lost    *)
(* answer lets two owners both be before the latest expiry they were told, *)
(* unless a forced write or the unconditional delete of releaseLock hit    *)
(* somebody else's lock, or one of the two has itself brought its expiry   *)
(* forward by an acquisition with an older stamp.                          *)
(***************************************************************************)
THEOREM Exclusion == ASSUME Etags PROVE Spec => []MutualExclusion
<1>1. Init => IInv
  BY InitIInv
<1>2. IInv /\ [Next]_vars => IInv'
  BY NextIInv
<1>3. IInv => MutualExclusion
  BY BackedExcludes
<1> QED
  BY <1>1, <1>2, <1>3, PTL DEF Spec

-----------------------------------------------------------------------------
(***************************************************************************)
(* The refinement: what a step of a caller does to the register.           *)
(***************************************************************************)

LEMMA ViewAfterWrite ==
  ASSUME NEW c \in Clients, NEW stamp, WriteLock(c, stamp)
  PROVE  \E live \in BOOLEAN : LeaseView' = [owner |-> OwnerOf[c], live |-> live]
<1> DEFINE live == Present(lock') /\ ~IsExpired(lock', now')
<1>1. lock'.owner = OwnerOf[c]
  BY DEF WriteLock
<1>2. LeaseView' = [owner |-> OwnerOf[c], live |-> live] /\ live \in BOOLEAN
  BY <1>1 DEF LeaseView, Present, IsExpired
<1> QED
  BY <1>2

(* An acquisition that was not forced finds no lease in its way.           *)
LEMMA AcquirePutGrants ==
  ASSUME Etags, IInv, NEW c \in Clients, NEW acked \in BOOLEAN, AcquirePut(c, acked)
  PROVE  \/ \E o \in Owners, live \in BOOLEAN : Register!Grant(o, live)
         \/ Seizes(c)
<1>0. OwnerOf[c] \in Owners
  BY LockAssumption DEF LockAssumption
<1>1. PICK live \in BOOLEAN : LeaseView' = [owner |-> OwnerOf[c], live |-> live]
  BY ViewAfterWrite DEF AcquirePut
<1>2. CASE op[c].force
  BY <1>1, <1>2 DEF Seizes, AcquirePut, Register!Seize
<1>3. CASE ~op[c].force
  <2>1. ~Present(lock) \/ lock.expiresAt <= op[c].at \/ lock.owner = OwnerOf[c]
    <3>1. CASE ~Present(op[c].existing) /\ ~Present(lock)
      BY <3>1
    <3>2. CASE Present(op[c].existing) /\ IfMatch(c)
      <4>1. lock = op[c].existing
        BY <3>2 DEF IInv, RevisionsIdentify, AcquirePut, IfMatch
      <4> QED
        BY <1>3, <3>2, <4>1 DEF IInv, ReadsJustify, AcquirePut
    <3> QED
      BY <1>3, <3>1, <3>2 DEF AcquirePut, AcquireCondition
  <2>2. op[c].at <= now /\ op[c].at \in Nat /\ now \in Nat /\ lock.expiresAt \in Nat
    BY DEF IInv, ReadsJustify, TypeOK, LockObjects, Ops
  <2>3. LeaseView.owner = lock.owner /\ (LeaseView.live <=> Present(lock) /\ ~IsExpired(lock, now))
    BY DEF LeaseView
  <2>4. ~(LeaseView.live /\ LeaseView.owner # OwnerOf[c])
    BY <2>1, <2>2, <2>3 DEF IsExpired
  <2>5. ~Register!Blocks(OwnerOf[c])
    BY <2>4 DEF Register!Blocks
  <2> QED
    BY <1>0, <1>1, <2>5 DEF Register!Grant
<1> QED
  BY <1>2, <1>3

(* A renewal extends what it has read.                                     *)
LEMMA RenewPutExtends ==
  ASSUME Etags, IInv, NEW c \in Clients, NEW acked \in BOOLEAN, RenewPut(c, acked)
  PROVE  \E o \in Owners, live \in BOOLEAN : Register!Extend(o, live)
<1>0. OwnerOf[c] \in Owners
  BY LockAssumption DEF LockAssumption
<1>1. PICK stamp \in op[c].at .. now : WriteLock(c, stamp)
  BY DEF RenewPut
<1>2. PICK live \in BOOLEAN : LeaseView' = [owner |-> OwnerOf[c], live |-> live]
  BY <1>1, ViewAfterWrite
<1>3. lock.owner = OwnerOf[c]
  BY DEF IInv, RevisionsIdentify, ReadsJustify, RenewPut, IfMatch
<1>4. LeaseView.owner = OwnerOf[c] /\ LeaseView' = [LeaseView EXCEPT !.live = live]
  BY <1>2, <1>3 DEF LeaseView
<1> QED
  BY <1>0, <1>4 DEF Register!Extend

LEMMA StepMaps ==
  Etags /\ IInv /\ [Next]_vars
    => [Register!LeaseNext \/ \E c \in Clients : Seizes(c)]_LeaseView
<1> SUFFICES ASSUME Etags, IInv, [Next]_vars
             PROVE  Register!LeaseNext \/ (\E c \in Clients : Seizes(c)) \/ LeaseView' = LeaseView
  OBVIOUS
<1>1. ASSUME lock' = lock, now' = now
      PROVE  LeaseView' = LeaseView
  BY <1>1 DEF LeaseView, Present, IsExpired
<1>2. ASSUME NEW c \in Clients, Acquire(c)
      PROVE  Register!LeaseNext \/ (\E d \in Clients : Seizes(d)) \/ LeaseView' = LeaseView
  <2>1. ASSUME NEW acked \in BOOLEAN, AcquirePut(c, acked)
        PROVE  Register!LeaseNext \/ Seizes(c)
    BY <2>1, AcquirePutGrants DEF Register!LeaseNext
  <2> QED
    BY <1>1, <1>2, <2>1 DEF Acquire, AcquireStart, AcquireRefused, AcquireRead, AcquireLost
<1>3. ASSUME NEW c \in Clients, Renew(c)
      PROVE  Register!LeaseNext \/ LeaseView' = LeaseView
  <2>1. ASSUME NEW acked \in BOOLEAN, RenewPut(c, acked)
        PROVE  Register!LeaseNext
    BY <2>1, RenewPutExtends DEF Register!LeaseNext
  <2> QED
    BY <1>1, <1>3, <2>1 DEF Renew, RenewRead, RenewLost
<1>4. ASSUME NEW c \in Clients, Release(c)
      PROVE  Register!LeaseNext \/ LeaseView' = LeaseView
  <2>1. CASE ReleaseDelete(c)
    <3>1. lock' = NoLock
      BY <2>1 DEF ReleaseDelete
    <3>2. LeaseView' = [owner |-> NoOwner, live |-> FALSE]
      BY <3>1 DEF LeaseView, Present, NoLock
    <3> QED
      BY <3>2 DEF Register!LeaseNext, Register!Drop, Register!NoLease
  <2> QED
    BY <1>1, <1>4, <2>1 DEF Release, ReleaseRead
<1>5. ASSUME NEW c \in Clients, GiveUp(c)
      PROVE  LeaseView' = LeaseView
  BY <1>1, <1>5 DEF GiveUp
<1>6. CASE Tick
  <2>1. lock' = lock /\ now' = now + 1 /\ now \in Nat /\ lock.expiresAt \in Nat
    BY <1>6 DEF Tick, IInv, TypeOK, LockObjects
  <2>2. LeaseView.live \in BOOLEAN /\ LeaseView'.live \in BOOLEAN
        /\ LeaseView' = [LeaseView EXCEPT !.live = LeaseView'.live]
    BY <2>1 DEF LeaseView, Present
  <2>3. LeaseView'.live => LeaseView.live
    BY <2>1 DEF LeaseView, Present, IsExpired
  <2>4. LeaseView' = LeaseView \/ (LeaseView.live /\ LeaseView' = [LeaseView EXCEPT !.live = FALSE])
    <3>1. CASE LeaseView.live = LeaseView'.live
      BY <2>1, <3>1 DEF LeaseView
    <3>2. CASE LeaseView.live /\ ~LeaseView'.live
      BY <2>2, <3>2
    <3> QED
      BY <2>2, <2>3, <3>1, <3>2
  <2> QED
    BY <2>4 DEF Register!LeaseNext, Register!Lapse
<1>7. CASE UNCHANGED vars
  BY <1>1, <1>7 DEF vars
<1> QED
  BY <1>2, <1>3, <1>4, <1>5, <1>6, <1>7 DEF Next

(***************************************************************************)
(* The read-then-write protocol implements the lease register: on a store  *)
(* that returns etags each put of lock.ts grants or extends a lease that   *)
(* nobody else's stands in the way of, but for a forced one, which seizes  *)
(* it; the clock makes it lapse, and a release drops it.                   *)
(***************************************************************************)
THEOREM Implements == ASSUME Etags PROVE Spec => ImplementsRegister
<1>1. Init => Register!LeaseInit
  <2>1. Init => lock.owner = NoOwner
    BY DEF Init, NoLock
  <2>2. Init => LeaseView = [owner |-> NoOwner, live |-> FALSE]
    BY <2>1 DEF LeaseView, Present
  <2> QED
    BY <2>2 DEF Register!LeaseInit, Register!NoLease
<1>2. Init => IInv
  BY InitIInv
<1>3. IInv /\ [Next]_vars => IInv'
  BY NextIInv
<1>4. IInv /\ [Next]_vars => [Register!LeaseNext \/ \E c \in Clients : Seizes(c)]_LeaseView
  BY StepMaps
<1> QED
  BY <1>1, <1>2, <1>3, <1>4, PTL DEF Spec, ImplementsRegister
=============================================================================
