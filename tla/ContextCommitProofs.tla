------------------------ MODULE ContextCommitProofs ------------------------
(***************************************************************************)
(* Theorems about the commit protocol of ContextCommit, for any number of  *)
(* sessions and any number of attempts.                                    *)
(***************************************************************************)
EXTENDS ContextCommit, TLAPS

USE CommitAssumption DEF CommitAssumption
USE OwnerAssumption DEF OwnerAssumption

-----------------------------------------------------------------------------
(* Types *)

(* A manifest was written by an attempt at least as high as its generations. *)
Bounded(m) == m.generation <= m.rev /\ m.checkpointGeneration <= m.rev

(* w is between the packing and the commit of an attempt. *)
PendingPCs == {"putTree", "putImage", "reassert", "commit"}

Pending(w) == st[w].pc \in PendingPCs

(* w is in the middle of a create, save or checkpoint. *)
WritingPCs == {"readManifest", "pack"} \cup PendingPCs

(***************************************************************************)
(* TypeOK is not inductive: that a generation stays within MaxAttempt      *)
(* rests on every commit being made by an attempt that started after the   *)
(* manifest it replaces was written.                                       *)
(***************************************************************************)
AttemptsBound ==
  /\ Bounded(manifest) /\ manifest.rev <= attempts
  /\ \A w \in Owners : Bounded(st[w].seen) /\ st[w].seen.rev <= attempts
  /\ \A w \in Owners :
       Pending(w) => st[w].attempt \in 1 .. attempts /\ st[w].seen.rev < st[w].attempt
  /\ \A w \in Owners : st[w].pc \in WritingPCs => st[w].op # "none"

TypeInv == TypeOK /\ AttemptsBound

LEMMA InitTypeInv == Init => TypeInv
<1> SUFFICES ASSUME Init PROVE TypeInv
  OBVIOUS
<1>1. NoManifest \in Manifests /\ Bounded(NoManifest) /\ NoManifest.rev = 0
  BY DEF NoManifest, Manifests, Keys, TreeKey, ImageKey, Bounded
<1>2. Unmounted \in Sessions
  BY <1>1 DEF Unmounted, Sessions, PCs
<1>3. TypeOK
  BY <1>1, <1>2 DEF Init, TypeOK, LeaseInit, NoLease, Leases, Attempts
<1>4. AttemptsBound
  BY <1>1 DEF Init, AttemptsBound, Unmounted, Pending, PendingPCs, WritingPCs
<1> QED
  BY <1>3, <1>4 DEF TypeInv


(* What an operation leaves behind is well formed. *)
LEMMA RestedType ==
  ASSUME TypeInv, NEW w \in Owners
  PROVE  /\ Unmounted \in Sessions /\ Rested(w) \in Sessions
         /\ Bounded(Unmounted.seen) /\ Unmounted.seen.rev = 0 /\ Unmounted.pc = "idle"
         /\ Rested(w).seen = NoManifest /\ Rested(w).pc \in {"idle", "mounted"}
         /\ NoManifest.rev = 0 /\ Bounded(NoManifest)
<1>1. NoManifest \in Manifests /\ Bounded(NoManifest) /\ NoManifest.rev = 0
  BY DEF NoManifest, Manifests, Keys, TreeKey, ImageKey, Bounded
<1>2. Unmounted \in Sessions /\ Unmounted.seen = NoManifest /\ Unmounted.pc = "idle"
  BY <1>1 DEF Unmounted, Sessions, PCs
<1>3. st[w] \in Sessions
  BY DEF TypeInv, TypeOK
<1>4. Rested(w) \in Sessions
  BY <1>2, <1>3 DEF Rested, Sessions, PCs
<1>5. Rested(w).seen = NoManifest /\ Rested(w).pc \in {"idle", "mounted"}
  BY <1>2, <1>3 DEF Rested, Unmounted
<1> QED
  BY <1>1, <1>2, <1>4, <1>5

(***************************************************************************)
(* A step that gives w a well-formed state s, and leaves the store well    *)
(* formed, preserves the invariant.                                        *)
(***************************************************************************)
SessionOK(s, n) ==
  /\ s \in Sessions
  /\ Bounded(s.seen) /\ s.seen.rev <= n
  /\ s.pc \in PendingPCs => s.attempt \in 1 .. n /\ s.seen.rev < s.attempt
  /\ s.pc \in WritingPCs => s.op # "none"

StoreOK ==
  /\ lease \in Leases
  /\ objects \in [Keys -> 0 .. MaxAttempt]
  /\ manifest \in Manifests /\ Bounded(manifest) /\ manifest.rev <= attempts
  /\ attempts \in 0 .. MaxAttempt
  /\ made \in [0 .. MaxAttempt -> SUBSET Attempts]

LEMMA TypeInvParts == TypeInv <=> /\ StoreOK
                                 /\ st \in [Owners -> Sessions]
                                 /\ \A w \in Owners : SessionOK(st[w], attempts)
  BY DEF TypeInv, TypeOK, AttemptsBound, StoreOK, SessionOK, Pending

LEMMA SessionStep ==
  ASSUME TypeInv, NEW w \in Owners, NEW s, SessionOK(s, attempts'),
         st' = [st EXCEPT ![w] = s], StoreOK', attempts <= attempts'
  PROVE  TypeInv'
<1>1. StoreOK /\ st \in [Owners -> Sessions] /\ \A v \in Owners : SessionOK(st[v], attempts)
  BY TypeInvParts
<1>2. st' \in [Owners -> Sessions]
  BY <1>1 DEF SessionOK
<1>3. ASSUME NEW v \in Owners
      PROVE  SessionOK(st'[v], attempts')
  <2>1. CASE v = w
    BY <1>1, <2>1
  <2>2. CASE v # w
    <3>1. st'[v] = st[v] /\ SessionOK(st[v], attempts)
      BY <1>1, <2>2
    <3>2. attempts \in Nat /\ attempts' \in Nat
      BY <1>1 DEF StoreOK
    <3>3. st[v] \in Sessions
      BY <1>1
    <3>4. st[v].seen.rev \in Nat /\ st[v].attempt \in Nat
      BY <3>3 DEF Sessions, Manifests
    <3> QED
      BY <3>1, <3>2, <3>4 DEF SessionOK
  <2> QED
    BY <2>1, <2>2
<1> QED
  BY <1>2, <1>3 DEF TypeInv, TypeOK, AttemptsBound, StoreOK, SessionOK, Pending

(* The same for a step that changes nothing but w and the lease. *)
LEMMA LocalStep ==
  ASSUME TypeInv, NEW w \in Owners, NEW s, SessionOK(s, attempts),
         st' = [st EXCEPT ![w] = s], lease' \in Leases,
         UNCHANGED <<objects, manifest, attempts, made>>
  PROVE  TypeInv'
<1>1. StoreOK' /\ attempts' = attempts /\ attempts \in Nat
  BY DEF TypeInv, TypeOK, AttemptsBound, StoreOK
<1>2. SessionOK(s, attempts')
  BY <1>1
<1>3. attempts <= attempts'
  BY <1>1
<1> QED
  BY <1>1, <1>2, <1>3, SessionStep, Zenon

LEMMA ForgetStep ==
  ASSUME TypeInv, NEW w \in Owners, Forget(w), lease' \in Leases,
         UNCHANGED <<objects, manifest, attempts, made>>
  PROVE  TypeInv'
<1>1. SessionOK(Unmounted, attempts)
  BY TypeInvParts, RestedType DEF SessionOK, StoreOK, PendingPCs, WritingPCs
<1> QED
  BY <1>1, LocalStep DEF Forget

LEMMA GotoStep ==
  ASSUME TypeInv, NEW w \in Owners, NEW pc \in PCs, Goto(w, pc), lease' \in Leases,
         pc \in PendingPCs => Pending(w), pc \notin {"readManifest", "pack"},
         UNCHANGED <<objects, manifest, attempts, made>>
  PROVE  TypeInv'
<1> DEFINE s == [st[w] EXCEPT !.pc = pc]
<1>1. SessionOK(st[w], attempts)
  BY TypeInvParts
<1>2. SessionOK(s, attempts)
  BY <1>1 DEF SessionOK, Sessions, Pending, WritingPCs
<1>3. st' = [st EXCEPT ![w] = s]
  BY DEF Goto
<1> HIDE DEF s
<1> QED
  BY <1>2, <1>3, LocalStep

LEMMA AttachTypeInv ==
  ASSUME TypeInv, NEW w \in Owners, Attach(w)
  PROVE  TypeInv'
<1>0. StoreOK /\ SessionOK(st[w], attempts) /\ lease \in Leases
  BY TypeInvParts DEF StoreOK
<1>u. SessionOK(Unmounted, attempts)
  BY <1>0, RestedType DEF SessionOK, StoreOK, PendingPCs, WritingPCs
<1>1. CASE AttachRead(w)
  <2> DEFINE s == [st[w] EXCEPT !.pc = "attachLock", !.seen = manifest]
  <2>1. SessionOK(s, attempts)
    BY <1>0 DEF SessionOK, StoreOK, Sessions, PCs, PendingPCs, WritingPCs
  <2>2. st' = [st EXCEPT ![w] = s] /\ UNCHANGED <<lease, objects, manifest, attempts, made>>
    BY <1>1 DEF AttachRead
  <2> HIDE DEF s
  <2> QED
    BY <1>0, <2>1, <2>2, LocalStep
<1>2. CASE AttachRefused(w)
  BY <1>0, <1>2, ForgetStep DEF AttachRefused
<1>3. CASE AttachLock(w)
  <2> DEFINE s == [st[w] EXCEPT !.pc = "attachFetch",
                                !.adopted = (lease = [owner |-> w, live |-> TRUE])]
  <2>1. SessionOK(s, attempts)
    BY <1>0 DEF SessionOK, Sessions, PCs, PendingPCs, WritingPCs
  <2>2. lease' \in Leases
    BY <1>3 DEF AttachLock, Grant, Leases
  <2>3. st' = [st EXCEPT ![w] = s] /\ UNCHANGED <<objects, manifest, attempts, made>>
    BY <1>3 DEF AttachLock
  <2> HIDE DEF s
  <2> QED
    BY <2>1, <2>2, <2>3, LocalStep
<1>4. CASE AttachForce(w)
  <2>1. lease' \in Leases
    BY <1>4 DEF AttachForce, Seize, Leases
  <2> QED
    BY <1>4, <2>1, GotoStep DEF AttachForce, PCs, PendingPCs
<1>5. CASE AttachFetch(w)
  <2> DEFINE s == [Unmounted EXCEPT !.pc = "mounted", !.loop = LoopMounts(w),
                                    !.base = made[Source(w).encryption]]
  <2>1. LoopMounts(w) \in BOOLEAN
    BY DEF LoopMounts, Does
  <2>2. Source(w).encryption \in 0 .. MaxAttempt
    BY <1>0 DEF Source, SessionOK, Sessions, Manifests
  <2>3. made[Source(w).encryption] \in SUBSET Attempts
    BY <1>0, <2>2 DEF StoreOK
  <2>4. SessionOK(s, attempts)
    BY <1>u, <2>1, <2>3 DEF SessionOK, Sessions, PCs, PendingPCs, WritingPCs
  <2>5. st' = [st EXCEPT ![w] = s] /\ UNCHANGED <<lease, objects, manifest, attempts, made>>
    BY <1>5 DEF AttachFetch
  <2>6. lease' \in Leases
    BY <1>0, <2>5
  <2> HIDE DEF s
  <2> QED
    BY <2>4, <2>5, <2>6, LocalStep
<1>6. CASE AttachBroken(w)
  BY <1>0, <1>6, GotoStep DEF AttachBroken, PCs, PendingPCs
<1>7. CASE AttachAbort(w)
  <2>1. lease' = lease \/ lease' = NoLease
    BY <1>7, Zenon DEF AttachAbort, Drop
  <2>2. NoLease \in Leases
    BY DEF NoLease, Leases
  <2>3. lease' \in Leases
    BY <1>0, <2>1, <2>2
  <2> QED
    BY <1>7, <2>3, ForgetStep DEF AttachAbort
<1> QED
  BY <1>1, <1>2, <1>3, <1>4, <1>5, <1>6, <1>7 DEF Attach

(* The upload of a pending attempt has a key. *)
LEMMA TargetKeyType ==
  ASSUME TypeInv, NEW w \in Owners, Pending(w)
  PROVE  /\ TargetKey(w) \in Keys /\ ImageKey(st[w].attempt) \in Keys
         /\ st[w].attempt \in 1 .. attempts /\ attempts <= MaxAttempt
         /\ st[w].seen.rev < st[w].attempt /\ st[w].seen \in Manifests
         /\ Bounded(st[w].seen)
<1>1. SessionOK(st[w], attempts) /\ attempts \in 0 .. MaxAttempt
  BY TypeInvParts DEF StoreOK
<1>2. /\ st[w].attempt \in 1 .. attempts /\ st[w].seen.rev < st[w].attempt
      /\ st[w].seen \in Manifests /\ Bounded(st[w].seen)
  BY <1>1 DEF SessionOK, Pending, Sessions
<1>3. st[w].seen.checkpointGeneration + 1 \in 0 .. MaxAttempt
  BY <1>1, <1>2 DEF Manifests, Bounded
<1> QED
  BY <1>1, <1>2, <1>3 DEF TargetKey, TreeKey, ImageKey, CheckpointKey, Keys

LEMMA DeletingType ==
  ASSUME TypeInv, NEW w \in Owners, NEW keys \in SUBSET Keys
  PROVE  SessionOK(Deleting(w, keys), attempts)
<1>1. SessionOK(st[w], attempts) /\ attempts \in Nat
  BY TypeInvParts DEF StoreOK
<1>2. SessionOK(Rested(w), attempts)
  BY <1>1, RestedType DEF SessionOK, PendingPCs, WritingPCs
<1>3. SessionOK([st[w] EXCEPT !.pc = "cleanup", !.doomed = keys], attempts)
  BY <1>1 DEF SessionOK, Sessions, PCs, PendingPCs, WritingPCs
<1> QED
  BY <1>2, <1>3 DEF Deleting

LEMMA AbortType ==
  ASSUME TypeInv, NEW w \in Owners, Pending(w)
  PROVE  RolledBack(w) \in SUBSET Keys /\ SessionOK(Deleting(w, RolledBack(w)), attempts)
<1>1. st[w].written \in SUBSET Keys
  BY TypeInvParts DEF SessionOK, Sessions
<1>2. RolledBack(w) \in SUBSET Keys
  BY <1>1, TargetKeyType DEF RolledBack
<1> QED
  BY <1>2, DeletingType

(* What w would commit is well formed. *)
LEMMA UpdatedType ==
  ASSUME TypeInv, NEW w \in Owners, Pending(w)
  PROVE  /\ Updated(w) \in Manifests /\ Bounded(Updated(w))
         /\ Updated(w).rev = st[w].attempt
<1>1. SessionOK(st[w], attempts) /\ attempts \in 0 .. MaxAttempt
  BY TypeInvParts DEF StoreOK
<1>2. st[w].op \in {"create", "recreate", "save", "checkpoint"}
  BY <1>1 DEF SessionOK, Sessions, Pending, WritingPCs
<1>3. /\ TargetKey(w) \in Keys /\ ImageKey(st[w].attempt) \in Keys
      /\ st[w].attempt \in 1 .. MaxAttempt /\ st[w].seen.rev < st[w].attempt
      /\ st[w].seen \in Manifests /\ Bounded(st[w].seen)
  BY <1>1, TargetKeyType
<1>4. CASE st[w].op \in {"create", "recreate"}
  <2>1. Updated(w) = Created(w)
    BY <1>4 DEF Updated
  <2> QED
    BY <1>3, <2>1 DEF Created, Manifests, Bounded
<1>n. /\ st[w].seen.generation + 1 \in 0 .. MaxAttempt
      /\ st[w].seen.checkpointGeneration + 1 \in 0 .. MaxAttempt
      /\ st[w].seen.generation + 1 <= st[w].attempt
      /\ st[w].seen.checkpointGeneration + 1 <= st[w].attempt
      /\ st[w].seen.generation <= st[w].attempt
      /\ st[w].seen.checkpointGeneration <= st[w].attempt
      /\ st[w].attempt \in 0 .. MaxAttempt
  BY <1>3 DEF Manifests, Bounded
<1>5. CASE st[w].op = "save"
  <2> DEFINE m == st[w].seen
             a == st[w].attempt
             image == st[w].image
             u == [m EXCEPT !.generation = @ + 1,
                            !.format = IF m.format = "ext4" /\ image THEN "ext4" ELSE "tree",
                            !.treeKey = TargetKey(w), !.treeEncryption = a,
                            !.imageKey = IF image THEN ImageKey(a) ELSE @,
                            !.imageEncryption = IF image THEN a ELSE @,
                            !.rev = a]
  <2>1. Updated(w) = u
    BY <1>5 DEF Updated, Saved
  <2>2. m \in Manifests
    BY <1>3
  <2> HIDE DEF m, a
  <2>3. /\ u.generation = m.generation + 1
        /\ u.checkpointGeneration = m.checkpointGeneration
        /\ u.rev = a
    BY <2>2 DEF Manifests
  <2>4. u \in Manifests
    BY <1>3, <1>n, <2>2 DEF Manifests, m, a
  <2> QED
    BY <1>n, <2>1, <2>3, <2>4 DEF Bounded, m, a
<1>6. CASE st[w].op = "checkpoint"
  <2> DEFINE m == st[w].seen
             a == st[w].attempt
             u == [m EXCEPT !.checkpointGeneration = @ + 1, !.format = "tree",
                            !.treeKey = TargetKey(w), !.treeEncryption = a, !.rev = a]
  <2>1. Updated(w) = u
    BY <1>6 DEF Updated, Checkpointed
  <2>2. m \in Manifests
    BY <1>3
  <2> HIDE DEF m, a
  <2>3. /\ u.generation = m.generation
        /\ u.checkpointGeneration = m.checkpointGeneration + 1
        /\ u.rev = a
    BY <2>2 DEF Manifests
  <2>4. u \in Manifests
    BY <1>3, <1>n, <2>2 DEF Manifests, m, a
  <2> QED
    BY <1>n, <2>1, <2>3, <2>4 DEF Bounded, m, a
<1> QED
  BY <1>2, <1>4, <1>5, <1>6

(* A step that changes w, the data objects and the manifest. *)
LEMMA StoreStep ==
  ASSUME TypeInv, NEW w \in Owners, NEW s, SessionOK(s, attempts),
         st' = [st EXCEPT ![w] = s],
         objects' \in [Keys -> 0 .. MaxAttempt],
         manifest' \in Manifests, Bounded(manifest'), manifest'.rev <= attempts,
         UNCHANGED <<lease, attempts, made>>
  PROVE  TypeInv'
<1>1. StoreOK' /\ attempts' = attempts /\ attempts \in Nat
  BY DEF TypeInv, TypeOK, AttemptsBound, StoreOK
<1>2. SessionOK(s, attempts') /\ attempts <= attempts'
  BY <1>1
<1> QED
  BY <1>1, <1>2, SessionStep, Zenon

LEMMA AbortStep ==
  ASSUME TypeInv, NEW w \in Owners, Pending(w), Abort(w),
         objects' \in [Keys -> 0 .. MaxAttempt],
         manifest' \in Manifests, Bounded(manifest'), manifest'.rev <= attempts,
         UNCHANGED <<lease, attempts, made>>
  PROVE  TypeInv'
<1>1. SessionOK(Deleting(w, RolledBack(w)), attempts)
  BY AbortType
<1> QED
  BY <1>1, StoreStep DEF Abort

LEMMA PutType ==
  ASSUME TypeInv, NEW w \in Owners, Pending(w), NEW key \in Keys, Put(w, key)
  PROVE  objects' \in [Keys -> 0 .. MaxAttempt]
<1>1. st[w].attempt \in 0 .. MaxAttempt
  BY TargetKeyType DEF TypeInv, TypeOK
<1> QED
  BY <1>1 DEF Put, TypeInv, TypeOK

LEMMA WriteTypeInv ==
  ASSUME TypeInv, NEW w \in Owners, Write(w)
  PROVE  TypeInv'
<1>0. StoreOK /\ SessionOK(st[w], attempts)
  BY TypeInvParts
<1>s. /\ lease \in Leases /\ objects \in [Keys -> 0 .. MaxAttempt]
      /\ manifest \in Manifests /\ Bounded(manifest) /\ manifest.rev <= attempts
      /\ attempts \in 0 .. MaxAttempt
  BY <1>0 DEF StoreOK
<1>r. SessionOK(Rested(w), attempts)
  BY <1>0, RestedType DEF SessionOK, StoreOK, PendingPCs, WritingPCs
<1>1. ASSUME NEW op \in {"create", "recreate"}, CreateStart(w, op)
      PROVE  TypeInv'
  <2> DEFINE s == [st[w] EXCEPT !.pc = "pack", !.op = op, !.seen = manifest]
  <2>1. SessionOK(s, attempts)
    BY <1>0, <1>s DEF SessionOK, Sessions, PCs, PendingPCs, WritingPCs
  <2>2. st' = [st EXCEPT ![w] = s] /\ UNCHANGED <<lease, objects, manifest, attempts, made>>
    BY <1>1 DEF CreateStart
  <2> HIDE DEF s
  <2> QED
    BY <1>s, <2>1, <2>2, LocalStep
<1>2. ASSUME NEW op \in {"save", "checkpoint"}, SaveStart(w, op)
      PROVE  TypeInv'
  <2> DEFINE s == [st[w] EXCEPT !.pc = "readManifest", !.op = op]
  <2>1. SessionOK(s, attempts)
    BY <1>0, <1>s DEF SessionOK, Sessions, PCs, PendingPCs, WritingPCs
  <2>2. st' = [st EXCEPT ![w] = s] /\ UNCHANGED <<lease, objects, manifest, attempts, made>>
    BY <1>2 DEF SaveStart
  <2> HIDE DEF s
  <2> QED
    BY <1>s, <2>1, <2>2, LocalStep
<1>3. CASE ReadManifest(w)
  <2> DEFINE s == [st[w] EXCEPT !.pc = "pack", !.seen = manifest]
  <2>1. SessionOK(s, attempts)
    BY <1>0, <1>s, <1>3 DEF ReadManifest, SessionOK, Sessions, PCs, PendingPCs, WritingPCs
  <2>2. st' = [st EXCEPT ![w] = s] /\ UNCHANGED <<lease, objects, manifest, attempts, made>>
    BY <1>3 DEF ReadManifest
  <2> HIDE DEF s
  <2> QED
    BY <1>s, <2>1, <2>2, LocalStep
<1>4. CASE Pack(w)
  <2> DEFINE a == attempts + 1
             edits == st[w].base \cup {a}
             s == [st[w] EXCEPT !.pc = "putTree", !.attempt = a,
                                !.image = PersistsImage(w), !.base = edits]
  <2>1. /\ st[w].pc = "pack" /\ a <= MaxAttempt /\ attempts' = a
        /\ made' = [made EXCEPT ![a] = edits]
        /\ st' = [st EXCEPT ![w] = s]
        /\ UNCHANGED <<lease, objects, manifest>>
    BY <1>4 DEF Pack
  <2>2. a \in 1 .. MaxAttempt /\ attempts < a
    BY <1>s, <2>1
  <2>3. edits \in SUBSET Attempts
    BY <1>0, <2>2 DEF SessionOK, Sessions, Attempts
  <2>4. PersistsImage(w) \in BOOLEAN
    BY DEF PersistsImage, Does
  <2>5. SessionOK(s, a)
    <3>1. st[w] \in Sessions /\ st[w].seen \in Manifests
      BY <1>0 DEF SessionOK, Sessions
    <3>2. a \in 0 .. MaxAttempt
      BY <2>2
    <3> HIDE DEF a, edits
    <3>3. s \in Sessions
      BY <3>1, <3>2, <2>3, <2>4 DEF Sessions, PCs
    <3>4. s.seen = st[w].seen /\ s.op = st[w].op /\ s.attempt = a
      BY <3>1 DEF Sessions
    <3>5. s.op # "none"
      BY <1>0, <2>1, <3>4 DEF SessionOK, WritingPCs
    <3>6. Bounded(st[w].seen) /\ st[w].seen.rev <= attempts /\ st[w].seen.rev \in Nat
      BY <1>0, <3>1 DEF SessionOK, Manifests
    <3>7. st[w].seen.rev < a
      BY <1>s, <2>2, <3>2, <3>6
    <3>8. a \in 1 .. a /\ st[w].seen.rev <= a
      BY <2>2, <3>6, <3>7
    <3> QED
      BY <3>3, <3>4, <3>5, <3>6, <3>7, <3>8 DEF SessionOK
  <2>6. StoreOK'
    BY <1>0, <2>1, <2>2, <2>3 DEF StoreOK, Manifests
  <2>7. SessionOK(s, attempts') /\ attempts <= attempts'
    BY <1>s, <2>1, <2>2, <2>5
  <2> HIDE DEF s
  <2> QED
    BY <2>1, <2>6, <2>7, SessionStep
<1>5. CASE PackFails(w)
  <2>1. st' = [st EXCEPT ![w] = Rested(w)] /\ UNCHANGED <<lease, objects, manifest, attempts, made>>
    BY <1>5 DEF PackFails
  <2> QED
    BY <1>s, <1>r, <2>1, LocalStep
<1>6. CASE PutTree(w)
  <2> DEFINE s == [st[w] EXCEPT !.pc = IF st[w].image THEN "putImage" ELSE BeforeCommit(w),
                                !.written = {TargetKey(w)}]
  <2>1. Pending(w) /\ TargetKey(w) \in Keys
    BY <1>6, TargetKeyType DEF PutTree, Pending, PendingPCs
  <2>2. SessionOK(s, attempts)
    BY <1>0, <2>1 DEF BeforeCommit, Pending, SessionOK, Sessions, PCs, PendingPCs, WritingPCs
  <2>3. objects' \in [Keys -> 0 .. MaxAttempt]
    BY <1>6, <2>1, PutType DEF PutTree
  <2>4. st' = [st EXCEPT ![w] = s] /\ UNCHANGED <<lease, manifest, attempts, made>>
    BY <1>6 DEF PutTree
  <2> HIDE DEF s
  <2> QED
    BY <1>s, <2>2, <2>3, <2>4, StoreStep
<1>7. CASE PutImage(w)
  <2> DEFINE s == [st[w] EXCEPT !.pc = BeforeCommit(w),
                                !.written = st[w].written \cup {ImageKey(st[w].attempt)}]
  <2>1. Pending(w) /\ ImageKey(st[w].attempt) \in Keys
    BY <1>7, TargetKeyType DEF PutImage, Pending, PendingPCs
  <2>2. SessionOK(s, attempts)
    BY <1>0, <2>1 DEF BeforeCommit, Pending, SessionOK, Sessions, PCs, PendingPCs, WritingPCs
  <2>3. objects' \in [Keys -> 0 .. MaxAttempt]
    BY <1>7, <2>1, PutType DEF PutImage
  <2>4. st' = [st EXCEPT ![w] = s] /\ UNCHANGED <<lease, manifest, attempts, made>>
    BY <1>7 DEF PutImage
  <2> HIDE DEF s
  <2> QED
    BY <1>s, <2>2, <2>3, <2>4, StoreStep
<1>8. CASE PutDataFails(w)
  <2>1. Pending(w) /\ TargetKey(w) \in Keys /\ ImageKey(st[w].attempt) \in Keys
    BY <1>8, TargetKeyType DEF PutDataFails, Pending, PendingPCs
  <2>2. objects' \in [Keys -> 0 .. MaxAttempt]
    BY <1>8, <1>s, <2>1, PutType DEF PutDataFails
  <2> QED
    BY <1>s, <1>8, <2>1, <2>2, AbortStep DEF PutDataFails
<1>9. CASE Reassert(w)
  BY <1>s, <1>9, GotoStep DEF Reassert, Pending, PCs, PendingPCs
<1>10. CASE ReassertFails(w)
  BY <1>s, <1>10, AbortStep DEF ReassertFails, Pending, PendingPCs
<1>11. CASE Commit(w)
  <2>1. Pending(w)
    BY <1>11 DEF Commit, Pending, PendingPCs
  <2>2. /\ manifest' \in Manifests /\ Bounded(manifest') /\ manifest'.rev <= attempts
    BY <1>s, <1>11, <2>1, UpdatedType, TargetKeyType DEF Commit
  <2>3. Superseded(w) \in SUBSET Keys
    BY <2>1, TargetKeyType DEF Superseded, Manifests
  <2>4. SessionOK(Deleting(w, Superseded(w)), attempts)
    BY <2>3, DeletingType
  <2>5. SessionOK([st[w] EXCEPT !.pc = "list"], attempts)
    BY <1>0 DEF SessionOK, Sessions, PCs, PendingPCs, WritingPCs
  <2>6. UNCHANGED <<lease, objects, attempts, made>> /\ objects' \in [Keys -> 0 .. MaxAttempt]
    BY <1>s, <1>11 DEF Commit
  <2>7. CASE Prunes(w)
    <3>1. st' = [st EXCEPT ![w] = [st[w] EXCEPT !.pc = "list"]]
      BY <1>11, <2>7 DEF Commit, Goto
    <3> QED
      BY <2>2, <2>5, <2>6, <3>1, StoreStep
  <2>8. CASE ~Prunes(w)
    <3>1. st' = [st EXCEPT ![w] = Deleting(w, Superseded(w))]
      BY <1>11, <2>8 DEF Commit
    <3> QED
      BY <2>2, <2>4, <2>6, <3>1, StoreStep
  <2> QED
    BY <2>7, <2>8
<1>12. CASE CommitRefused(w)
  BY <1>s, <1>12, AbortStep DEF CommitRefused, Pending, PendingPCs
<1>13. CASE CommitFails(w)
  <2>1. Pending(w)
    BY <1>13 DEF CommitFails, Pending, PendingPCs
  <2>2. manifest' \in Manifests /\ Bounded(manifest') /\ manifest'.rev <= attempts
    BY <1>s, <1>13, <2>1, UpdatedType, TargetKeyType DEF CommitFails
  <2> QED
    BY <1>s, <1>13, <2>1, <2>2, AbortStep DEF CommitFails
<1>14. CASE List(w)
  <2>1. SessionOK(Deleting(w, Listed(w)), attempts)
    BY DeletingType DEF Listed
  <2>2. st' = [st EXCEPT ![w] = Deleting(w, Listed(w))]
        /\ UNCHANGED <<lease, objects, manifest, attempts, made>>
    BY <1>14 DEF List
  <2> QED
    BY <1>s, <2>1, <2>2, LocalStep
<1>15. CASE Delete(w)
  <2>1. PICK k \in st[w].doomed :
          /\ \/ objects' = [objects EXCEPT ![k] = 0]
             \/ UNCHANGED objects
          /\ st' = [st EXCEPT ![w] = Deleting(w, st[w].doomed \ {k})]
    BY <1>15 DEF Delete
  <2>2. st[w].doomed \ {k} \in SUBSET Keys
    BY <1>0 DEF SessionOK, Sessions
  <2>3. SessionOK(Deleting(w, st[w].doomed \ {k}), attempts)
    BY <2>2, DeletingType
  <2>4. objects' \in [Keys -> 0 .. MaxAttempt]
    BY <1>s, <2>1
  <2>5. UNCHANGED <<lease, manifest, attempts, made>>
    BY <1>15 DEF Delete
  <2> QED
    BY <1>s, <2>1, <2>3, <2>4, <2>5, StoreStep
<1> QED
  BY <1>1, <1>2, <1>3, <1>4, <1>5, <1>6, <1>7, <1>8, <1>9, <1>10, <1>11, <1>12, <1>13,
     <1>14, <1>15 DEF Write

LEMMA OtherTypeInv ==
  ASSUME TypeInv, NEW w \in Owners,
         Detach(w) \/ Touch(w) \/ Renew(w) \/ Crash(w)
  PROVE  TypeInv'
<1>0. StoreOK /\ SessionOK(st[w], attempts) /\ SessionOK(Unmounted, attempts)
  BY TypeInvParts, RestedType DEF SessionOK, StoreOK, PendingPCs, WritingPCs
<1>s. /\ lease \in Leases /\ objects \in [Keys -> 0 .. MaxAttempt]
      /\ manifest \in Manifests /\ Bounded(manifest) /\ manifest.rev <= attempts
      /\ attempts \in 0 .. MaxAttempt
  BY <1>0 DEF StoreOK
<1>u. ASSUME NEW pc \in {"releaseDelete", "crashed"}
      PROVE  SessionOK([Unmounted EXCEPT !.pc = pc], attempts)
  BY <1>0 DEF SessionOK, Sessions, PCs, PendingPCs, WritingPCs
<1>1. CASE ReleaseRead(w)
  <2>1. CASE lease.owner = w /\ ~Does(w, "ownerless")
    <3>1. st' = [st EXCEPT ![w] = [Unmounted EXCEPT !.pc = "releaseDelete"]]
          /\ UNCHANGED <<lease, objects, manifest, attempts, made>>
      BY <1>1, <2>1 DEF ReleaseRead
    <3> QED
      BY <1>s, <1>u, <3>1, LocalStep
  <2>2. CASE ~(lease.owner = w /\ ~Does(w, "ownerless"))
    BY <1>s, <1>1, <2>2, ForgetStep DEF ReleaseRead
  <2> QED
    BY <2>1, <2>2
<1>2. CASE ReleaseDelete(w)
  <2>1. lease' \in Leases
    BY <1>2 DEF ReleaseDelete, Drop, NoLease, Leases
  <2> QED
    BY <1>2, <2>1, ForgetStep DEF ReleaseDelete
<1>3. CASE DetachFails(w)
  BY <1>s, <1>3, ForgetStep DEF DetachFails
<1>4. CASE TouchRead(w)
  <2> DEFINE s == [st[w] EXCEPT !.pc = "touchPut", !.seen = manifest]
  <2>1. SessionOK(s, attempts)
    BY <1>0, <1>s DEF SessionOK, Sessions, PCs, PendingPCs, WritingPCs
  <2>2. st' = [st EXCEPT ![w] = s] /\ UNCHANGED <<lease, objects, manifest, attempts, made>>
    BY <1>4 DEF TouchRead
  <2> HIDE DEF s
  <2> QED
    BY <1>s, <2>1, <2>2, LocalStep
<1>5. CASE TouchPut(w)
  <2> DEFINE m == st[w].seen
             n == [m EXCEPT !.rev = attempts + 1]
  <2>1. /\ attempts + 1 <= MaxAttempt /\ attempts' = attempts + 1 /\ manifest' = n
        /\ st' = [st EXCEPT ![w] = Unmounted]
        /\ UNCHANGED <<lease, objects, made>>
    BY <1>s, <1>5 DEF TouchPut, Forget
  <2>2. m \in Manifests /\ Bounded(m) /\ m.rev <= attempts
    BY <1>0 DEF SessionOK, Sessions
  <2>3. attempts + 1 \in 0 .. MaxAttempt /\ attempts <= attempts'
    BY <1>s, <2>1
  <2>4. n \in Manifests
    BY <2>2, <2>3 DEF Manifests
  <2>5. Bounded(n) /\ n.rev = attempts + 1
    BY <1>s, <2>2 DEF Bounded, Manifests
  <2> HIDE DEF n
  <2>6. StoreOK'
    BY <1>0, <2>1, <2>3, <2>4, <2>5 DEF StoreOK
  <2>7. SessionOK(Unmounted, attempts')
    BY <1>0, <1>s, <2>1, RestedType DEF SessionOK, PendingPCs, WritingPCs
  <2> QED
    BY <2>1, <2>3, <2>6, <2>7, SessionStep
<1>6. CASE TouchRefused(w)
  BY <1>s, <1>6, ForgetStep DEF TouchRefused
<1>7. CASE Renew(w)
  BY <1>s, <1>7 DEF Renew, Extend, Leases, TypeInv, TypeOK, AttemptsBound, Pending
<1>8. CASE Crash(w)
  <2>1. st' = [st EXCEPT ![w] = [Unmounted EXCEPT !.pc = "crashed"]]
        /\ UNCHANGED <<lease, objects, manifest, attempts, made>>
    BY <1>8 DEF Crash
  <2> QED
    BY <1>s, <1>u, <2>1, LocalStep
<1> QED
  BY <1>1, <1>2, <1>3, <1>4, <1>5, <1>6, <1>7, <1>8 DEF Detach, Touch

LEMMA NextTypeInv == TypeInv /\ [Next]_vars => TypeInv'
<1> SUFFICES ASSUME TypeInv, [Next]_vars
             PROVE  TypeInv'
  OBVIOUS
<1>1. ASSUME NEW w \in Owners,
             Attach(w) \/ Write(w) \/ Detach(w) \/ Touch(w) \/ Renew(w) \/ Crash(w)
      PROVE  TypeInv'
  BY <1>1, AttachTypeInv, WriteTypeInv, OtherTypeInv
<1>2. CASE Expire
  BY <1>2 DEF Expire, Lapse, Leases, TypeInv, TypeOK, AttemptsBound, Pending
<1>3. CASE UNCHANGED vars
  BY <1>3 DEF vars, TypeInv, TypeOK, AttemptsBound, Pending
<1> QED
  BY <1>1, <1>2, <1>3 DEF Next

(***************************************************************************)
(* The variables keep their types; in particular no generation and no      *)
(* checkpoint number ever exceeds the number of attempts made.             *)
(***************************************************************************)
THEOREM TypeCorrect == Spec => []TypeOK
<1>1. Init => TypeInv
  BY InitTypeInv
<1>2. TypeInv /\ [Next]_vars => TypeInv'
  BY NextTypeInv
<1>3. TypeInv => TypeOK
  BY DEF TypeInv
<1> QED
  BY <1>1, <1>2, <1>3, PTL DEF Spec

-----------------------------------------------------------------------------
(* One sequence of manifests *)

(***************************************************************************)
(* The etag of the manifest identifies it, because an attempt that has not *)
(* been committed yet is nobody's revision: who finds the revision it read *)
(* still in place derives its update from the current manifest.            *)
(***************************************************************************)
SeenCurrent ==
  /\ \A w \in Owners : st[w].seen.rev = manifest.rev => st[w].seen = manifest
  /\ manifest.rev = 0 => manifest = NoManifest

AttemptsUnused ==
  \A v \in Owners : Pending(v) =>
    /\ manifest.rev # st[v].attempt
    /\ \A w \in Owners : st[w].seen.rev # st[v].attempt
    /\ \A w \in Owners : w # v /\ Pending(w) => st[w].attempt # st[v].attempt

(* A session does what its role says, and a create found no manifest. *)
OperationOK(w, s) ==
  /\ s.op # "none" => Does(w, s.op)
  /\ s.op = "create" /\ s.pc \in WritingPCs => s.seen.rev = 0
  /\ s.pc = "readManifest" => s.op \notin {"create", "recreate"}

OperationsKnown == \A w \in Owners : OperationOK(w, st[w])

RevInv == TypeInv /\ SeenCurrent /\ AttemptsUnused /\ OperationsKnown

LEMMA InitRevInv == Init => RevInv
<1> SUFFICES ASSUME Init PROVE RevInv
  OBVIOUS
<1>1. TypeInv
  BY InitTypeInv
<1>2. Unmounted.seen = NoManifest /\ Unmounted.pc = "idle" /\ Unmounted.op = "none"
  BY DEF Unmounted
<1>3. \A w \in Owners : st[w] = Unmounted /\ ~Pending(w)
  BY <1>2 DEF Init, Pending, PendingPCs
<1>4. SeenCurrent /\ AttemptsUnused /\ OperationsKnown
  BY <1>2, <1>3 DEF Init, SeenCurrent, AttemptsUnused, OperationsKnown, OperationOK
<1> QED
  BY <1>1, <1>4 DEF RevInv

LEMMA NumbersTyped ==
  ASSUME TypeInv
  PROVE  /\ st \in [Owners -> Sessions] /\ attempts \in Nat
         /\ manifest.rev \in Nat /\ manifest.rev <= attempts
         /\ \A v \in Owners : st[v].seen.rev \in Nat /\ st[v].seen.rev <= attempts
         /\ \A v \in Owners : Pending(v) => st[v].attempt \in Nat /\ st[v].attempt # 0
                                            /\ st[v].attempt <= attempts
<1>1. /\ StoreOK /\ st \in [Owners -> Sessions]
      /\ \A v \in Owners : SessionOK(st[v], attempts)
  BY TypeInvParts
<1>2. attempts \in Nat /\ manifest.rev \in Nat /\ manifest.rev <= attempts
  BY <1>1 DEF StoreOK, Manifests
<1>3. ASSUME NEW v \in Owners
      PROVE  st[v].seen.rev \in Nat /\ st[v].seen.rev <= attempts
  BY <1>1 DEF SessionOK, Sessions, Manifests
<1>4. ASSUME NEW v \in Owners, Pending(v)
      PROVE  st[v].attempt \in Nat /\ st[v].attempt # 0 /\ st[v].attempt <= attempts
  <2>1. st[v].attempt \in 1 .. attempts
    BY <1>1, <1>4 DEF SessionOK, Pending
  <2> QED
    BY <1>2, <2>1
<1> QED
  BY <1>1, <1>2, <1>3, <1>4

(* A pending session of the next state was one already, or has just packed. *)
LEMMA RevLocal ==
  ASSUME RevInv, TypeInv', NEW w \in Owners, NEW s, st' = [st EXCEPT ![w] = s],
         manifest' = manifest,
         s.seen \in {st[w].seen, manifest, NoManifest},
         s.pc \in PendingPCs => \/ Pending(w) /\ s.attempt = st[w].attempt
                                \/ s.attempt = attempts + 1,
         OperationOK(w, s)
  PROVE  RevInv'
<1>1. /\ TypeInv /\ SeenCurrent /\ AttemptsUnused /\ OperationsKnown
      /\ st \in [Owners -> Sessions] /\ attempts \in Nat
      /\ manifest.rev \in Nat /\ manifest.rev <= attempts
      /\ \A v \in Owners : st[v].seen.rev \in Nat /\ st[v].seen.rev <= attempts
      /\ \A v \in Owners : Pending(v) => st[v].attempt \in Nat /\ st[v].attempt # 0
                                         /\ st[v].attempt <= attempts
  BY NumbersTyped DEF RevInv
<1>2. NoManifest.rev = 0
  BY DEF NoManifest
<1>3. st'[w] = s /\ \A v \in Owners : v # w => st'[v] = st[v]
  BY <1>1
<1>4. SeenCurrent'
  BY <1>1, <1>2, <1>3 DEF SeenCurrent
<1>5. ASSUME NEW v \in Owners, st'[v].pc \in PendingPCs
      PROVE  /\ manifest.rev # st'[v].attempt
             /\ \A u \in Owners : st'[u].seen.rev # st'[v].attempt
             /\ \A u \in Owners : u # v /\ st'[u].pc \in PendingPCs =>
                                    st'[u].attempt # st'[v].attempt
  <2>1. \/ Pending(v) /\ st'[v].attempt = st[v].attempt
        \/ v = w /\ st'[v].attempt = attempts + 1
    BY <1>3, <1>5 DEF Pending
  <2>2. manifest.rev # st'[v].attempt /\ st'[v].attempt # 0
    BY <1>1, <2>1 DEF AttemptsUnused
  <2>3. ASSUME NEW u \in Owners
        PROVE  st[u].seen.rev # st'[v].attempt
    BY <1>1, <2>1 DEF AttemptsUnused
  <2>4. ASSUME NEW u \in Owners
        PROVE  st'[u].seen.rev # st'[v].attempt
    BY <1>2, <1>3, <2>2, <2>3
  <2>5. ASSUME NEW u \in Owners, u # v, st'[u].pc \in PendingPCs
        PROVE  st'[u].attempt # st'[v].attempt
    <3>1. \/ Pending(u) /\ st'[u].attempt = st[u].attempt
          \/ u = w /\ st'[u].attempt = attempts + 1
      BY <1>3, <2>5 DEF Pending
    <3> QED
      BY <1>1, <2>1, <2>5, <3>1 DEF AttemptsUnused
  <2> QED
    BY <2>2, <2>4, <2>5
<1>6. AttemptsUnused'
  BY <1>5 DEF AttemptsUnused, Pending
<1>7. OperationsKnown'
  BY <1>1, <1>3 DEF OperationsKnown, OperationOK, Does
<1> QED
  BY <1>4, <1>6, <1>7 DEF RevInv

(* A new revision is written, by nobody who goes on with an attempt. *)
LEMMA RevWrite ==
  ASSUME RevInv, TypeInv', NEW w \in Owners, NEW s, st' = [st EXCEPT ![w] = s],
         \/ Pending(w) /\ manifest'.rev = st[w].attempt
         \/ manifest'.rev = attempts + 1,
         s.seen \in {st[w].seen, NoManifest},
         s.pc \notin PendingPCs,
         OperationOK(w, s)
  PROVE  RevInv'
<1>1. /\ TypeInv /\ SeenCurrent /\ AttemptsUnused /\ OperationsKnown
      /\ st \in [Owners -> Sessions] /\ attempts \in Nat
      /\ \A v \in Owners : st[v].seen.rev \in Nat /\ st[v].seen.rev <= attempts
      /\ \A v \in Owners : Pending(v) => st[v].attempt \in Nat /\ st[v].attempt # 0
                                         /\ st[v].attempt <= attempts
  BY NumbersTyped DEF RevInv
<1>2. NoManifest.rev = 0
  BY DEF NoManifest
<1>3. st'[w] = s /\ \A v \in Owners : v # w => st'[v] = st[v]
  BY <1>1
<1>4. manifest'.rev # 0 /\ \A v \in Owners : st[v].seen.rev # manifest'.rev
  BY <1>1 DEF AttemptsUnused
<1>5. \A v \in Owners : st'[v].seen.rev # manifest'.rev
  BY <1>2, <1>3, <1>4
<1>6. SeenCurrent'
  BY <1>4, <1>5 DEF SeenCurrent
<1>7. ASSUME NEW v \in Owners, st'[v].pc \in PendingPCs
      PROVE  /\ manifest'.rev # st'[v].attempt
             /\ \A u \in Owners : st'[u].seen.rev # st'[v].attempt
             /\ \A u \in Owners : u # v /\ st'[u].pc \in PendingPCs =>
                                    st'[u].attempt # st'[v].attempt
  <2>1. v # w /\ Pending(v) /\ st'[v] = st[v]
    BY <1>3, <1>7 DEF Pending
  <2>2. manifest'.rev # st[v].attempt
    BY <1>1, <2>1 DEF AttemptsUnused
  <2>3. ASSUME NEW u \in Owners
        PROVE  st'[u].seen.rev # st[v].attempt
    BY <1>1, <1>2, <1>3, <2>1 DEF AttemptsUnused
  <2>4. ASSUME NEW u \in Owners, u # v, st'[u].pc \in PendingPCs
        PROVE  st'[u].attempt # st[v].attempt
    BY <1>1, <1>3, <2>1, <2>4 DEF AttemptsUnused, Pending
  <2> QED
    BY <2>1, <2>2, <2>3, <2>4
<1>8. AttemptsUnused'
  BY <1>7 DEF AttemptsUnused, Pending
<1>9. OperationsKnown'
  BY <1>1, <1>3 DEF OperationsKnown, OperationOK, Does
<1> QED
  BY <1>6, <1>8, <1>9 DEF RevInv

LEMMA UnmountedShape ==
  /\ Unmounted.pc = "idle" /\ Unmounted.op = "none" /\ Unmounted.seen = NoManifest
  /\ "idle" \notin PendingPCs
  /\ \A w \in Owners : OperationOK(w, Unmounted)
  BY DEF Unmounted, PendingPCs, OperationOK, WritingPCs

LEMMA DeletingShape ==
  ASSUME RevInv, NEW w \in Owners, NEW keys
  PROVE  /\ Deleting(w, keys).pc \in {"idle", "mounted", "cleanup"}
         /\ Deleting(w, keys).seen \in {st[w].seen, NoManifest}
         /\ OperationOK(w, Deleting(w, keys)) /\ OperationOK(w, Rested(w))
<1>1. st[w] \in Sessions /\ OperationOK(w, st[w])
  BY DEF RevInv, OperationsKnown, TypeInv, TypeOK
<1>2. /\ Rested(w).pc \in {"idle", "mounted"}
      /\ Rested(w).seen = NoManifest /\ Rested(w).op = "none"
  BY DEF Rested, Unmounted
<1>3. keys # {} => /\ Deleting(w, keys).pc = "cleanup"
                   /\ Deleting(w, keys).seen = st[w].seen
                   /\ Deleting(w, keys).op = st[w].op
  BY <1>1 DEF Deleting, Sessions
<1>4. keys = {} => Deleting(w, keys) = Rested(w)
  BY DEF Deleting
<1> QED
  BY <1>1, <1>2, <1>3, <1>4 DEF OperationOK, WritingPCs, PendingPCs

LEMMA RevForget ==
  ASSUME RevInv, TypeInv', NEW w \in Owners, Forget(w), manifest' = manifest
  PROVE  RevInv'
  BY RevLocal, UnmountedShape DEF Forget

LEMMA RevGoto ==
  ASSUME RevInv, TypeInv', NEW w \in Owners, NEW pc, Goto(w, pc), manifest' = manifest,
         pc \in PendingPCs => Pending(w), pc \notin {"readManifest", "pack"}
  PROVE  RevInv'
<1> DEFINE s == [st[w] EXCEPT !.pc = pc]
<1>1. st[w] \in Sessions /\ OperationOK(w, st[w])
  BY DEF RevInv, OperationsKnown, TypeInv, TypeOK
<1>2. s.pc = pc /\ s.seen = st[w].seen /\ s.op = st[w].op /\ s.attempt = st[w].attempt
  BY <1>1 DEF Sessions
<1>3. OperationOK(w, s)
  BY <1>1, <1>2 DEF OperationOK, WritingPCs, Pending
<1>4. st' = [st EXCEPT ![w] = s]
  BY DEF Goto
<1> HIDE DEF s
<1> QED
  BY <1>2, <1>3, <1>4, RevLocal

LEMMA RevAbort ==
  ASSUME RevInv, TypeInv', NEW w \in Owners, Abort(w), manifest' = manifest
  PROVE  RevInv'
<1> DEFINE s == Deleting(w, RolledBack(w))
<1>1. /\ s.seen \in {st[w].seen, NoManifest} /\ OperationOK(w, s)
      /\ s.pc \notin PendingPCs /\ st' = [st EXCEPT ![w] = s]
  BY DeletingShape DEF Abort, PendingPCs
<1> HIDE DEF s
<1> QED
  BY <1>1, RevLocal

LEMMA RevAbortCommitted ==
  ASSUME RevInv, TypeInv', NEW w \in Owners, Abort(w),
         Pending(w), manifest'.rev = st[w].attempt
  PROVE  RevInv'
<1> DEFINE s == Deleting(w, RolledBack(w))
<1>1. /\ s.seen \in {st[w].seen, NoManifest} /\ OperationOK(w, s)
      /\ s.pc \notin PendingPCs /\ st' = [st EXCEPT ![w] = s]
  BY DeletingShape DEF Abort, PendingPCs
<1> HIDE DEF s
<1> QED
  BY <1>1, RevWrite

LEMMA AttachRevInv ==
  ASSUME RevInv, TypeInv', NEW w \in Owners, Attach(w)
  PROVE  RevInv'
<1>0. st[w] \in Sessions /\ OperationOK(w, st[w])
  BY DEF RevInv, OperationsKnown, TypeInv, TypeOK
<1>1. CASE AttachRead(w)
  <2> DEFINE s == [st[w] EXCEPT !.pc = "attachLock", !.seen = manifest]
  <2>1. s.pc = "attachLock" /\ s.seen = manifest /\ s.op = st[w].op
    BY <1>0 DEF Sessions
  <2>2. OperationOK(w, s) /\ s.pc \notin PendingPCs
    BY <1>0, <2>1 DEF OperationOK, WritingPCs, PendingPCs
  <2>3. st' = [st EXCEPT ![w] = s] /\ manifest' = manifest
    BY <1>1 DEF AttachRead
  <2> HIDE DEF s
  <2> QED
    BY <2>1, <2>2, <2>3, RevLocal
<1>2. CASE AttachRefused(w)
  BY <1>2, RevForget DEF AttachRefused
<1>3. CASE AttachLock(w)
  <2> DEFINE s == [st[w] EXCEPT !.pc = "attachFetch",
                                !.adopted = (lease = [owner |-> w, live |-> TRUE])]
  <2>1. s.pc = "attachFetch" /\ s.seen = st[w].seen /\ s.op = st[w].op
    BY <1>0 DEF Sessions
  <2>2. OperationOK(w, s) /\ s.pc \notin PendingPCs
    BY <1>0, <2>1 DEF OperationOK, WritingPCs, PendingPCs
  <2>3. st' = [st EXCEPT ![w] = s] /\ manifest' = manifest
    BY <1>3 DEF AttachLock
  <2> HIDE DEF s
  <2> QED
    BY <2>1, <2>2, <2>3, RevLocal
<1>4. CASE AttachForce(w)
  BY <1>4, RevGoto DEF AttachForce, PendingPCs
<1>5. CASE AttachFetch(w)
  <2> DEFINE s == [Unmounted EXCEPT !.pc = "mounted", !.loop = LoopMounts(w),
                                    !.base = made[Source(w).encryption]]
  <2>1. s.pc = "mounted" /\ s.seen = NoManifest /\ s.op = "none"
    BY DEF Unmounted
  <2>2. OperationOK(w, s) /\ s.pc \notin PendingPCs
    BY <2>1 DEF OperationOK, PendingPCs
  <2>3. st' = [st EXCEPT ![w] = s] /\ manifest' = manifest
    BY <1>5 DEF AttachFetch
  <2> HIDE DEF s
  <2> QED
    BY <2>1, <2>2, <2>3, RevLocal
<1>6. CASE AttachBroken(w)
  BY <1>6, RevGoto DEF AttachBroken, PendingPCs
<1>7. CASE AttachAbort(w)
  BY <1>7, RevForget DEF AttachAbort
<1> QED
  BY <1>1, <1>2, <1>3, <1>4, <1>5, <1>6, <1>7 DEF Attach

LEMMA WriteRevInv ==
  ASSUME RevInv, TypeInv', NEW w \in Owners, Write(w)
  PROVE  RevInv'
<1>0. /\ TypeInv /\ st[w] \in Sessions /\ OperationOK(w, st[w])
      /\ st[w].pc \in WritingPCs => st[w].op # "none"
  BY DEF RevInv, OperationsKnown, TypeInv, TypeOK, AttemptsBound
<1>1. ASSUME NEW op \in {"create", "recreate"}, CreateStart(w, op)
      PROVE  RevInv'
  <2> DEFINE s == [st[w] EXCEPT !.pc = "pack", !.op = op, !.seen = manifest]
  <2>1. s.pc = "pack" /\ s.seen = manifest /\ s.op = op
    BY <1>0 DEF Sessions
  <2>2. /\ Does(w, op) /\ (op = "create" => manifest.rev = 0)
        /\ st' = [st EXCEPT ![w] = s] /\ manifest' = manifest
    BY <1>1 DEF CreateStart, Exists
  <2>3. OperationOK(w, s) /\ s.pc \notin PendingPCs
    BY <2>1, <2>2 DEF OperationOK, PendingPCs
  <2> HIDE DEF s
  <2> QED
    BY <2>1, <2>2, <2>3, RevLocal
<1>2. ASSUME NEW op \in {"save", "checkpoint"}, SaveStart(w, op)
      PROVE  RevInv'
  <2> DEFINE s == [st[w] EXCEPT !.pc = "readManifest", !.op = op]
  <2>1. s.pc = "readManifest" /\ s.seen = st[w].seen /\ s.op = op
    BY <1>0 DEF Sessions
  <2>2. Does(w, op) /\ st' = [st EXCEPT ![w] = s] /\ manifest' = manifest
    BY <1>2 DEF SaveStart
  <2>3. OperationOK(w, s) /\ s.pc \notin PendingPCs
    BY <2>1, <2>2 DEF OperationOK, PendingPCs
  <2> HIDE DEF s
  <2> QED
    BY <2>1, <2>2, <2>3, RevLocal
<1>3. CASE ReadManifest(w)
  <2> DEFINE s == [st[w] EXCEPT !.pc = "pack", !.seen = manifest]
  <2>1. s.pc = "pack" /\ s.seen = manifest /\ s.op = st[w].op
    BY <1>0 DEF Sessions
  <2>2. /\ st[w].pc = "readManifest"
        /\ st' = [st EXCEPT ![w] = s] /\ manifest' = manifest
    BY <1>3 DEF ReadManifest
  <2>3. OperationOK(w, s) /\ s.pc \notin PendingPCs
    BY <1>0, <2>1, <2>2 DEF OperationOK, PendingPCs
  <2> HIDE DEF s
  <2> QED
    BY <2>1, <2>2, <2>3, RevLocal
<1>4. CASE Pack(w)
  <2> DEFINE s == [st[w] EXCEPT !.pc = "putTree", !.attempt = attempts + 1,
                                !.image = PersistsImage(w),
                                !.base = st[w].base \cup {attempts + 1}]
  <2>1. /\ s.pc = "putTree" /\ s.seen = st[w].seen /\ s.op = st[w].op
        /\ s.attempt = attempts + 1
    BY <1>0 DEF Sessions
  <2>2. st[w].pc = "pack" /\ st' = [st EXCEPT ![w] = s] /\ manifest' = manifest
    BY <1>4 DEF Pack
  <2>3. OperationOK(w, s)
    BY <1>0, <2>1, <2>2 DEF OperationOK, WritingPCs
  <2> HIDE DEF s
  <2> QED
    BY <2>1, <2>2, <2>3, RevLocal
<1>5. CASE PackFails(w)
  <2>1. st' = [st EXCEPT ![w] = Rested(w)] /\ manifest' = manifest
    BY <1>5 DEF PackFails
  <2>2. Rested(w).seen = NoManifest /\ Rested(w).pc \notin PendingPCs /\ OperationOK(w, Rested(w))
    BY <1>0, RestedType, DeletingShape DEF PendingPCs
  <2> QED
    BY <2>1, <2>2, RevLocal
<1>6. CASE PutTree(w)
  <2> DEFINE s == [st[w] EXCEPT !.pc = IF st[w].image THEN "putImage" ELSE BeforeCommit(w),
                                !.written = {TargetKey(w)}]
  <2>1. /\ s.pc \in {"putImage", "reassert", "commit"} /\ s.seen = st[w].seen
        /\ s.op = st[w].op /\ s.attempt = st[w].attempt
    BY <1>0 DEF Sessions, BeforeCommit
  <2>2. Pending(w) /\ st' = [st EXCEPT ![w] = s] /\ manifest' = manifest
    BY <1>6 DEF PutTree, Pending, PendingPCs
  <2>3. OperationOK(w, s)
    BY <1>0, <2>1, <2>2 DEF OperationOK, WritingPCs, Pending
  <2> HIDE DEF s
  <2> QED
    BY <2>1, <2>2, <2>3, RevLocal
<1>7. CASE PutImage(w)
  <2> DEFINE s == [st[w] EXCEPT !.pc = BeforeCommit(w),
                                !.written = st[w].written \cup {ImageKey(st[w].attempt)}]
  <2>1. /\ s.pc \in {"reassert", "commit"} /\ s.seen = st[w].seen
        /\ s.op = st[w].op /\ s.attempt = st[w].attempt
    BY <1>0 DEF Sessions, BeforeCommit
  <2>2. Pending(w) /\ st' = [st EXCEPT ![w] = s] /\ manifest' = manifest
    BY <1>7 DEF PutImage, Pending, PendingPCs
  <2>3. OperationOK(w, s)
    BY <1>0, <2>1, <2>2 DEF OperationOK, WritingPCs, Pending
  <2> HIDE DEF s
  <2> QED
    BY <2>1, <2>2, <2>3, RevLocal
<1>8. CASE PutDataFails(w)
  <2>1. Abort(w) /\ manifest' = manifest
    BY <1>8 DEF PutDataFails
  <2> QED
    BY <2>1, RevAbort
<1>9. CASE Reassert(w)
  BY <1>9, RevGoto DEF Reassert, Pending, PendingPCs
<1>10. CASE ReassertFails(w)
  <2>1. Abort(w) /\ manifest' = manifest
    BY <1>10 DEF ReassertFails
  <2> QED
    BY <2>1, RevAbort
<1>11. CASE Commit(w)
  <2>1. Pending(w) /\ manifest' = Updated(w)
    BY <1>11 DEF Commit, Pending, PendingPCs
  <2>2. manifest'.rev = st[w].attempt
    BY <1>0, <2>1, UpdatedType
  <2>3. CASE Prunes(w)
    <3> DEFINE s == [st[w] EXCEPT !.pc = "list"]
    <3>1. s.pc = "list" /\ s.seen = st[w].seen /\ s.op = st[w].op
      BY <1>0 DEF Sessions
    <3>2. OperationOK(w, s) /\ s.pc \notin PendingPCs
      BY <1>0, <3>1 DEF OperationOK, WritingPCs, PendingPCs
    <3>3. st' = [st EXCEPT ![w] = s]
      BY <1>11, <2>3 DEF Commit, Goto
    <3> HIDE DEF s
    <3> QED
      BY <2>1, <2>2, <3>1, <3>2, <3>3, RevWrite
  <2>4. CASE ~Prunes(w)
    <3> DEFINE s == Deleting(w, Superseded(w))
    <3>1. /\ s.seen \in {st[w].seen, NoManifest} /\ OperationOK(w, s)
          /\ s.pc \notin PendingPCs
      BY DeletingShape DEF PendingPCs
    <3>2. st' = [st EXCEPT ![w] = s]
      BY <1>11, <2>4 DEF Commit
    <3> HIDE DEF s
    <3> QED
      BY <2>1, <2>2, <3>1, <3>2, RevWrite
  <2> QED
    BY <2>3, <2>4
<1>12. CASE CommitRefused(w)
  <2>1. Abort(w) /\ manifest' = manifest
    BY <1>12 DEF CommitRefused
  <2> QED
    BY <2>1, RevAbort
<1>13. CASE CommitFails(w)
  <2>1. Pending(w)
    BY <1>13 DEF CommitFails, Pending, PendingPCs
  <2>2. manifest' = manifest \/ manifest'.rev = st[w].attempt
    BY <1>0, <1>13, <2>1, UpdatedType DEF CommitFails
  <2>3. Abort(w)
    BY <1>13 DEF CommitFails
  <2> QED
    BY <2>1, <2>2, <2>3, RevAbort, RevAbortCommitted
<1>14. CASE List(w)
  <2> DEFINE s == Deleting(w, Listed(w))
  <2>1. /\ s.seen \in {st[w].seen, NoManifest} /\ OperationOK(w, s)
        /\ s.pc \notin PendingPCs
    BY DeletingShape DEF PendingPCs
  <2>2. st' = [st EXCEPT ![w] = s] /\ manifest' = manifest
    BY <1>14 DEF List
  <2> HIDE DEF s
  <2> QED
    BY <2>1, <2>2, RevLocal
<1>15. CASE Delete(w)
  <2>1. PICK k \in st[w].doomed : st' = [st EXCEPT ![w] = Deleting(w, st[w].doomed \ {k})]
    BY <1>15 DEF Delete
  <2> DEFINE s == Deleting(w, st[w].doomed \ {k})
  <2>2. /\ s.seen \in {st[w].seen, NoManifest} /\ OperationOK(w, s)
        /\ s.pc \notin PendingPCs
    BY DeletingShape DEF PendingPCs
  <2>3. st' = [st EXCEPT ![w] = s] /\ manifest' = manifest
    BY <1>15, <2>1 DEF Delete
  <2> HIDE DEF s
  <2> QED
    BY <2>2, <2>3, RevLocal
<1> QED
  BY <1>1, <1>2, <1>3, <1>4, <1>5, <1>6, <1>7, <1>8, <1>9, <1>10, <1>11, <1>12, <1>13,
     <1>14, <1>15 DEF Write

LEMMA OtherRevInv ==
  ASSUME RevInv, TypeInv', NEW w \in Owners,
         Detach(w) \/ Touch(w) \/ Renew(w) \/ Crash(w)
  PROVE  RevInv'
<1>0. TypeInv /\ st[w] \in Sessions /\ OperationOK(w, st[w])
  BY DEF RevInv, OperationsKnown, TypeInv, TypeOK
<1>u. ASSUME NEW pc \in {"releaseDelete", "crashed"},
             st' = [st EXCEPT ![w] = [Unmounted EXCEPT !.pc = pc]], manifest' = manifest
      PROVE  RevInv'
  <2> DEFINE s == [Unmounted EXCEPT !.pc = pc]
  <2>1. s.pc = pc /\ s.seen = NoManifest /\ s.op = "none"
    BY DEF Unmounted
  <2>2. OperationOK(w, s) /\ s.pc \notin PendingPCs
    BY <2>1 DEF OperationOK, PendingPCs
  <2> HIDE DEF s
  <2> QED
    BY <1>u, <2>1, <2>2, RevLocal DEF s
<1>1. CASE ReleaseRead(w)
  <2>1. CASE lease.owner = w /\ ~Does(w, "ownerless")
    BY <1>1, <1>u, <2>1 DEF ReleaseRead
  <2>2. CASE ~(lease.owner = w /\ ~Does(w, "ownerless"))
    BY <1>1, <2>2, RevForget DEF ReleaseRead
  <2> QED
    BY <2>1, <2>2
<1>2. CASE ReleaseDelete(w)
  BY <1>2, RevForget DEF ReleaseDelete
<1>3. CASE DetachFails(w)
  BY <1>3, RevForget DEF DetachFails
<1>4. CASE TouchRead(w)
  <2> DEFINE s == [st[w] EXCEPT !.pc = "touchPut", !.seen = manifest]
  <2>1. s.pc = "touchPut" /\ s.seen = manifest /\ s.op = st[w].op
    BY <1>0 DEF Sessions
  <2>2. OperationOK(w, s) /\ s.pc \notin PendingPCs
    BY <1>0, <2>1 DEF OperationOK, WritingPCs, PendingPCs
  <2>3. st' = [st EXCEPT ![w] = s] /\ manifest' = manifest
    BY <1>4 DEF TouchRead
  <2> HIDE DEF s
  <2> QED
    BY <2>1, <2>2, <2>3, RevLocal
<1>5. CASE TouchPut(w)
  <2>1. st[w].seen \in Manifests
    BY <1>0 DEF Sessions
  <2>2. manifest'.rev = attempts + 1 /\ st' = [st EXCEPT ![w] = Unmounted]
    BY <1>5, <2>1 DEF TouchPut, Forget, Manifests
  <2> QED
    BY <2>2, UnmountedShape, RevWrite
<1>6. CASE TouchRefused(w)
  BY <1>6, RevForget DEF TouchRefused
<1>7. CASE Renew(w)
  BY <1>7 DEF Renew, RevInv, SeenCurrent, AttemptsUnused, OperationsKnown, Pending,
              OperationOK, Does
<1>8. CASE Crash(w)
  BY <1>8, <1>u DEF Crash
<1> QED
  BY <1>1, <1>2, <1>3, <1>4, <1>5, <1>6, <1>7, <1>8 DEF Detach, Touch

LEMMA NextRevInv == RevInv /\ [Next]_vars => RevInv'
<1> SUFFICES ASSUME RevInv, [Next]_vars
             PROVE  RevInv'
  OBVIOUS
<1>0. TypeInv'
  BY NextTypeInv DEF RevInv
<1>1. ASSUME NEW w \in Owners,
             Attach(w) \/ Write(w) \/ Detach(w) \/ Touch(w) \/ Renew(w) \/ Crash(w)
      PROVE  RevInv'
  BY <1>0, <1>1, AttachRevInv, WriteRevInv, OtherRevInv
<1>2. CASE Expire
  BY <1>0, <1>2 DEF Expire, RevInv, SeenCurrent, AttemptsUnused, OperationsKnown, Pending,
                    OperationOK, Does
<1>3. CASE UNCHANGED vars
  BY <1>0, <1>3 DEF vars, RevInv, SeenCurrent, AttemptsUnused, OperationsKnown, Pending,
                    OperationOK, Does
<1> QED
  BY <1>1, <1>2, <1>3 DEF Next

(***************************************************************************)
(* What a step does to the manifest: nothing, the commit of an operation   *)
(* whose condition holds, or a new runtime state.                          *)
(***************************************************************************)
LEMMA ManifestSteps ==
  ASSUME [Next]_vars
  PROVE  \/ manifest' = manifest
         \/ \E w \in Owners : /\ st[w].pc = "commit" /\ CommitCondition(w)
                              /\ manifest' = Updated(w)
         \/ \E w \in Owners : /\ manifest.rev = st[w].seen.rev
                              /\ manifest' = [st[w].seen EXCEPT !.rev = attempts + 1]
<1>1. ASSUME NEW w \in Owners, Attach(w) \/ Detach(w) \/ Renew(w) \/ Crash(w)
      PROVE  manifest' = manifest
  <2>1. CASE Attach(w)
    BY <2>1 DEF Attach, AttachRead, AttachRefused, AttachLock, AttachForce, AttachFetch,
                AttachBroken, AttachAbort
  <2>2. CASE Detach(w)
    BY <2>2 DEF Detach, ReleaseRead, ReleaseDelete, DetachFails
  <2>3. CASE Renew(w) \/ Crash(w)
    BY <2>3 DEF Renew, Crash
  <2> QED
    BY <1>1, <2>1, <2>2, <2>3
<1>2. ASSUME NEW w \in Owners, Touch(w)
      PROVE  \/ manifest' = manifest
             \/ /\ manifest.rev = st[w].seen.rev
                /\ manifest' = [st[w].seen EXCEPT !.rev = attempts + 1]
  BY <1>2 DEF Touch, TouchRead, TouchPut, TouchRefused
<1>3. ASSUME NEW w \in Owners, Write(w)
      PROVE  \/ manifest' = manifest
             \/ /\ st[w].pc = "commit" /\ CommitCondition(w)
                /\ manifest' = Updated(w)
  <2>1. CASE Commit(w) \/ CommitFails(w)
    BY <2>1 DEF Commit, CommitFails
  <2>2. CASE ~(Commit(w) \/ CommitFails(w))
    BY <1>3, <2>2 DEF Write, CreateStart, SaveStart, ReadManifest, Pack, PackFails, PutTree,
                      PutImage, PutDataFails, Reassert, ReassertFails, CommitRefused, List, Delete
  <2> QED
    BY <2>1, <2>2
<1>4. CASE Expire \/ UNCHANGED vars
  BY <1>4 DEF Expire, vars
<1> QED
  BY <1>1, <1>2, <1>3, <1>4 DEF Next

LEMMA CommitFollows ==
  ASSUME RevInv, [Next]_vars
  PROVE  manifest' = manifest \/ Follows(manifest, manifest') \/ Recreation
<1>0. /\ TypeInv /\ SeenCurrent /\ OperationsKnown
      /\ manifest \in Manifests /\ Bounded(manifest) /\ st \in [Owners -> Sessions]
      /\ \A w \in Owners : st[w].pc \in WritingPCs => st[w].op # "none"
  BY DEF RevInv, TypeInv, TypeOK, AttemptsBound
<1>1. ASSUME NEW w \in Owners, st[w].pc = "commit", CommitCondition(w), manifest' = Updated(w)
      PROVE  Follows(manifest, manifest') \/ Recreation
  <2>1. /\ st[w].op \in {"create", "recreate", "save", "checkpoint"}
        /\ OperationOK(w, st[w]) /\ st[w].pc \in WritingPCs
    BY <1>0, <1>1 DEF OperationsKnown, Sessions, WritingPCs, PendingPCs
  <2>2. CASE st[w].op = "recreate"
    <3>1. Updated(w) = Created(w) /\ Does(w, "recreate")
      BY <2>1, <2>2 DEF Updated, OperationOK
    <3> QED
      BY <1>1, <3>1 DEF Recreation
  <2>3. CASE st[w].op = "create"
    <3>1. Updated(w) = Created(w) /\ manifest.rev = 0
      BY <1>1, <2>1, <2>3 DEF Updated, OperationOK, CommitCondition
    <3>2. manifest = NoManifest
      BY <1>0, <3>1 DEF SeenCurrent
    <3>3. manifest.generation = 0 /\ manifest.checkpointGeneration = 0
      BY <3>2 DEF NoManifest
    <3>4. Created(w).generation = 1 /\ Created(w).checkpointGeneration = 0
      BY DEF Created
    <3> QED
      BY <1>1, <3>1, <3>3, <3>4 DEF Follows
  <2>4. CASE st[w].op = "save"
    <3>1. Updated(w) = Saved(w) /\ st[w].seen = manifest
      BY <1>0, <1>1, <2>4 DEF Updated, CommitCondition, SeenCurrent
    <3>2. /\ Saved(w).generation = manifest.generation + 1
          /\ Saved(w).checkpointGeneration = manifest.checkpointGeneration
      BY <1>0, <3>1 DEF Saved, Manifests
    <3> QED
      BY <1>1, <3>1, <3>2 DEF Follows
  <2>5. CASE st[w].op = "checkpoint"
    <3>1. Updated(w) = Checkpointed(w) /\ st[w].seen = manifest
      BY <1>0, <1>1, <2>5 DEF Updated, CommitCondition, SeenCurrent
    <3>2. /\ Checkpointed(w).generation = manifest.generation
          /\ Checkpointed(w).checkpointGeneration = manifest.checkpointGeneration + 1
      BY <1>0, <3>1 DEF Checkpointed, Manifests
    <3> QED
      BY <1>1, <3>1, <3>2 DEF Follows
  <2> QED
    BY <2>1, <2>2, <2>3, <2>4, <2>5
<1>2. ASSUME NEW w \in Owners, manifest.rev = st[w].seen.rev,
             manifest' = [st[w].seen EXCEPT !.rev = attempts + 1]
      PROVE  Follows(manifest, manifest')
  <2>1. st[w].seen = manifest
    BY <1>0, <1>2 DEF SeenCurrent
  <2>2. manifest' = [manifest EXCEPT !.rev = attempts + 1]
    BY <1>2, <2>1
  <2>3. manifest'.rev = attempts + 1
    BY <1>0, <2>2 DEF Manifests
  <2> QED
    BY <2>2, <2>3 DEF Follows
<1> QED
  BY <1>1, <1>2, ManifestSteps

(***************************************************************************)
(* Whatever roles the sessions have and whatever fails, saves and          *)
(* checkpoints commit one after the other: a commit never counts a         *)
(* generation twice, skips one or starts from an outdated manifest.        *)
(***************************************************************************)
THEOREM Sequential == Spec => SequentialCommits
<1>1. Init => RevInv
  BY InitRevInv
<1>2. RevInv /\ [Next]_vars => RevInv'
  BY NextRevInv
<1>3. RevInv /\ [Next]_vars => [Follows(manifest, manifest') \/ Recreation]_manifest
  BY CommitFollows
<1> QED
  BY <1>1, <1>2, <1>3, PTL DEF Spec, SequentialCommits

-----------------------------------------------------------------------------
(* Readable manifests *)

(***************************************************************************)
(* The conditions under which a manifest stays readable: at most one       *)
(* session ever checkpoints, nobody recreates the context by force, and no *)
(* answer of the store is lost.  Each is needed: two sessions that         *)
(* checkpoint use one key, a forced create prunes what others commit, and  *)
(* a save whose answer is lost rolls back data that is committed.          *)
(***************************************************************************)
Orderly ==
  /\ \A v, w \in Owners : Does(v, "checkpoint") /\ Does(w, "checkpoint") => v = w
  /\ \A w \in Owners : ~Does(w, "recreate")
  /\ "lostAck" \notin Faults

(* The attempts a manifest m refers to. *)
Numbers(m) == {m.treeEncryption, m.imageEncryption, m.imageKey[2]}

(* m names its keys after its attempts or its checkpoints, and the objects o
   hold what it names; n attempts have been made. *)
ManifestSound(m, o, n) ==
  /\ m.treeKey \in {TreeKey(m.treeEncryption), CheckpointKey(m.checkpointGeneration)}
  /\ m.imageKey[1] = "image"
  /\ m.imageEncryption # 0 => m.imageKey = ImageKey(m.imageEncryption)
  /\ \A i \in Numbers(m) : i <= n
  /\ o[m.treeKey] = m.treeEncryption
  /\ m.imageEncryption # 0 => o[m.imageKey] = m.imageEncryption
  /\ \A i \in 1 .. m.checkpointGeneration : o[CheckpointKey(i)] # 0

(* k holds nothing that m points at. *)
Unneeded(k, m) == k # m.treeKey /\ (m.imageEncryption # 0 => k # m.imageKey)

(* The key state s uploads to: TargetKey(w) when s is w's. *)
TargetOf(s) ==
  IF s.op = "checkpoint" THEN CheckpointKey(s.seen.checkpointGeneration + 1)
  ELSE TreeKey(s.attempt)

(* w may delete k: the key of an attempt already made or of a checkpoint that
   does not exist yet. *)
Disposable(w, k, m, n) ==
  /\ Unneeded(k, m)
  /\ IsReplaceable(k) => k[2] <= n
  /\ ~IsReplaceable(k) => Does(w, "checkpoint") /\ k[2] > m.checkpointGeneration

(* w in state s uploads under keys of its own and deletes nothing m needs. *)
SessionSound(w, s, m, n) ==
  /\ s.pc # "list"
  /\ s.pc # "cleanup" => s.doomed = {}
  /\ s.pc \notin {"cleanup"} \cup PendingPCs => s.written = {}
  /\ s.pc \in PendingPCs =>
       /\ s.image => s.op # "checkpoint"
       /\ s.attempt \notin Numbers(m)
       /\ s.written \subseteq {TargetOf(s), ImageKey(s.attempt)}
  /\ s.op = "checkpoint" /\ s.pc \in {"pack"} \cup PendingPCs =>
       s.seen.checkpointGeneration = m.checkpointGeneration
  /\ \A k \in s.doomed : Disposable(w, k, m, n)

(* What s has uploaded is still there. *)
Uploaded(s, o) ==
  /\ s.pc \in {"putImage", "reassert", "commit"} => o[TargetOf(s)] = s.attempt
  /\ s.pc \in {"reassert", "commit"} /\ s.image => o[ImageKey(s.attempt)] = s.attempt

(* No key of attempt a is among what s deletes. *)
Spares(s, a) == \A k \in s.doomed : IsReplaceable(k) => k[2] # a

ReadInv ==
  /\ RevInv
  /\ ManifestSound(manifest, objects, attempts)
  /\ \A w \in Owners : SessionSound(w, st[w], manifest, attempts) /\ Uploaded(st[w], objects)
  /\ \A v, w \in Owners : Pending(v) => Spares(st[w], st[v].attempt)

LEMMA InitReadInv == Init => ReadInv
<1> SUFFICES ASSUME Init PROVE ReadInv
  OBVIOUS
<1>1. RevInv
  BY InitRevInv
<1>2. ManifestSound(manifest, objects, attempts)
  BY DEF Init, ManifestSound, NoManifest, Numbers, TreeKey, ImageKey, CheckpointKey, Keys
<1>3. /\ Unmounted.pc = "idle" /\ Unmounted.op = "none"
      /\ Unmounted.doomed = {} /\ Unmounted.written = {}
  BY DEF Unmounted
<1>4. \A w \in Owners : st[w] = Unmounted
  BY DEF Init
<1>5. \A w \in Owners : SessionSound(w, st[w], manifest, attempts) /\ Uploaded(st[w], objects)
  BY <1>3, <1>4 DEF SessionSound, Uploaded, PendingPCs
<1>6. \A v, w \in Owners : Pending(v) => Spares(st[w], st[v].attempt)
  BY <1>3, <1>4 DEF Spares
<1> QED
  BY <1>1, <1>2, <1>5, <1>6 DEF ReadInv

(* k matters to nobody but w. *)
Free(w, k) ==
  /\ Unneeded(k, manifest)
  /\ \A i \in 1 .. manifest.checkpointGeneration : k # CheckpointKey(i)
  /\ \A v \in Owners : v # w /\ Pending(v) =>
       k # TargetOf(st[v]) /\ k # ImageKey(st[v].attempt)

(***************************************************************************)
(* A step of w that leaves the manifest alone and touches only free keys.  *)
(***************************************************************************)
LEMMA ReadStep ==
  ASSUME ReadInv, RevInv', NEW w \in Owners, NEW s, st' = [st EXCEPT ![w] = s],
         manifest' = manifest, attempts <= attempts',
         \A k \in Keys : objects'[k] = objects[k] \/ Free(w, k),
         SessionSound(w, s, manifest, attempts'), Uploaded(s, objects'),
         \A v \in Owners : v # w /\ Pending(v) => Spares(s, st[v].attempt),
         s.pc \in PendingPCs => \/ Pending(w) /\ s.attempt = st[w].attempt
                                \/ s.attempt = attempts + 1
  PROVE  ReadInv'
<1>0. /\ RevInv /\ TypeInv /\ ManifestSound(manifest, objects, attempts)
      /\ manifest \in Manifests /\ st \in [Owners -> Sessions]
      /\ attempts \in Nat /\ attempts' \in Nat /\ MaxAttempt \in Nat
      /\ \A v \in Owners : Pending(v) => st[v].attempt # 0
      /\ \A v \in Owners : SessionSound(v, st[v], manifest, attempts)
                           /\ Uploaded(st[v], objects)
  <2>1. /\ RevInv /\ TypeInv /\ ManifestSound(manifest, objects, attempts)
        /\ manifest \in Manifests /\ st \in [Owners -> Sessions]
        /\ attempts \in Nat /\ attempts' \in Nat /\ MaxAttempt \in Nat
        /\ \A v \in Owners : SessionSound(v, st[v], manifest, attempts)
                             /\ Uploaded(st[v], objects)
    BY DEF ReadInv, RevInv, TypeInv, TypeOK
  <2> QED
    BY <2>1, NumbersTyped
<1>1. st'[w] = s /\ \A v \in Owners : v # w => st'[v] = st[v]
  BY <1>0
<1>2. ManifestSound(manifest', objects', attempts')
  <2>1. manifest.treeKey \in Keys /\ manifest.imageKey \in Keys
    BY <1>0 DEF Manifests
  <2>2. /\ objects'[manifest.treeKey] = objects[manifest.treeKey]
        /\ manifest.imageEncryption # 0 =>
             objects'[manifest.imageKey] = objects[manifest.imageKey]
    BY <2>1 DEF Free, Unneeded
  <2>3. ASSUME NEW i \in 1 .. manifest.checkpointGeneration
        PROVE  objects'[CheckpointKey(i)] # 0
    <3>1. CheckpointKey(i) \in Keys
      BY <1>0 DEF Manifests, CheckpointKey, Keys
    <3>2. objects'[CheckpointKey(i)] = objects[CheckpointKey(i)]
      BY <3>1 DEF Free
    <3> QED
      BY <1>0, <3>2 DEF ManifestSound
  <2>4. \A i \in Numbers(manifest) : i <= attempts'
    <3>1. Numbers(manifest) \subseteq Nat
      BY <1>0 DEF Numbers, Manifests, Keys
    <3> QED
      BY <1>0, <3>1 DEF ManifestSound
  <2> QED
    BY <1>0, <2>2, <2>3, <2>4 DEF ManifestSound
<1>3. ASSUME NEW v \in Owners
      PROVE  SessionSound(v, st'[v], manifest', attempts') /\ Uploaded(st'[v], objects')
  <2>1. CASE v = w
    BY <1>1, <2>1
  <2>2. CASE v # w
    <3>1. st'[v] = st[v] /\ SessionSound(v, st[v], manifest, attempts)
          /\ Uploaded(st[v], objects) /\ st[v] \in Sessions
      BY <1>0, <1>1, <2>2
    <3>2. \A k \in st[v].doomed : k[2] \in Nat
      BY <1>0, <3>1 DEF Sessions, Keys
    <3>3. SessionSound(v, st[v], manifest, attempts')
      BY <1>0, <3>1, <3>2 DEF SessionSound, Disposable
    <3>4. Pending(v) => TargetOf(st[v]) \in Keys /\ ImageKey(st[v].attempt) \in Keys
      BY <1>0, TargetKeyType DEF TargetKey, TargetOf
    <3>5. Pending(v) => /\ objects'[TargetOf(st[v])] = objects[TargetOf(st[v])]
                        /\ objects'[ImageKey(st[v].attempt)] = objects[ImageKey(st[v].attempt)]
      BY <2>2, <3>4 DEF Free
    <3>6. Uploaded(st[v], objects')
      BY <3>1, <3>5 DEF Uploaded, Pending, PendingPCs
    <3> QED
      BY <3>1, <3>3, <3>6
  <2> QED
    BY <2>1, <2>2
<1>4. ASSUME NEW v \in Owners, NEW u \in Owners, st'[v].pc \in PendingPCs
      PROVE  Spares(st'[u], st'[v].attempt)
  <2>1. CASE u = v
    <3>1. st'[u].doomed = {}
      BY <1>3, <1>4, <2>1 DEF SessionSound, PendingPCs
    <3> QED
      BY <3>1 DEF Spares
  <2>2. CASE u # v /\ v = w
    <3>1. st'[u] = st[u] /\ SessionSound(u, st[u], manifest, attempts) /\ st[u] \in Sessions
      BY <1>0, <1>1, <2>2
    <3>2. CASE Pending(w) /\ s.attempt = st[w].attempt
      BY <1>1, <2>2, <3>1, <3>2 DEF ReadInv
    <3>3. CASE s.attempt = attempts + 1
      <4>1. \A k \in st[u].doomed : k[2] \in Nat /\ (IsReplaceable(k) => k[2] <= attempts)
        BY <1>0, <3>1 DEF SessionSound, Disposable, Sessions, Keys
      <4> QED
        BY <1>0, <1>1, <2>2, <3>1, <3>3, <4>1 DEF Spares
    <3> QED
      BY <1>1, <1>4, <2>2, <3>2, <3>3
  <2>3. CASE v # w /\ u = w
    BY <1>1, <1>4, <2>3 DEF Pending
  <2>4. CASE v # w /\ u # w
    BY <1>1, <1>4, <2>4 DEF ReadInv, Pending
  <2> QED
    BY <2>1, <2>2, <2>3, <2>4
<1> QED
  BY <1>2, <1>3, <1>4 DEF ReadInv, Pending


LEMMA DoomedFree ==
  ASSUME ReadInv, Orderly, NEW w \in Owners, NEW k \in st[w].doomed
  PROVE  Free(w, k)
<1>1. /\ SessionSound(w, st[w], manifest, attempts) /\ OperationsKnown
      /\ st[w] \in Sessions /\ manifest \in Manifests
  BY DEF ReadInv, RevInv, TypeInv, TypeOK
<1>2. /\ Unneeded(k, manifest)
      /\ ~IsReplaceable(k) => Does(w, "checkpoint") /\ k[2] > manifest.checkpointGeneration
  BY <1>1 DEF SessionSound, Disposable
<1>3. ASSUME NEW i \in 1 .. manifest.checkpointGeneration
      PROVE  k # CheckpointKey(i)
  BY <1>1, <1>2 DEF CheckpointKey, IsReplaceable, Manifests
<1>4. ASSUME NEW v \in Owners, v # w, Pending(v)
      PROVE  k # TargetOf(st[v]) /\ k # ImageKey(st[v].attempt)
  <2>1. Spares(st[w], st[v].attempt)
    BY <1>4 DEF ReadInv
  <2>2. k # ImageKey(st[v].attempt) /\ k # TreeKey(st[v].attempt)
    BY <2>1 DEF Spares, ImageKey, TreeKey, IsReplaceable
  <2>3. CASE st[v].op = "checkpoint"
    <3>1. Does(v, "checkpoint")
      BY <1>1, <2>3 DEF OperationsKnown, OperationOK
    <3>2. ~Does(w, "checkpoint")
      BY <1>4, <3>1 DEF Orderly
    <3>3. IsReplaceable(k)
      BY <1>2, <3>2
    <3> QED
      BY <2>2, <2>3, <3>3 DEF TargetOf, CheckpointKey, IsReplaceable
  <2>4. CASE st[v].op # "checkpoint"
    BY <2>2, <2>4 DEF TargetOf
  <2> QED
    BY <2>3, <2>4
<1> QED
  BY <1>2, <1>3, <1>4 DEF Free

LEMMA TargetFree ==
  ASSUME ReadInv, Orderly, NEW w \in Owners, Pending(w)
  PROVE  /\ TargetKey(w) = TargetOf(st[w])
         /\ Free(w, TargetKey(w)) /\ Free(w, ImageKey(st[w].attempt))
<1>1. /\ SessionSound(w, st[w], manifest, attempts) /\ OperationsKnown /\ AttemptsUnused
      /\ st \in [Owners -> Sessions] /\ manifest \in Manifests
      /\ ManifestSound(manifest, objects, attempts)
  BY DEF ReadInv, RevInv, TypeInv, TypeOK
<1>2. TargetKey(w) = TargetOf(st[w])
  BY DEF TargetKey, TargetOf
<1>3. st[w].attempt \notin Numbers(manifest)
  BY <1>1 DEF SessionSound, Pending
<1>4. Unneeded(ImageKey(st[w].attempt), manifest) /\ Unneeded(TreeKey(st[w].attempt), manifest)
  BY <1>1, <1>3 DEF ManifestSound, Numbers, Unneeded, ImageKey, TreeKey, CheckpointKey
<1>5. ASSUME NEW v \in Owners, v # w, Pending(v)
      PROVE  /\ ImageKey(st[w].attempt) # TargetOf(st[v])
             /\ ImageKey(st[w].attempt) # ImageKey(st[v].attempt)
             /\ TreeKey(st[w].attempt) # TargetOf(st[v])
             /\ TreeKey(st[w].attempt) # ImageKey(st[v].attempt)
  <2>1. st[w].attempt # st[v].attempt
    BY <1>1, <1>5 DEF AttemptsUnused
  <2> QED
    BY <2>1 DEF TargetOf, ImageKey, TreeKey, CheckpointKey
<1>6. Free(w, ImageKey(st[w].attempt))
  BY <1>4, <1>5 DEF Free, ImageKey, CheckpointKey
<1>7. CASE st[w].op # "checkpoint"
  <2>1. TargetKey(w) = TreeKey(st[w].attempt)
    BY <1>7 DEF TargetKey
  <2>2. Free(w, TreeKey(st[w].attempt))
    BY <1>4, <1>5 DEF Free, TreeKey, CheckpointKey
  <2> QED
    BY <1>2, <1>6, <2>1, <2>2
<1>8. CASE st[w].op = "checkpoint"
  <2> DEFINE c == manifest.checkpointGeneration
  <2>1. c \in Nat /\ TargetKey(w) = CheckpointKey(c + 1)
    BY <1>1, <1>8 DEF SessionSound, TargetKey, Manifests, Pending
  <2>2. Unneeded(CheckpointKey(c + 1), manifest)
    BY <1>1, <2>1 DEF ManifestSound, Unneeded, CheckpointKey, TreeKey
  <2>3. \A i \in 1 .. c : CheckpointKey(c + 1) # CheckpointKey(i)
    BY <2>1 DEF CheckpointKey
  <2>4. ASSUME NEW v \in Owners, v # w, Pending(v)
        PROVE  /\ CheckpointKey(c + 1) # TargetOf(st[v])
               /\ CheckpointKey(c + 1) # ImageKey(st[v].attempt)
    <3>1. Does(w, "checkpoint") /\ (st[v].op = "checkpoint" => Does(v, "checkpoint"))
      BY <1>1, <1>8 DEF OperationsKnown, OperationOK
    <3>2. st[v].op # "checkpoint"
      BY <2>4, <3>1 DEF Orderly
    <3> QED
      BY <3>2 DEF TargetOf, TreeKey, ImageKey, CheckpointKey
  <2>5. Free(w, CheckpointKey(c + 1))
    BY <2>2, <2>3, <2>4 DEF Free
  <2> QED
    BY <1>2, <1>6, <2>1, <2>5
<1> QED
  BY <1>7, <1>8

(* A step to a state that neither uploads nor deletes. *)
LEMMA ReadQuiet ==
  ASSUME ReadInv, RevInv', NEW w \in Owners, NEW s, st' = [st EXCEPT ![w] = s],
         UNCHANGED <<objects, manifest, attempts>>,
         s.pc \notin {"list"} \cup PendingPCs, s.doomed = {}, s.written = {},
         s.pc = "pack" => s.seen = manifest
  PROVE  ReadInv'
<1>1. SessionSound(w, s, manifest, attempts') /\ Uploaded(s, objects')
  BY DEF SessionSound, Uploaded, PendingPCs
<1>2. \A a : Spares(s, a)
  BY DEF Spares
<1>3. attempts <= attempts' /\ manifest' = manifest
  BY DEF ReadInv, RevInv, TypeInv, TypeOK
<1>4. \A k \in Keys : objects'[k] = objects[k] \/ Free(w, k)
  OBVIOUS
<1>5. s.pc \notin PendingPCs
  OBVIOUS
<1> QED
  BY <1>1, <1>2, <1>3, <1>4, <1>5, ReadStep

LEMMA ReadForget ==
  ASSUME ReadInv, RevInv', NEW w \in Owners, Forget(w),
         UNCHANGED <<objects, manifest, attempts>>
  PROVE  ReadInv'
<1>1. Unmounted.pc = "idle" /\ Unmounted.doomed = {} /\ Unmounted.written = {}
  BY DEF Unmounted
<1> QED
  BY <1>1, ReadQuiet DEF Forget, PendingPCs

LEMMA ReadGoto ==
  ASSUME ReadInv, RevInv', NEW w \in Owners, NEW pc, Goto(w, pc),
         UNCHANGED <<objects, manifest, attempts>>,
         st[w].pc \notin {"cleanup"} \cup PendingPCs,
         pc \notin {"pack", "list"} \cup PendingPCs
  PROVE  ReadInv'
<1> DEFINE s == [st[w] EXCEPT !.pc = pc]
<1>1. st[w] \in Sessions /\ st[w].doomed = {} /\ st[w].written = {}
  BY DEF ReadInv, RevInv, TypeInv, TypeOK, SessionSound
<1>2. s.pc = pc /\ s.doomed = {} /\ s.written = {} /\ st' = [st EXCEPT ![w] = s]
  BY <1>1 DEF Sessions, Goto
<1> HIDE DEF s
<1> QED
  BY <1>2, ReadQuiet

(* A step that ends an operation, or takes the next step of a deletion. *)
LEMMA ReadDeleting ==
  ASSUME ReadInv, RevInv', NEW w \in Owners, NEW keys,
         st' = [st EXCEPT ![w] = Deleting(w, keys)],
         UNCHANGED <<manifest, attempts>>,
         \A k \in Keys : objects'[k] = objects[k] \/ Free(w, k),
         \A k \in keys : Disposable(w, k, manifest, attempts),
         \A v \in Owners : v # w /\ Pending(v) =>
           \A k \in keys : IsReplaceable(k) => k[2] # st[v].attempt
  PROVE  ReadInv'
<1> DEFINE s == Deleting(w, keys)
<1>1. st[w] \in Sessions /\ attempts <= attempts'
  BY DEF ReadInv, RevInv, TypeInv, TypeOK
<1>2. /\ Rested(w).pc \in {"idle", "mounted"}
      /\ Rested(w).doomed = {} /\ Rested(w).written = {}
  BY DEF Rested, Unmounted
<1>3. s.pc \in {"idle", "mounted", "cleanup"} /\ s.doomed \in {{}, keys}
      /\ (s.pc # "cleanup" => s.doomed = {} /\ s.written = {})
  BY <1>1, <1>2 DEF Deleting, Sessions
<1>4. st' = [st EXCEPT ![w] = s] /\ manifest' = manifest
  OBVIOUS
<1> HIDE DEF s
<1>5. SessionSound(w, s, manifest, attempts') /\ Uploaded(s, objects')
  BY <1>3 DEF SessionSound, Uploaded, PendingPCs
<1>6. \A v \in Owners : v # w /\ Pending(v) => Spares(s, st[v].attempt)
  BY <1>3 DEF Spares
<1>7. s.pc \notin PendingPCs
  BY <1>3 DEF PendingPCs
<1> QED
  BY <1>1, <1>4, <1>5, <1>6, <1>7, ReadStep

(* The keys an operation rolls back are its own. *)
LEMMA ReadAbort ==
  ASSUME ReadInv, RevInv', Orderly, NEW w \in Owners, Pending(w), Abort(w),
         UNCHANGED <<objects, manifest, attempts>>
  PROVE  ReadInv'
<1> DEFINE keys == RolledBack(w)
<1>1. /\ SessionSound(w, st[w], manifest, attempts) /\ AttemptsUnused /\ OperationsKnown
      /\ st[w].attempt \in Nat /\ st[w].attempt <= attempts
      /\ manifest \in Manifests
  BY NumbersTyped DEF ReadInv, RevInv, TypeInv, TypeOK
<1>2. keys \subseteq {TargetKey(w), ImageKey(st[w].attempt)}
  BY <1>1, TargetFree DEF RolledBack, SessionSound, Pending
<1>3. \A k \in keys : Unneeded(k, manifest)
  BY <1>2, TargetFree DEF Free
<1>4. ASSUME NEW k \in keys
      PROVE  /\ IsReplaceable(k) => k[2] = st[w].attempt
             /\ ~IsReplaceable(k) => Does(w, "checkpoint") /\ k[2] > manifest.checkpointGeneration
  <2>1. k = ImageKey(st[w].attempt) \/ k = TargetKey(w)
    BY <1>2
  <2>2. st[w].op = "checkpoint" =>
          /\ Does(w, "checkpoint")
          /\ st[w].seen.checkpointGeneration = manifest.checkpointGeneration
    BY <1>1 DEF OperationsKnown, OperationOK, SessionSound, Pending
  <2> QED
    BY <1>1, <2>1, <2>2 DEF TargetKey, ImageKey, TreeKey, CheckpointKey, IsReplaceable, Manifests
<1>5. \A k \in keys : Disposable(w, k, manifest, attempts)
  BY <1>1, <1>3, <1>4 DEF Disposable
<1>6. \A v \in Owners : v # w /\ Pending(v) => st[v].attempt # st[w].attempt
  BY <1>1 DEF AttemptsUnused
<1>7. /\ st' = [st EXCEPT ![w] = Deleting(w, keys)]
      /\ UNCHANGED <<manifest, attempts>>
      /\ \A k \in Keys : objects'[k] = objects[k] \/ Free(w, k)
  BY DEF Abort
<1> HIDE DEF keys
<1>8. \A v \in Owners : v # w /\ Pending(v) =>
        \A k \in keys : IsReplaceable(k) => k[2] # st[v].attempt
  BY <1>4, <1>6
<1> QED
  BY <1>5, <1>7, <1>8, ReadDeleting

LEMMA AttachReadInv ==
  ASSUME ReadInv, RevInv', NEW w \in Owners, Attach(w)
  PROVE  ReadInv'
<1>0. st[w] \in Sessions /\ SessionSound(w, st[w], manifest, attempts)
  BY DEF ReadInv, RevInv, TypeInv, TypeOK
<1>1. CASE AttachRead(w)
  <2> DEFINE s == [st[w] EXCEPT !.pc = "attachLock", !.seen = manifest]
  <2>1. s.pc = "attachLock" /\ s.doomed = {} /\ s.written = {}
    BY <1>0, <1>1 DEF AttachRead, SessionSound, Sessions, PendingPCs
  <2>2. st' = [st EXCEPT ![w] = s] /\ UNCHANGED <<objects, manifest, attempts>>
    BY <1>1 DEF AttachRead
  <2> HIDE DEF s
  <2> QED
    BY <2>1, <2>2, ReadQuiet DEF PendingPCs
<1>2. CASE AttachRefused(w)
  BY <1>2, ReadForget DEF AttachRefused
<1>3. CASE AttachLock(w)
  <2> DEFINE s == [st[w] EXCEPT !.pc = "attachFetch",
                                !.adopted = (lease = [owner |-> w, live |-> TRUE])]
  <2>1. s.pc = "attachFetch" /\ s.doomed = {} /\ s.written = {}
    BY <1>0, <1>3 DEF AttachLock, SessionSound, Sessions, PendingPCs
  <2>2. st' = [st EXCEPT ![w] = s] /\ UNCHANGED <<objects, manifest, attempts>>
    BY <1>3 DEF AttachLock
  <2> HIDE DEF s
  <2> QED
    BY <2>1, <2>2, ReadQuiet DEF PendingPCs
<1>4. CASE AttachForce(w)
  BY <1>4, ReadGoto DEF AttachForce, PendingPCs
<1>5. CASE AttachFetch(w)
  <2> DEFINE s == [Unmounted EXCEPT !.pc = "mounted", !.loop = LoopMounts(w),
                                    !.base = made[Source(w).encryption]]
  <2>1. s.pc = "mounted" /\ s.doomed = {} /\ s.written = {}
    BY DEF Unmounted
  <2>2. st' = [st EXCEPT ![w] = s] /\ UNCHANGED <<objects, manifest, attempts>>
    BY <1>5 DEF AttachFetch
  <2> HIDE DEF s
  <2> QED
    BY <2>1, <2>2, ReadQuiet DEF PendingPCs
<1>6. CASE AttachBroken(w)
  BY <1>6, ReadGoto DEF AttachBroken, PendingPCs
<1>7. CASE AttachAbort(w)
  BY <1>7, ReadForget DEF AttachAbort
<1> QED
  BY <1>1, <1>2, <1>3, <1>4, <1>5, <1>6, <1>7 DEF Attach

LEMMA WriteReadInv ==
  ASSUME ReadInv, RevInv', Orderly, NEW w \in Owners, Write(w), ~Commit(w)
  PROVE  ReadInv'
<1>0. /\ st[w] \in Sessions /\ SessionSound(w, st[w], manifest, attempts)
      /\ Uploaded(st[w], objects) /\ TypeInv /\ st \in [Owners -> Sessions]
      /\ manifest \in Manifests /\ objects \in [Keys -> 0 .. MaxAttempt]
      /\ ManifestSound(manifest, objects, attempts) /\ attempts \in Nat
  BY DEF ReadInv, RevInv, TypeInv, TypeOK
<1>1. ASSUME NEW op \in {"create", "recreate"}, CreateStart(w, op)
      PROVE  ReadInv'
  <2> DEFINE s == [st[w] EXCEPT !.pc = "pack", !.op = op, !.seen = manifest]
  <2>1. s.pc = "pack" /\ s.seen = manifest /\ s.doomed = {} /\ s.written = {}
    BY <1>0, <1>1 DEF CreateStart, SessionSound, Sessions, PendingPCs
  <2>2. st' = [st EXCEPT ![w] = s] /\ UNCHANGED <<objects, manifest, attempts>>
    BY <1>1 DEF CreateStart
  <2> HIDE DEF s
  <2> QED
    BY <2>1, <2>2, ReadQuiet DEF PendingPCs
<1>2. ASSUME NEW op \in {"save", "checkpoint"}, SaveStart(w, op)
      PROVE  ReadInv'
  <2> DEFINE s == [st[w] EXCEPT !.pc = "readManifest", !.op = op]
  <2>1. s.pc = "readManifest" /\ s.doomed = {} /\ s.written = {}
    BY <1>0, <1>2 DEF SaveStart, SessionSound, Sessions, PendingPCs
  <2>2. st' = [st EXCEPT ![w] = s] /\ UNCHANGED <<objects, manifest, attempts>>
    BY <1>2 DEF SaveStart
  <2> HIDE DEF s
  <2> QED
    BY <2>1, <2>2, ReadQuiet DEF PendingPCs
<1>3. CASE ReadManifest(w)
  <2> DEFINE s == [st[w] EXCEPT !.pc = "pack", !.seen = manifest]
  <2>1. s.pc = "pack" /\ s.seen = manifest /\ s.doomed = {} /\ s.written = {}
    BY <1>0, <1>3 DEF ReadManifest, SessionSound, Sessions, PendingPCs
  <2>2. st' = [st EXCEPT ![w] = s] /\ UNCHANGED <<objects, manifest, attempts>>
    BY <1>3 DEF ReadManifest
  <2> HIDE DEF s
  <2> QED
    BY <2>1, <2>2, ReadQuiet DEF PendingPCs
<1>4. CASE Pack(w)
  <2> DEFINE s == [st[w] EXCEPT !.pc = "putTree", !.attempt = attempts + 1,
                                !.image = PersistsImage(w),
                                !.base = st[w].base \cup {attempts + 1}]
  <2>1. /\ s.pc = "putTree" /\ s.seen = st[w].seen /\ s.op = st[w].op
        /\ s.attempt = attempts + 1 /\ s.image = PersistsImage(w)
        /\ s.doomed = {} /\ s.written = {}
    BY <1>0, <1>4 DEF Pack, SessionSound, Sessions, PendingPCs
  <2>2. /\ st[w].pc = "pack" /\ st' = [st EXCEPT ![w] = s]
        /\ UNCHANGED <<objects, manifest>> /\ attempts' = attempts + 1
    BY <1>4 DEF Pack
  <2> HIDE DEF s
  <2>3. s.image => s.op # "checkpoint"
    BY <2>1 DEF PersistsImage
  <2>4. attempts + 1 \notin Numbers(manifest)
    <3>1. Numbers(manifest) \subseteq Nat
      BY <1>0 DEF Numbers, Manifests, Keys
    <3> QED
      BY <1>0, <3>1 DEF ManifestSound
  <2>5. SessionSound(w, s, manifest, attempts') /\ Uploaded(s, objects')
    BY <1>0, <2>1, <2>2, <2>3, <2>4 DEF SessionSound, Uploaded, PendingPCs
  <2>6. \A a : Spares(s, a)
    BY <2>1 DEF Spares
  <2>7. /\ attempts <= attempts' /\ manifest' = manifest
        /\ \A k \in Keys : objects'[k] = objects[k] \/ Free(w, k)
    BY <1>0, <2>2
  <2> QED
    BY <2>1, <2>2, <2>5, <2>6, <2>7, ReadStep
<1>5. CASE PackFails(w)
  <2>1. st' = [st EXCEPT ![w] = Rested(w)] /\ UNCHANGED <<objects, manifest, attempts>>
    BY <1>5 DEF PackFails
  <2>2. /\ Rested(w).pc \in {"idle", "mounted"}
        /\ Rested(w).doomed = {} /\ Rested(w).written = {}
    BY DEF Rested, Unmounted
  <2> QED
    BY <2>1, <2>2, ReadQuiet DEF PendingPCs
<1>6. CASE PutTree(w)
  <2> DEFINE s == [st[w] EXCEPT !.pc = IF st[w].image THEN "putImage" ELSE BeforeCommit(w),
                                !.written = {TargetKey(w)}]
  <2>1. /\ s.pc \in {"putImage", "reassert", "commit"} /\ s.seen = st[w].seen
        /\ s.op = st[w].op /\ s.attempt = st[w].attempt /\ s.doomed = {}
        /\ s.image = st[w].image /\ s.written = {TargetKey(w)}
        /\ s.image => s.pc = "putImage"
    BY <1>0, <1>6 DEF PutTree, SessionSound, Sessions, BeforeCommit
  <2>2. /\ Pending(w) /\ st' = [st EXCEPT ![w] = s] /\ UNCHANGED <<manifest, attempts>>
        /\ objects' = [objects EXCEPT ![TargetKey(w)] = st[w].attempt]
    BY <1>6 DEF PutTree, Pending, PendingPCs, Put
  <2> HIDE DEF s
  <2>3. TargetOf(s) = TargetKey(w) /\ TargetKey(w) \in Keys
    BY <1>0, <2>1, <2>2, TargetKeyType DEF TargetOf, TargetKey, Pending
  <2>4. SessionSound(w, s, manifest, attempts')
    BY <1>0, <2>1, <2>2, <2>3 DEF SessionSound, PendingPCs, Pending
  <2>5. Uploaded(s, objects')
    BY <1>0, <2>1, <2>2, <2>3 DEF Uploaded
  <2>6. \A a : Spares(s, a)
    BY <2>1 DEF Spares
  <2>7. \A k \in Keys : objects'[k] = objects[k] \/ Free(w, k)
    BY <1>0, <2>2, TargetFree
  <2>8. /\ Pending(w) /\ s.attempt = st[w].attempt /\ st' = [st EXCEPT ![w] = s]
        /\ manifest' = manifest /\ attempts <= attempts'
    BY <1>0, <2>1, <2>2
  <2> QED
    BY <2>4, <2>5, <2>6, <2>7, <2>8, ReadStep
<1>7. CASE PutImage(w)
  <2> DEFINE s == [st[w] EXCEPT !.pc = BeforeCommit(w),
                                !.written = st[w].written \cup {ImageKey(st[w].attempt)}]
  <2>1. /\ s.pc \in {"reassert", "commit"} /\ s.seen = st[w].seen
        /\ s.op = st[w].op /\ s.attempt = st[w].attempt /\ s.doomed = {}
        /\ s.image = st[w].image
        /\ s.written = st[w].written \cup {ImageKey(st[w].attempt)}
    BY <1>0, <1>7 DEF PutImage, SessionSound, Sessions, BeforeCommit
  <2>2. /\ Pending(w) /\ st' = [st EXCEPT ![w] = s] /\ UNCHANGED <<manifest, attempts>>
        /\ objects' = [objects EXCEPT ![ImageKey(st[w].attempt)] = st[w].attempt]
        /\ st[w].pc = "putImage"
    BY <1>7 DEF PutImage, Pending, PendingPCs, Put
  <2> HIDE DEF s
  <2>3. /\ TargetOf(s) = TargetOf(st[w]) /\ ImageKey(st[w].attempt) \in Keys
        /\ TargetOf(s) # ImageKey(st[w].attempt)
    BY <1>0, <2>1 DEF TargetOf, ImageKey, TreeKey, CheckpointKey, Keys, Sessions
  <2>4. TargetOf(s) \in Keys
    BY <1>0, <2>2, <2>3, TargetKeyType DEF TargetOf, TargetKey, Pending
  <2>5. SessionSound(w, s, manifest, attempts')
    BY <1>0, <2>1, <2>2, <2>3 DEF SessionSound, PendingPCs, Pending
  <2>6. Uploaded(s, objects')
    BY <1>0, <2>1, <2>2, <2>3, <2>4 DEF Uploaded
  <2>7. \A a : Spares(s, a)
    BY <2>1 DEF Spares
  <2>8. \A k \in Keys : objects'[k] = objects[k] \/ Free(w, k)
    BY <1>0, <2>2, TargetFree
  <2>9. /\ Pending(w) /\ s.attempt = st[w].attempt /\ st' = [st EXCEPT ![w] = s]
        /\ manifest' = manifest /\ attempts <= attempts'
    BY <1>0, <2>1, <2>2
  <2> QED
    BY <2>5, <2>6, <2>7, <2>8, <2>9, ReadStep
<1>8. CASE PutDataFails(w) \/ ReassertFails(w) \/ CommitRefused(w) \/ CommitFails(w)
  <2>1. Pending(w) /\ Abort(w) /\ UNCHANGED <<objects, manifest, attempts>>
    BY <1>8 DEF PutDataFails, ReassertFails, CommitRefused, CommitFails, Pending, PendingPCs,
                Orderly
  <2> QED
    BY <2>1, ReadAbort
<1>9. CASE Reassert(w)
  <2> DEFINE s == [st[w] EXCEPT !.pc = "commit"]
  <2>1. /\ s.pc = "commit" /\ s.seen = st[w].seen /\ s.op = st[w].op
        /\ s.attempt = st[w].attempt /\ s.doomed = {} /\ s.image = st[w].image
        /\ s.written = st[w].written
    BY <1>0, <1>9 DEF Reassert, SessionSound, Sessions
  <2>2. /\ Pending(w) /\ st' = [st EXCEPT ![w] = s] /\ st[w].pc = "reassert"
        /\ UNCHANGED <<objects, manifest, attempts>>
    BY <1>9 DEF Reassert, Goto, Pending, PendingPCs
  <2> HIDE DEF s
  <2>3. TargetOf(s) = TargetOf(st[w])
    BY <2>1 DEF TargetOf
  <2>4. SessionSound(w, s, manifest, attempts')
    BY <1>0, <2>1, <2>2, <2>3 DEF SessionSound, PendingPCs, Pending
  <2>5. Uploaded(s, objects')
    BY <1>0, <2>1, <2>2, <2>3 DEF Uploaded
  <2>6. \A a : Spares(s, a)
    BY <2>1 DEF Spares
  <2>7. \A k \in Keys : objects'[k] = objects[k] \/ Free(w, k)
    BY <2>2
  <2>8. /\ Pending(w) /\ s.attempt = st[w].attempt /\ st' = [st EXCEPT ![w] = s]
        /\ manifest' = manifest /\ attempts <= attempts'
    BY <1>0, <2>1, <2>2
  <2> QED
    BY <2>4, <2>5, <2>6, <2>7, <2>8, ReadStep
<1>10. CASE List(w)
  BY <1>0, <1>10 DEF List, SessionSound
<1>11. CASE Delete(w)
  <2>1. PICK k \in st[w].doomed :
          /\ st' = [st EXCEPT ![w] = Deleting(w, st[w].doomed \ {k})]
          /\ objects' = objects \/ objects' = [objects EXCEPT ![k] = 0]
    BY <1>11 DEF Delete
  <2> DEFINE keys == st[w].doomed \ {k}
  <2>2. \A j \in Keys : objects'[j] = objects[j] \/ Free(w, j)
    BY <1>0, <2>1, DoomedFree
  <2>3. \A j \in keys : Disposable(w, j, manifest, attempts)
    BY <1>0 DEF SessionSound
  <2>4. \A v \in Owners : v # w /\ Pending(v) =>
          \A j \in keys : IsReplaceable(j) => j[2] # st[v].attempt
    BY DEF ReadInv, Spares
  <2>5. UNCHANGED <<manifest, attempts>>
    BY <1>11 DEF Delete
  <2>6. st' = [st EXCEPT ![w] = Deleting(w, keys)]
    BY <2>1
  <2> HIDE DEF keys
  <2> QED
    BY <2>2, <2>3, <2>4, <2>5, <2>6, ReadDeleting
<1> QED
  BY <1>1, <1>2, <1>3, <1>4, <1>5, <1>6, <1>7, <1>8, <1>9, <1>10, <1>11 DEF Write

(* A step of w that changes the manifest and no object. *)
LEMMA ReadChange ==
  ASSUME ReadInv, RevInv', NEW w \in Owners, NEW s, st' = [st EXCEPT ![w] = s],
         objects' = objects, ManifestSound(manifest', objects, attempts'),
         s.pc \notin PendingPCs, SessionSound(w, s, manifest', attempts'),
         \A v \in Owners : v # w => SessionSound(v, st[v], manifest', attempts'),
         \A v \in Owners : v # w /\ Pending(v) => Spares(s, st[v].attempt)
  PROVE  ReadInv'
<1>1. st'[w] = s /\ \A v \in Owners : v # w => st'[v] = st[v]
  BY DEF ReadInv, RevInv, TypeInv, TypeOK
<1>2. ASSUME NEW v \in Owners
      PROVE  SessionSound(v, st'[v], manifest', attempts') /\ Uploaded(st'[v], objects')
  <2>1. CASE v = w
    BY <1>1, <2>1 DEF Uploaded, PendingPCs
  <2>2. CASE v # w
    BY <1>1, <2>2 DEF ReadInv
  <2> QED
    BY <2>1, <2>2
<1>3. ASSUME NEW v \in Owners, NEW u \in Owners, st'[v].pc \in PendingPCs
      PROVE  Spares(st'[u], st'[v].attempt)
  <2>1. v # w /\ st'[v] = st[v] /\ Pending(v)
    BY <1>1, <1>3 DEF Pending
  <2>2. CASE u = w
    BY <1>1, <2>1, <2>2
  <2>3. CASE u # w
    BY <1>1, <2>1, <2>3 DEF ReadInv
  <2> QED
    BY <2>2, <2>3
<1> QED
  BY <1>2, <1>3 DEF ReadInv, Pending

(***************************************************************************)
(* What a commit writes, when its condition holds: the tree under its own  *)
(* key, its image or the one there was, and the other checkpoints.         *)
(***************************************************************************)
LEMMA CommitShape ==
  ASSUME ReadInv, Orderly, NEW w \in Owners, st[w].pc = "commit", CommitCondition(w)
  PROVE  /\ ~Prunes(w) /\ st[w].op \in {"create", "save", "checkpoint"}
         /\ st[w].seen = manifest
         /\ Updated(w).treeKey = TargetKey(w) /\ Updated(w).treeEncryption = st[w].attempt
         /\ \/ /\ Updated(w).imageKey = manifest.imageKey
               /\ Updated(w).imageEncryption = manifest.imageEncryption
            \/ /\ Updated(w).imageKey = ImageKey(st[w].attempt)
               /\ Updated(w).imageEncryption = st[w].attempt
               /\ st[w].image
            \/ /\ Updated(w).imageKey = ImageKey(st[w].attempt)
               /\ Updated(w).imageEncryption = 0
               /\ manifest.imageEncryption = 0
         /\ Updated(w).checkpointGeneration =
              manifest.checkpointGeneration + (IF st[w].op = "checkpoint" THEN 1 ELSE 0)
         /\ TargetKey(w) = IF st[w].op = "checkpoint"
                           THEN CheckpointKey(Updated(w).checkpointGeneration)
                           ELSE TreeKey(st[w].attempt)
<1>0. /\ SeenCurrent /\ OperationOK(w, st[w]) /\ st[w] \in Sessions /\ manifest \in Manifests
      /\ st[w].pc \in WritingPCs /\ st[w].op # "none"
      /\ st[w].image => st[w].op # "checkpoint"
  BY DEF ReadInv, RevInv, TypeInv, TypeOK, AttemptsBound, OperationsKnown, WritingPCs,
         PendingPCs, SessionSound
<1>1. st[w].op \in {"create", "save", "checkpoint"}
  BY <1>0 DEF Orderly, OperationOK, Sessions
<1>2. st[w].seen = manifest /\ ~Prunes(w)
  BY <1>0, <1>1 DEF CommitCondition, SeenCurrent, Prunes
<1>3. CASE st[w].op = "create"
  <2>1. manifest = NoManifest
    BY <1>0, <1>2, <1>3 DEF OperationOK, SeenCurrent
  <2>2. manifest.checkpointGeneration = 0 /\ manifest.imageEncryption = 0
    BY <2>1 DEF NoManifest
  <2>3. Updated(w) = Created(w)
    BY <1>3 DEF Updated
  <2>4. /\ Created(w).treeKey = TargetKey(w) /\ Created(w).treeEncryption = st[w].attempt
        /\ Created(w).imageKey = ImageKey(st[w].attempt)
        /\ Created(w).imageEncryption = IF st[w].image THEN st[w].attempt ELSE 0
        /\ Created(w).checkpointGeneration = 0
    BY DEF Created
  <2> QED
    BY <1>1, <1>2, <1>3, <2>2, <2>3, <2>4 DEF TargetKey
<1>4. CASE st[w].op = "save"
  <2>1. Updated(w) = Saved(w)
    BY <1>4 DEF Updated
  <2>2. /\ Saved(w).treeKey = TargetKey(w) /\ Saved(w).treeEncryption = st[w].attempt
        /\ Saved(w).imageKey = IF st[w].image THEN ImageKey(st[w].attempt) ELSE manifest.imageKey
        /\ Saved(w).imageEncryption = IF st[w].image THEN st[w].attempt
                                      ELSE manifest.imageEncryption
        /\ Saved(w).checkpointGeneration = manifest.checkpointGeneration
    BY <1>0, <1>2 DEF Saved, Manifests
  <2>3. manifest.checkpointGeneration \in Nat
    BY <1>0 DEF Manifests
  <2> QED
    BY <1>1, <1>2, <1>4, <2>1, <2>2, <2>3 DEF TargetKey
<1>5. CASE st[w].op = "checkpoint"
  <2>1. Updated(w) = Checkpointed(w)
    BY <1>5 DEF Updated
  <2>2. /\ Checkpointed(w).treeKey = TargetKey(w)
        /\ Checkpointed(w).treeEncryption = st[w].attempt
        /\ Checkpointed(w).imageKey = manifest.imageKey
        /\ Checkpointed(w).imageEncryption = manifest.imageEncryption
        /\ Checkpointed(w).checkpointGeneration = manifest.checkpointGeneration + 1
    BY <1>0, <1>2 DEF Checkpointed, Manifests
  <2> QED
    BY <1>1, <1>2, <1>5, <2>1, <2>2 DEF TargetKey
<1> QED
  BY <1>1, <1>3, <1>4, <1>5

LEMMA CommitReadInv ==
  ASSUME ReadInv, RevInv', Orderly, NEW w \in Owners, Commit(w)
  PROVE  ReadInv'
<1> DEFINE a == st[w].attempt
           u == Updated(w)
           s == Deleting(w, Superseded(w))
<1>0. /\ st[w].pc = "commit" /\ CommitCondition(w) /\ Pending(w)
      /\ manifest' = u /\ UNCHANGED <<objects, attempts>>
  BY DEF Commit, Pending, PendingPCs
<1>1. /\ ManifestSound(manifest, objects, attempts) /\ manifest \in Manifests
      /\ \A v \in Owners : SessionSound(v, st[v], manifest, attempts)
      /\ Uploaded(st[w], objects) /\ OperationsKnown /\ AttemptsUnused
      /\ attempts \in Nat /\ a \in Nat /\ a # 0 /\ a <= attempts /\ st \in [Owners -> Sessions]
  BY <1>0, NumbersTyped DEF ReadInv, RevInv, TypeInv, TypeOK
<1>2. /\ st[w].op \in {"create", "save", "checkpoint"} /\ st[w].seen = manifest
      /\ u.treeKey = TargetKey(w) /\ u.treeEncryption = a
      /\ \/ u.imageKey = manifest.imageKey /\ u.imageEncryption = manifest.imageEncryption
         \/ u.imageKey = ImageKey(a) /\ u.imageEncryption = a /\ st[w].image
         \/ u.imageKey = ImageKey(a) /\ u.imageEncryption = 0 /\ manifest.imageEncryption = 0
      /\ u.checkpointGeneration =
           manifest.checkpointGeneration + (IF st[w].op = "checkpoint" THEN 1 ELSE 0)
      /\ TargetKey(w) = IF st[w].op = "checkpoint" THEN CheckpointKey(u.checkpointGeneration)
                        ELSE TreeKey(a)
  BY <1>0, CommitShape
<1>3. st' = [st EXCEPT ![w] = s]
  BY <1>0, CommitShape DEF Commit
<1>4. objects[TargetKey(w)] = a /\ (st[w].image => objects[ImageKey(a)] = a)
  BY <1>0, <1>1, TargetFree DEF Uploaded
<1> HIDE DEF u
<1>5. Numbers(u) \subseteq Numbers(manifest) \cup {a}
  BY <1>2 DEF Numbers, ImageKey
<1>6. ManifestSound(u, objects, attempts)
  <2>1. u.treeKey \in {TreeKey(u.treeEncryption), CheckpointKey(u.checkpointGeneration)}
    BY <1>2
  <2>2. u.imageKey[1] = "image" /\ (u.imageEncryption # 0 => u.imageKey = ImageKey(u.imageEncryption))
    BY <1>1, <1>2 DEF ManifestSound, ImageKey
  <2>3. \A i \in Numbers(u) : i <= attempts
    BY <1>1, <1>5 DEF ManifestSound
  <2>4. objects[u.treeKey] = u.treeEncryption
    BY <1>2, <1>4
  <2>5. u.imageEncryption # 0 => objects[u.imageKey] = u.imageEncryption
    BY <1>1, <1>2, <1>4 DEF ManifestSound
  <2>6. ASSUME NEW i \in 1 .. u.checkpointGeneration
        PROVE  objects[CheckpointKey(i)] # 0
    <3>1. CASE i \in 1 .. manifest.checkpointGeneration
      BY <1>1, <3>1 DEF ManifestSound
    <3>2. CASE i \notin 1 .. manifest.checkpointGeneration
      <4>1. manifest.checkpointGeneration \in Nat
        BY <1>1 DEF Manifests
      <4>2. st[w].op = "checkpoint" /\ i = u.checkpointGeneration
        BY <1>2, <3>2, <4>1
      <4> QED
        BY <1>1, <1>2, <1>4, <4>2
    <3> QED
      BY <3>1, <3>2
  <2> QED
    BY <2>1, <2>2, <2>3, <2>4, <2>5, <2>6 DEF ManifestSound
<1>7. ASSUME NEW k, Unneeded(k, manifest), k # TargetKey(w), k # ImageKey(a)
      PROVE  Unneeded(k, u)
  BY <1>2, <1>7 DEF Unneeded
<1>8. ASSUME NEW v \in Owners, v # w, Does(v, "checkpoint")
      PROVE  u.checkpointGeneration = manifest.checkpointGeneration
  <2>1. st[w].op # "checkpoint"
    BY <1>1, <1>8 DEF OperationsKnown, OperationOK, Orderly
  <2> QED
    BY <1>1, <1>2, <2>1 DEF Manifests
<1>9. ASSUME NEW v \in Owners, v # w
      PROVE  SessionSound(v, st[v], u, attempts)
  <2>1. ASSUME Pending(v)
        PROVE  st[v].attempt \notin Numbers(u)
    <3>1. st[v].attempt \notin Numbers(manifest) /\ st[v].attempt # a
      BY <1>0, <1>1, <1>9, <2>1 DEF SessionSound, Pending, AttemptsUnused
    <3> QED
      BY <1>5, <3>1
  <2>2. ASSUME st[v].op = "checkpoint"
        PROVE  u.checkpointGeneration = manifest.checkpointGeneration
    <3>1. Does(v, "checkpoint")
      BY <1>1, <2>2 DEF OperationsKnown, OperationOK
    <3> QED
      BY <1>8, <1>9, <3>1
  <2>3. ASSUME NEW k \in st[v].doomed
        PROVE  Disposable(v, k, u, attempts)
    <3>1. Free(v, k) /\ Disposable(v, k, manifest, attempts)
      BY <1>1, DoomedFree DEF SessionSound
    <3>2. Unneeded(k, manifest) /\ k # TargetKey(w) /\ k # ImageKey(a)
      BY <1>0, <1>9, <3>1, TargetFree DEF Free
    <3>3. Unneeded(k, u)
      BY <1>7, <3>2
    <3> QED
      BY <1>8, <1>9, <3>1, <3>3 DEF Disposable
  <2> QED
    BY <1>1, <2>1, <2>2, <2>3 DEF SessionSound, Pending
<1>10. ASSUME NEW k \in Superseded(w)
       PROVE  Unneeded(k, u) /\ IsReplaceable(k) /\ k[2] \in Numbers(manifest)
  <2>1. /\ k \in {manifest.treeKey, manifest.imageKey}
        /\ k # u.treeKey /\ k # u.imageKey /\ IsReplaceable(k)
    BY <1>2, <1>10 DEF Superseded, u
  <2>2. k[2] \in Numbers(manifest)
    BY <1>1, <2>1 DEF ManifestSound, Numbers, TreeKey, CheckpointKey, IsReplaceable
  <2> QED
    BY <2>1, <2>2 DEF Unneeded
<1>11. /\ s.pc \in {"idle", "mounted", "cleanup"} /\ s.doomed \in {{}, Superseded(w)}
       /\ (s.pc # "cleanup" => s.doomed = {} /\ s.written = {})
  <2>1. /\ Rested(w).pc \in {"idle", "mounted"}
        /\ Rested(w).doomed = {} /\ Rested(w).written = {}
    BY DEF Rested, Unmounted
  <2> QED
    BY <1>1, <2>1 DEF Deleting, Sessions
<1> HIDE DEF s
<1>12. SessionSound(w, s, u, attempts) /\ s.pc \notin PendingPCs
  <2>1. \A k \in s.doomed : Disposable(w, k, u, attempts)
    BY <1>1, <1>10, <1>11 DEF Disposable, ManifestSound
  <2> QED
    BY <1>11, <2>1 DEF SessionSound, PendingPCs
<1>13. ASSUME NEW v \in Owners, v # w, Pending(v)
       PROVE  Spares(s, st[v].attempt)
  <2>1. st[v].attempt \notin Numbers(manifest)
    BY <1>1, <1>13 DEF SessionSound, Pending
  <2> QED
    BY <1>10, <1>11, <2>1 DEF Spares
<1>14. /\ objects' = objects /\ ManifestSound(manifest', objects, attempts')
       /\ SessionSound(w, s, manifest', attempts')
       /\ \A v \in Owners : v # w => SessionSound(v, st[v], manifest', attempts')
  BY <1>0, <1>6, <1>9, <1>12
<1> QED
  BY <1>3, <1>12, <1>13, <1>14, ReadChange

LEMMA OtherReadInv ==
  ASSUME ReadInv, RevInv', NEW w \in Owners,
         Detach(w) \/ Touch(w) \/ Renew(w) \/ Crash(w)
  PROVE  ReadInv'
<1>0. /\ st[w] \in Sessions /\ SessionSound(w, st[w], manifest, attempts)
      /\ manifest \in Manifests /\ attempts \in Nat
      /\ SeenCurrent /\ ManifestSound(manifest, objects, attempts)
      /\ \A v \in Owners : SessionSound(v, st[v], manifest, attempts)
      /\ st \in [Owners -> Sessions]
  BY DEF ReadInv, RevInv, TypeInv, TypeOK
<1>u. ASSUME NEW pc \in {"releaseDelete", "crashed"},
             st' = [st EXCEPT ![w] = [Unmounted EXCEPT !.pc = pc]],
             UNCHANGED <<objects, manifest, attempts>>
      PROVE  ReadInv'
  <2> DEFINE s == [Unmounted EXCEPT !.pc = pc]
  <2>1. s.pc = pc /\ s.doomed = {} /\ s.written = {}
    BY DEF Unmounted
  <2>2. st' = [st EXCEPT ![w] = s]
    BY <1>u
  <2> HIDE DEF s
  <2> QED
    BY <1>u, <2>1, <2>2, ReadQuiet DEF PendingPCs
<1>1. CASE ReleaseRead(w)
  <2>1. CASE lease.owner = w /\ ~Does(w, "ownerless")
    BY <1>1, <1>u, <2>1 DEF ReleaseRead
  <2>2. CASE ~(lease.owner = w /\ ~Does(w, "ownerless"))
    BY <1>1, <2>2, ReadForget DEF ReleaseRead
  <2> QED
    BY <2>1, <2>2
<1>2. CASE ReleaseDelete(w)
  BY <1>2, ReadForget DEF ReleaseDelete
<1>3. CASE DetachFails(w)
  BY <1>3, ReadForget DEF DetachFails
<1>4. CASE TouchRead(w)
  <2> DEFINE s == [st[w] EXCEPT !.pc = "touchPut", !.seen = manifest]
  <2>1. s.pc = "touchPut" /\ s.doomed = {} /\ s.written = {}
    BY <1>0, <1>4 DEF TouchRead, SessionSound, Sessions, PendingPCs
  <2>2. st' = [st EXCEPT ![w] = s] /\ UNCHANGED <<objects, manifest, attempts>>
    BY <1>4 DEF TouchRead
  <2> HIDE DEF s
  <2> QED
    BY <2>1, <2>2, ReadQuiet DEF PendingPCs
<1>5. CASE TouchPut(w)
  <2> DEFINE m == [manifest EXCEPT !.rev = attempts + 1]
  <2>1. st[w].seen = manifest
    BY <1>0, <1>5 DEF TouchPut, SeenCurrent
  <2>2. /\ manifest' = m /\ objects' = objects /\ attempts' = attempts + 1
        /\ st' = [st EXCEPT ![w] = Unmounted]
    BY <1>5, <2>1 DEF TouchPut, Forget
  <2>3. /\ m.treeKey = manifest.treeKey /\ m.treeEncryption = manifest.treeEncryption
        /\ m.imageKey = manifest.imageKey /\ m.imageEncryption = manifest.imageEncryption
        /\ m.checkpointGeneration = manifest.checkpointGeneration
    BY <1>0 DEF Manifests
  <2> HIDE DEF m
  <2>4. Numbers(m) = Numbers(manifest) /\ Numbers(manifest) \subseteq Nat
    BY <1>0, <2>3 DEF Numbers, Manifests, Keys
  <2>5. ManifestSound(m, objects, attempts + 1)
    BY <1>0, <2>3, <2>4 DEF ManifestSound
  <2>6. ASSUME NEW v \in Owners
        PROVE  SessionSound(v, st[v], m, attempts + 1)
    <3>1. ASSUME NEW k \in st[v].doomed
          PROVE  Disposable(v, k, m, attempts + 1)
      <4>1. Disposable(v, k, manifest, attempts) /\ k[2] \in Nat
        BY <1>0 DEF SessionSound, Sessions, Keys
      <4> QED
        BY <1>0, <2>3, <4>1 DEF Disposable, Unneeded
    <3> QED
      BY <1>0, <2>3, <2>4, <3>1 DEF SessionSound
  <2>7. Unmounted.pc = "idle" /\ Unmounted.doomed = {} /\ Unmounted.written = {}
    BY DEF Unmounted
  <2>8. SessionSound(w, Unmounted, m, attempts + 1) /\ Unmounted.pc \notin PendingPCs
    BY <2>7 DEF SessionSound, PendingPCs
  <2>9. \A v \in Owners : Spares(Unmounted, st[v].attempt)
    BY <2>7 DEF Spares
  <2> QED
    BY <2>2, <2>5, <2>6, <2>8, <2>9, ReadChange
<1>6. CASE TouchRefused(w)
  BY <1>6, ReadForget DEF TouchRefused
<1>7. CASE Renew(w)
  BY <1>7 DEF Renew, ReadInv, Pending
<1>8. CASE Crash(w)
  BY <1>8, <1>u DEF Crash
<1> QED
  BY <1>1, <1>2, <1>3, <1>4, <1>5, <1>6, <1>7, <1>8 DEF Detach, Touch

LEMMA NextReadInv ==
  ASSUME Orderly
  PROVE  ReadInv /\ [Next]_vars => ReadInv'
<1> SUFFICES ASSUME ReadInv, [Next]_vars
             PROVE  ReadInv'
  OBVIOUS
<1>0. RevInv'
  BY NextRevInv DEF ReadInv
<1>1. ASSUME NEW w \in Owners,
             Attach(w) \/ Write(w) \/ Detach(w) \/ Touch(w) \/ Renew(w) \/ Crash(w)
      PROVE  ReadInv'
  BY <1>0, <1>1, AttachReadInv, WriteReadInv, CommitReadInv, OtherReadInv
<1>2. CASE Expire
  BY <1>0, <1>2 DEF Expire, ReadInv, Pending
<1>3. CASE UNCHANGED vars
  BY <1>0, <1>3 DEF vars, ReadInv, Pending
<1> QED
  BY <1>1, <1>2, <1>3 DEF Next

(***************************************************************************)
(* Under those conditions the manifest always points at data it can        *)
(* decrypt: saves, touches, takeovers, crashes, failed requests and        *)
(* garbage collection of any number of sessions never break it.            *)
(***************************************************************************)
THEOREM Readable == ASSUME Orderly PROVE Spec => []ManifestReadable
<1>1. Init => ReadInv
  BY InitReadInv
<1>2. ReadInv /\ [Next]_vars => ReadInv'
  BY NextReadInv
<1>3. ReadInv => ManifestReadable
  BY DEF ReadInv, ManifestSound, ManifestReadable
<1> QED
  BY <1>1, <1>2, <1>3, PTL DEF Spec

(***************************************************************************)
(* And no committed checkpoint is ever deleted.                            *)
(***************************************************************************)
THEOREM CheckpointsSafe == ASSUME Orderly PROVE Spec => []CheckpointsKept
<1>1. Init => ReadInv
  BY InitReadInv
<1>2. ReadInv /\ [Next]_vars => ReadInv'
  BY NextReadInv
<1>3. ReadInv => CheckpointsKept
  BY DEF ReadInv, ManifestSound, CheckpointsKept
<1> QED
  BY <1>1, <1>2, <1>3, PTL DEF Spec

-----------------------------------------------------------------------------
(* Nothing left behind *)

(***************************************************************************)
(* The conditions under which nothing is left behind: no process crashes,  *)
(* no answer is lost and no deletion fails, and whoever recreates the      *)
(* context by force is the only one who creates it.  Each is needed: what  *)
(* a crashed session has uploaded and what a failed deletion or a lost     *)
(* answer leaves nobody comes back for, and a forced create that found no  *)
(* manifest does not prune what another one has committed in between.      *)
(***************************************************************************)
Tidy ==
  /\ {"crash", "lostAck", "deleteFail"} \cap Faults = {}
  /\ \A v, w \in Owners :
       Does(v, "recreate") /\ (Does(w, "create") \/ Does(w, "recreate")) => v = w

(* Manifest m points at k or has counted it as a checkpoint. *)
Names(m, k) ==
  \/ k \in {m.treeKey, m.imageKey}
  \/ \E n \in 1 .. m.checkpointGeneration : k = CheckpointKey(n)

(* A session in state s will commit k, delete it or list it. *)
Holds(s, k) ==
  \/ s.pc \in PendingPCs /\ k \in s.written
  \/ k \in s.doomed
  \/ s.pc = "list" /\ k \notin {TreeKey(s.attempt), ImageKey(s.attempt)}

Accounted(k) == Names(manifest, k) \/ \E w \in Owners : Holds(st[w], k)

(* A checkpoint m points at is one it has counted. *)
ManifestTidy(m) ==
  /\ m.imageKey[1] = "image"
  /\ ~IsReplaceable(m.treeKey) =>
       \E n \in 1 .. m.checkpointGeneration : m.treeKey = CheckpointKey(n)

(* Only the attach of an existing context leads to saves and touches. *)
Attached(s) ==
  \/ s.op \in {"save", "checkpoint"}
  \/ s.pc \in {"attachLock", "attachFetch", "mounted", "touchPut"}

(* A session in state s has uploaded what its commit or its rollback takes
   care of, and while it recreates what it saw missing nobody else creates. *)
SessionTidy(s, m) ==
  /\ s.pc # "cleanup" => s.doomed = {}
  /\ s.pc \in {"list", "cleanup"} => s.op # "none"
  /\ s.pc \notin {"putImage", "reassert", "commit", "list", "cleanup"} => s.written = {}
  /\ s.pc \in PendingPCs =>
       /\ s.written \subseteq {TargetOf(s)} \cup (IF s.image THEN {ImageKey(s.attempt)} ELSE {})
       /\ s.image => s.op # "checkpoint"
  /\ s.pc = "putImage" => s.image
  /\ s.op = "recreate" /\ s.pc \in WritingPCs /\ s.seen.rev = 0 => m.rev = 0
  /\ Attached(s) => Exists(m)

GarbageInv ==
  /\ RevInv
  /\ \A k \in Keys : objects[k] # 0 => k[2] # 0 /\ Accounted(k)
  /\ ManifestTidy(manifest)
  /\ \A w \in Owners : SessionTidy(st[w], manifest)

LEMMA InitGarbageInv == Init => GarbageInv
<1> SUFFICES ASSUME Init PROVE GarbageInv
  OBVIOUS
<1>1. RevInv
  BY InitRevInv
<1>2. /\ Unmounted.pc = "idle" /\ Unmounted.op = "none"
      /\ Unmounted.doomed = {} /\ Unmounted.written = {}
  BY DEF Unmounted
<1>3. \A w \in Owners : SessionTidy(st[w], manifest)
  BY <1>2 DEF Init, SessionTidy, Attached, PendingPCs
<1>4. ManifestTidy(manifest)
  BY DEF Init, ManifestTidy, NoManifest, ImageKey, TreeKey, IsReplaceable
<1>5. \A k \in Keys : objects[k] = 0
  BY DEF Init
<1> QED
  BY <1>1, <1>3, <1>4, <1>5 DEF GarbageInv

(***************************************************************************)
(* A step of w after which every object it writes is its own, and every    *)
(* object that was named, or that it held, is named or in its hands.       *)
(***************************************************************************)
LEMMA GarbageStep ==
  ASSUME GarbageInv, RevInv', NEW w \in Owners, NEW s, st' = [st EXCEPT ![w] = s],
         ManifestTidy(manifest'), SessionTidy(s, manifest'),
         \A v \in Owners : v # w => SessionTidy(st[v], manifest'),
         \A k \in Keys : objects'[k] # 0 => k[2] # 0 /\ (objects[k] # 0 \/ Holds(s, k)),
         \A k \in Keys : objects'[k] # 0 /\ (Names(manifest, k) \/ Holds(st[w], k))
                           => Names(manifest', k) \/ Holds(s, k)
  PROVE  GarbageInv'
<1>1. st'[w] = s /\ \A v \in Owners : v # w => st'[v] = st[v]
  BY DEF GarbageInv, RevInv, TypeInv, TypeOK
<1>2. \A v \in Owners : SessionTidy(st'[v], manifest')
  BY <1>1
<1>3. ASSUME NEW k \in Keys, objects'[k] # 0
      PROVE  Names(manifest', k) \/ \E v \in Owners : Holds(st'[v], k)
  <2>1. CASE Holds(s, k)
    BY <1>1, <2>1
  <2>2. CASE objects[k] # 0
    <3>1. Names(manifest, k) \/ \E v \in Owners : Holds(st[v], k)
      BY <2>2 DEF GarbageInv, Accounted
    <3>2. CASE \E v \in Owners : v # w /\ Holds(st[v], k)
      BY <1>1, <3>2
    <3>3. CASE Names(manifest, k) \/ Holds(st[w], k)
      BY <1>1, <1>3, <3>3
    <3> QED
      BY <3>1, <3>2, <3>3
  <2> QED
    BY <1>3, <2>1, <2>2
<1>4. \A k \in Keys : objects'[k] # 0 => k[2] # 0 /\ Accounted(k)'
  BY <1>3 DEF Accounted
<1> QED
  BY <1>2, <1>4 DEF GarbageInv

(* A step of w that leaves the manifest alone. *)
LEMMA GarbageLocal ==
  ASSUME GarbageInv, RevInv', NEW w \in Owners, NEW s, st' = [st EXCEPT ![w] = s],
         manifest' = manifest, SessionTidy(s, manifest),
         \A k \in Keys : objects'[k] # 0 => k[2] # 0 /\ (objects[k] # 0 \/ Holds(s, k)),
         \A k \in Keys : objects'[k] # 0 /\ Holds(st[w], k) => Names(manifest, k) \/ Holds(s, k)
  PROVE  GarbageInv'
<1>1. ManifestTidy(manifest') /\ SessionTidy(s, manifest')
      /\ \A v \in Owners : v # w => SessionTidy(st[v], manifest')
  BY DEF GarbageInv
<1>2. \A k \in Keys : objects'[k] # 0 /\ (Names(manifest, k) \/ Holds(st[w], k))
                        => Names(manifest', k) \/ Holds(s, k)
  OBVIOUS
<1> QED
  BY <1>1, <1>2, GarbageStep

(* A step of a session that holds nothing, before it and after it. *)
LEMMA GarbageQuiet ==
  ASSUME GarbageInv, RevInv', NEW w \in Owners, NEW s, st' = [st EXCEPT ![w] = s],
         UNCHANGED <<objects, manifest>>,
         st[w].pc \notin {"cleanup", "list"} \cup PendingPCs,
         s.pc \notin {"list", "cleanup"} \cup PendingPCs, s.doomed = {}, s.written = {},
         s.op = "recreate" /\ s.pc \in WritingPCs /\ s.seen.rev = 0 => manifest.rev = 0,
         Attached(s) => Exists(manifest)
  PROVE  GarbageInv'
<1>1. SessionTidy(st[w], manifest) /\ \A k \in Keys : objects[k] # 0 => k[2] # 0
  BY DEF GarbageInv
<1>2. SessionTidy(s, manifest)
  BY DEF SessionTidy, PendingPCs
<1>3. \A k \in Keys : ~Holds(st[w], k)
  BY <1>1 DEF SessionTidy, Holds, PendingPCs
<1>4. manifest' = manifest /\ objects' = objects
  OBVIOUS
<1> QED
  BY <1>1, <1>2, <1>3, <1>4, GarbageLocal

LEMMA GarbageForget ==
  ASSUME GarbageInv, RevInv', NEW w \in Owners, Forget(w), UNCHANGED <<objects, manifest>>,
         st[w].pc \notin {"cleanup", "list"} \cup PendingPCs
  PROVE  GarbageInv'
<1>1. /\ Unmounted.pc = "idle" /\ Unmounted.op = "none"
      /\ Unmounted.doomed = {} /\ Unmounted.written = {}
  BY DEF Unmounted
<1> QED
  BY <1>1, GarbageQuiet DEF Forget, Attached, PendingPCs

LEMMA AttachGarbageInv ==
  ASSUME GarbageInv, RevInv', NEW w \in Owners, Attach(w)
  PROVE  GarbageInv'
<1>0. st[w] \in Sessions /\ SessionTidy(st[w], manifest)
  BY DEF GarbageInv, RevInv, TypeInv, TypeOK
<1>1. CASE AttachRead(w)
  <2> DEFINE s == [st[w] EXCEPT !.pc = "attachLock", !.seen = manifest]
  <2>1. /\ s.pc = "attachLock" /\ s.doomed = {} /\ s.written = {}
        /\ st[w].pc = "idle" /\ Exists(manifest)
    BY <1>0, <1>1 DEF AttachRead, SessionTidy, Sessions, PendingPCs
  <2>2. st' = [st EXCEPT ![w] = s] /\ UNCHANGED <<objects, manifest>>
    BY <1>1 DEF AttachRead
  <2> HIDE DEF s
  <2> QED
    BY <2>1, <2>2, GarbageQuiet DEF PendingPCs, WritingPCs
<1>2. CASE AttachRefused(w)
  BY <1>2, GarbageForget DEF AttachRefused, PendingPCs
<1>3. CASE AttachLock(w)
  <2> DEFINE s == [st[w] EXCEPT !.pc = "attachFetch",
                                !.adopted = (lease = [owner |-> w, live |-> TRUE])]
  <2>1. /\ s.pc = "attachFetch" /\ s.doomed = {} /\ s.written = {}
        /\ st[w].pc = "attachLock" /\ Exists(manifest)
    BY <1>0, <1>3 DEF AttachLock, SessionTidy, Attached, Sessions, PendingPCs
  <2>2. st' = [st EXCEPT ![w] = s] /\ UNCHANGED <<objects, manifest>>
    BY <1>3 DEF AttachLock
  <2> HIDE DEF s
  <2> QED
    BY <2>1, <2>2, GarbageQuiet DEF PendingPCs, WritingPCs
<1>4. CASE AttachForce(w)
  <2> DEFINE s == [st[w] EXCEPT !.pc = "attachFetch"]
  <2>1. /\ s.pc = "attachFetch" /\ s.doomed = {} /\ s.written = {}
        /\ st[w].pc = "attachLock" /\ Exists(manifest)
    BY <1>0, <1>4 DEF AttachForce, SessionTidy, Attached, Sessions, PendingPCs
  <2>2. st' = [st EXCEPT ![w] = s] /\ UNCHANGED <<objects, manifest>>
    BY <1>4 DEF AttachForce, Goto
  <2> HIDE DEF s
  <2> QED
    BY <2>1, <2>2, GarbageQuiet DEF PendingPCs, WritingPCs
<1>5. CASE AttachFetch(w)
  <2> DEFINE s == [Unmounted EXCEPT !.pc = "mounted", !.loop = LoopMounts(w),
                                    !.base = made[Source(w).encryption]]
  <2>1. /\ s.pc = "mounted" /\ s.doomed = {} /\ s.written = {}
        /\ st[w].pc = "attachFetch" /\ Exists(manifest)
    BY <1>0, <1>5 DEF Unmounted, AttachFetch, SessionTidy, Attached
  <2>2. st' = [st EXCEPT ![w] = s] /\ UNCHANGED <<objects, manifest>>
    BY <1>5 DEF AttachFetch
  <2> HIDE DEF s
  <2> QED
    BY <2>1, <2>2, GarbageQuiet DEF PendingPCs, WritingPCs
<1>6. CASE AttachBroken(w)
  <2> DEFINE s == [st[w] EXCEPT !.pc = "attachFail"]
  <2>1. /\ s.pc = "attachFail" /\ s.doomed = {} /\ s.written = {}
        /\ st[w].pc = "attachFetch" /\ Exists(manifest)
    BY <1>0, <1>6 DEF AttachBroken, SessionTidy, Attached, Sessions, PendingPCs
  <2>2. st' = [st EXCEPT ![w] = s] /\ UNCHANGED <<objects, manifest>>
    BY <1>6 DEF AttachBroken, Goto
  <2> HIDE DEF s
  <2> QED
    BY <2>1, <2>2, GarbageQuiet DEF PendingPCs, WritingPCs
<1>7. CASE AttachAbort(w)
  BY <1>7, GarbageForget DEF AttachAbort, PendingPCs
<1> QED
  BY <1>1, <1>2, <1>3, <1>4, <1>5, <1>6, <1>7 DEF Attach

(* What is left of w when it deletes keys, or has nothing to delete. *)
LEMMA DeletingTidy ==
  ASSUME GarbageInv, NEW w \in Owners, NEW keys, NEW m, Attached(st[w]) => Exists(m),
         st[w].pc \in WritingPCs \cup {"list", "cleanup"}
  PROVE  /\ SessionTidy(Deleting(w, keys), m)
         /\ \A k \in keys : Holds(Deleting(w, keys), k)
<1>0. st[w] \in Sessions /\ st[w].op # "none"
  BY DEF GarbageInv, RevInv, TypeInv, TypeOK, AttemptsBound, SessionTidy
<1>1. CASE keys = {}
  <2>1. Deleting(w, keys) = Rested(w) /\ keys = {}
    BY <1>1 DEF Deleting
  <2>2. /\ Unmounted.pc = "idle" /\ Unmounted.op = "none"
        /\ Unmounted.doomed = {} /\ Unmounted.written = {}
    BY DEF Unmounted
  <2>3. CASE st[w].op \in {"create", "recreate"}
    BY <2>1, <2>2, <2>3 DEF Rested, SessionTidy, Attached, PendingPCs
  <2>4. CASE st[w].op \in {"save", "checkpoint"}
    <3>1. Exists(m)
      BY <2>4 DEF Attached
    <3> DEFINE s == Rested(w)
    <3>2. s.pc = "mounted" /\ s.op = "none" /\ s.doomed = {} /\ s.written = {}
      BY <2>4 DEF Rested, Unmounted
    <3> HIDE DEF s
    <3>3. SessionTidy(s, m)
      BY <3>1, <3>2 DEF SessionTidy, PendingPCs
    <3> QED
      BY <2>1, <3>3 DEF s
  <2> QED
    BY <1>0, <2>3, <2>4 DEF Sessions
<1>2. CASE keys # {}
  <2> DEFINE s == Deleting(w, keys)
  <2>1. s.pc = "cleanup" /\ s.doomed = keys /\ s.op = st[w].op
    BY <1>0, <1>2 DEF Deleting, Sessions
  <2> HIDE DEF s
  <2>2. SessionTidy(s, m)
    BY <1>0, <2>1 DEF SessionTidy, Attached, PendingPCs, WritingPCs
  <2>3. \A k \in keys : Holds(s, k)
    BY <2>1 DEF Holds
  <2> QED
    BY <2>2, <2>3 DEF s
<1> QED
  BY <1>1, <1>2

LEMMA GarbageDeleting ==
  ASSUME GarbageInv, RevInv', NEW w \in Owners, NEW keys,
         st' = [st EXCEPT ![w] = Deleting(w, keys)], manifest' = manifest,
         st[w].pc \in WritingPCs \cup {"list", "cleanup"},
         \A k \in Keys : objects'[k] # 0 => objects[k] # 0,
         \A k \in Keys : objects'[k] # 0 /\ Holds(st[w], k) => k \in keys
  PROVE  GarbageInv'
<1> DEFINE s == Deleting(w, keys)
<1>1. /\ SessionTidy(st[w], manifest)
      /\ \A k \in Keys : objects[k] # 0 => k[2] # 0
  BY DEF GarbageInv
<1>2. SessionTidy(s, manifest) /\ \A k \in keys : Holds(s, k)
  BY <1>1, DeletingTidy DEF SessionTidy
<1>3. st' = [st EXCEPT ![w] = s]
  OBVIOUS
<1> HIDE DEF s
<1> QED
  BY <1>1, <1>2, <1>3, GarbageLocal

LEMMA AbortGarbageInv ==
  ASSUME GarbageInv, RevInv', NEW w \in Owners, Pending(w), Abort(w),
         UNCHANGED <<objects, manifest>>
  PROVE  GarbageInv'
<1>1. /\ SessionTidy(st[w], manifest) /\ st[w].pc \in PendingPCs
      /\ st[w].pc \in WritingPCs \cup {"list", "cleanup"}
      /\ st[w].doomed = {} /\ st[w].pc # "list"
  BY DEF GarbageInv, SessionTidy, Pending, PendingPCs, WritingPCs
<1>2. st[w].written \subseteq RolledBack(w)
  BY <1>1 DEF RolledBack, SessionTidy, TargetKey, TargetOf
<1>3. \A k \in Keys : Holds(st[w], k) => k \in RolledBack(w)
  BY <1>1, <1>2 DEF Holds
<1>4. st' = [st EXCEPT ![w] = Deleting(w, RolledBack(w))] /\ manifest' = manifest
      /\ objects' = objects
  BY DEF Abort
<1> QED
  BY <1>1, <1>3, <1>4, GarbageDeleting

LEMMA WriteGarbageInv ==
  ASSUME GarbageInv, RevInv', Tidy, NEW w \in Owners, Write(w), ~Commit(w)
  PROVE  GarbageInv'
<1>0. /\ st[w] \in Sessions /\ SessionTidy(st[w], manifest) /\ TypeInv
      /\ st \in [Owners -> Sessions]
      /\ objects \in [Keys -> 0 .. MaxAttempt] /\ attempts \in Nat
      /\ \A k \in Keys : objects[k] # 0 => k[2] # 0
  BY DEF GarbageInv, RevInv, TypeInv, TypeOK
<1>1. ASSUME NEW op \in {"create", "recreate"}, CreateStart(w, op)
      PROVE  GarbageInv'
  <2> DEFINE s == [st[w] EXCEPT !.pc = "pack", !.op = op, !.seen = manifest]
  <2>1. /\ s.pc = "pack" /\ s.doomed = {} /\ s.written = {} /\ s.op = op
        /\ s.seen = manifest /\ st[w].pc = "idle"
    BY <1>0, <1>1 DEF CreateStart, SessionTidy, Sessions, PendingPCs
  <2>2. st' = [st EXCEPT ![w] = s] /\ UNCHANGED <<objects, manifest>>
    BY <1>1 DEF CreateStart
  <2> HIDE DEF s
  <2>3. ~Attached(s)
    BY <2>1 DEF Attached
  <2> QED
    BY <2>1, <2>2, <2>3, GarbageQuiet DEF PendingPCs
<1>2. ASSUME NEW op \in {"save", "checkpoint"}, SaveStart(w, op)
      PROVE  GarbageInv'
  <2> DEFINE s == [st[w] EXCEPT !.pc = "readManifest", !.op = op]
  <2>1. /\ s.pc = "readManifest" /\ s.doomed = {} /\ s.written = {} /\ s.op = op
        /\ st[w].pc = "mounted" /\ Exists(manifest)
    BY <1>0, <1>2 DEF SaveStart, SessionTidy, Attached, Sessions, PendingPCs
  <2>2. st' = [st EXCEPT ![w] = s] /\ UNCHANGED <<objects, manifest>>
    BY <1>2 DEF SaveStart
  <2> HIDE DEF s
  <2> QED
    BY <2>1, <2>2, GarbageQuiet DEF PendingPCs
<1>3. CASE ReadManifest(w)
  <2> DEFINE s == [st[w] EXCEPT !.pc = "pack", !.seen = manifest]
  <2>1. /\ s.pc = "pack" /\ s.doomed = {} /\ s.written = {} /\ s.op = st[w].op
        /\ s.seen = manifest /\ st[w].pc = "readManifest"
    BY <1>0, <1>3 DEF ReadManifest, SessionTidy, Sessions, PendingPCs
  <2>2. st' = [st EXCEPT ![w] = s] /\ UNCHANGED <<objects, manifest>>
    BY <1>3 DEF ReadManifest
  <2>3. Attached(s) => Exists(manifest)
    BY <1>0, <2>1 DEF SessionTidy, Attached
  <2> HIDE DEF s
  <2> QED
    BY <2>1, <2>2, <2>3, GarbageQuiet DEF PendingPCs
<1>4. CASE Pack(w)
  <2> DEFINE s == [st[w] EXCEPT !.pc = "putTree", !.attempt = attempts + 1,
                                !.image = PersistsImage(w),
                                !.base = st[w].base \cup {attempts + 1}]
  <2>1. /\ s.pc = "putTree" /\ s.seen = st[w].seen /\ s.op = st[w].op
        /\ s.image = PersistsImage(w) /\ s.doomed = {} /\ s.written = {}
        /\ st[w].pc = "pack" /\ st[w].doomed = {}
    BY <1>0, <1>4 DEF Pack, SessionTidy, Sessions, PendingPCs
  <2>2. st' = [st EXCEPT ![w] = s] /\ UNCHANGED <<objects, manifest>>
    BY <1>4 DEF Pack
  <2> HIDE DEF s
  <2>3. s.image => s.op # "checkpoint"
    BY <2>1 DEF PersistsImage
  <2>4. SessionTidy(s, manifest)
    BY <1>0, <2>1, <2>3 DEF SessionTidy, Attached, PendingPCs, WritingPCs
  <2>5. \A k \in Keys : ~Holds(st[w], k)
    BY <2>1 DEF Holds, PendingPCs
  <2> QED
    BY <1>0, <2>2, <2>4, <2>5, GarbageLocal
<1>5. CASE PackFails(w)
  <2>1. /\ st' = [st EXCEPT ![w] = Deleting(w, {})] /\ UNCHANGED <<objects, manifest>>
        /\ st[w].pc = "pack" /\ st[w].doomed = {}
    BY <1>0, <1>5 DEF PackFails, Deleting, SessionTidy
  <2>2. \A k \in Keys : ~Holds(st[w], k)
    BY <2>1 DEF Holds, PendingPCs
  <2> QED
    BY <2>1, <2>2, GarbageDeleting DEF WritingPCs
<1>6. CASE PutTree(w)
  <2> DEFINE s == [st[w] EXCEPT !.pc = IF st[w].image THEN "putImage" ELSE BeforeCommit(w),
                                !.written = {TargetKey(w)}]
  <2>1. /\ s.pc \in {"putImage", "reassert", "commit"} /\ s.seen = st[w].seen
        /\ s.op = st[w].op /\ s.attempt = st[w].attempt /\ s.doomed = {}
        /\ s.image = st[w].image /\ s.written = {TargetKey(w)}
        /\ s.pc = "putImage" => s.image
        /\ st[w].pc = "putTree" /\ st[w].doomed = {}
    BY <1>0, <1>6 DEF PutTree, SessionTidy, Sessions, BeforeCommit
  <2>2. /\ Pending(w) /\ st' = [st EXCEPT ![w] = s] /\ manifest' = manifest
        /\ objects' = [objects EXCEPT ![TargetKey(w)] = st[w].attempt]
    BY <1>6 DEF PutTree, Pending, PendingPCs, Put
  <2> HIDE DEF s
  <2>3. /\ TargetOf(s) = TargetKey(w) /\ TargetKey(w) \in Keys
        /\ TargetKey(w)[2] # 0
    <3>1. st[w].attempt \in Nat \ {0} /\ st[w].seen.checkpointGeneration \in Nat
      BY <1>0, <2>2, TargetKeyType DEF Manifests, Sessions
    <3> QED
      BY <1>0, <2>1, <2>2, <3>1, TargetKeyType DEF TargetOf, TargetKey, TreeKey, CheckpointKey
  <2>4. SessionTidy(s, manifest)
    BY <1>0, <2>1, <2>3 DEF SessionTidy, Attached, PendingPCs, WritingPCs
  <2>5. Holds(s, TargetKey(w))
    BY <2>1 DEF Holds, PendingPCs
  <2>6. \A k \in Keys : k # TargetKey(w) => objects'[k] = objects[k]
    BY <1>0, <2>2
  <2>7. \A k \in Keys : Holds(st[w], k) => Holds(s, k)
    BY <1>0, <2>1 DEF SessionTidy, Holds
  <2>8. \A k \in Keys : objects'[k] # 0 => k[2] # 0 /\ (objects[k] # 0 \/ Holds(s, k))
    BY <1>0, <2>3, <2>5, <2>6
  <2> QED
    BY <2>2, <2>4, <2>7, <2>8, GarbageLocal
<1>7. CASE PutImage(w)
  <2> DEFINE s == [st[w] EXCEPT !.pc = BeforeCommit(w),
                                !.written = st[w].written \cup {ImageKey(st[w].attempt)}]
  <2>1. /\ s.pc \in {"reassert", "commit"} /\ s.seen = st[w].seen
        /\ s.op = st[w].op /\ s.attempt = st[w].attempt /\ s.doomed = {}
        /\ s.image = st[w].image
        /\ s.written = st[w].written \cup {ImageKey(st[w].attempt)}
        /\ st[w].pc = "putImage" /\ st[w].doomed = {}
    BY <1>0, <1>7 DEF PutImage, SessionTidy, Sessions, BeforeCommit
  <2>2. /\ Pending(w) /\ st' = [st EXCEPT ![w] = s] /\ manifest' = manifest
        /\ objects' = [objects EXCEPT ![ImageKey(st[w].attempt)] = st[w].attempt]
    BY <1>7 DEF PutImage, Pending, PendingPCs, Put
  <2> HIDE DEF s
  <2>3. st[w].image
    BY <1>0, <2>1 DEF SessionTidy
  <2>4. TargetOf(s) = TargetOf(st[w]) /\ ImageKey(st[w].attempt)[2] # 0
    <3>1. st[w].attempt \in Nat \ {0}
      BY <1>0, <2>2, TargetKeyType DEF Sessions
    <3> QED
      BY <2>1, <3>1 DEF TargetOf, ImageKey
  <2>5. SessionTidy(s, manifest)
    BY <1>0, <2>1, <2>3, <2>4 DEF SessionTidy, Attached, PendingPCs, WritingPCs
  <2>6. Holds(s, ImageKey(st[w].attempt))
    BY <2>1 DEF Holds, PendingPCs
  <2>7. \A k \in Keys : k # ImageKey(st[w].attempt) => objects'[k] = objects[k]
    BY <1>0, <2>2
  <2>8. \A k \in Keys : Holds(st[w], k) => Holds(s, k)
    BY <2>1 DEF Holds, PendingPCs
  <2>9. \A k \in Keys : objects'[k] # 0 => k[2] # 0 /\ (objects[k] # 0 \/ Holds(s, k))
    BY <1>0, <2>4, <2>6, <2>7
  <2> QED
    BY <2>2, <2>5, <2>8, <2>9, GarbageLocal
<1>8. CASE PutDataFails(w) \/ ReassertFails(w) \/ CommitRefused(w) \/ CommitFails(w)
  <2>1. Pending(w) /\ Abort(w) /\ UNCHANGED <<objects, manifest>>
    BY <1>8 DEF PutDataFails, ReassertFails, CommitRefused, CommitFails, Pending, PendingPCs,
                Tidy
  <2> QED
    BY <2>1, AbortGarbageInv
<1>9. CASE Reassert(w)
  <2> DEFINE s == [st[w] EXCEPT !.pc = "commit"]
  <2>1. /\ s.pc = "commit" /\ s.seen = st[w].seen /\ s.op = st[w].op
        /\ s.attempt = st[w].attempt /\ s.doomed = {} /\ s.image = st[w].image
        /\ s.written = st[w].written /\ st[w].pc = "reassert" /\ st[w].doomed = {}
    BY <1>0, <1>9 DEF Reassert, SessionTidy, Sessions
  <2>2. st' = [st EXCEPT ![w] = s] /\ UNCHANGED <<objects, manifest>>
    BY <1>9 DEF Reassert, Goto
  <2> HIDE DEF s
  <2>3. TargetOf(s) = TargetOf(st[w])
    BY <2>1 DEF TargetOf
  <2>4. SessionTidy(s, manifest)
    BY <1>0, <2>1, <2>3 DEF SessionTidy, Attached, PendingPCs, WritingPCs
  <2>5. \A k \in Keys : Holds(st[w], k) => Holds(s, k)
    BY <2>1 DEF Holds, PendingPCs
  <2> QED
    BY <1>0, <2>2, <2>4, <2>5, GarbageLocal
<1>10. CASE List(w)
  <2>1. /\ st[w].pc = "list" /\ st[w].doomed = {}
        /\ st' = [st EXCEPT ![w] = Deleting(w, Listed(w))]
        /\ UNCHANGED <<objects, manifest>>
    BY <1>0, <1>10 DEF List, SessionTidy
  <2>2. \A k \in Keys : objects'[k] # 0 /\ Holds(st[w], k) => k \in Listed(w)
    BY <2>1 DEF Holds, Listed, PendingPCs
  <2> QED
    BY <2>1, <2>2, GarbageDeleting
<1>11. CASE Delete(w)
  <2>1. PICK k \in st[w].doomed :
          /\ st' = [st EXCEPT ![w] = Deleting(w, st[w].doomed \ {k})]
          /\ objects' = [objects EXCEPT ![k] = 0]
    BY <1>11 DEF Delete, Tidy
  <2>2. st[w].pc = "cleanup" /\ manifest' = manifest
    BY <1>11 DEF Delete
  <2>3. k \in Keys
    BY <1>0, <2>1 DEF Sessions
  <2>4. \A j \in Keys : objects'[j] # 0 => j # k /\ objects[j] # 0
    BY <1>0, <2>1, <2>3
  <2>5. \A j \in Keys : Holds(st[w], j) => j \in st[w].doomed
    BY <2>2 DEF Holds, PendingPCs
  <2> DEFINE keys == st[w].doomed \ {k}
  <2>6. st' = [st EXCEPT ![w] = Deleting(w, keys)]
        /\ \A j \in Keys : objects'[j] # 0 /\ Holds(st[w], j) => j \in keys
    BY <2>1, <2>4, <2>5
  <2> HIDE DEF keys
  <2> QED
    BY <2>2, <2>4, <2>6, GarbageDeleting
<1> QED
  BY <1>1, <1>2, <1>3, <1>4, <1>5, <1>6, <1>7, <1>8, <1>9, <1>10, <1>11 DEF Write

(***************************************************************************)
(* What a commit does with the keys: those it wrote are named by the new   *)
(* manifest, and those the old one named are still named, superseded, or   *)
(* to be listed.                                                           *)
(***************************************************************************)
LEMMA CommitNames ==
  ASSUME GarbageInv, NEW w \in Owners, st[w].pc = "commit", CommitCondition(w)
  PROVE  /\ ManifestTidy(Updated(w))
         /\ \A k \in Keys : Holds(st[w], k) => Names(Updated(w), k)
         /\ ~Prunes(w) => \A k \in Keys : objects[k] # 0 /\ Names(manifest, k)
                                          => Names(Updated(w), k) \/ k \in Superseded(w)
<1> DEFINE a == st[w].attempt
           u == Updated(w)
<1>0. /\ SessionTidy(st[w], manifest) /\ SeenCurrent /\ OperationOK(w, st[w])
      /\ st[w] \in Sessions /\ st[w].op # "none" /\ Pending(w) /\ st[w].pc \in WritingPCs
      /\ manifest \in Manifests /\ ManifestTidy(manifest) /\ a \in Nat /\ a # 0
      /\ \A k \in Keys : objects[k] # 0 => k[2] # 0
  BY NumbersTyped DEF GarbageInv, RevInv, TypeInv, TypeOK, AttemptsBound, OperationsKnown,
                      Pending, PendingPCs, WritingPCs
<1>1. TargetKey(w) = TargetOf(st[w])
  BY DEF TargetKey, TargetOf
<1>2. \A k : Holds(st[w], k) => k = TargetKey(w) \/ (st[w].image /\ k = ImageKey(a))
  BY <1>0, <1>1 DEF Holds, SessionTidy, PendingPCs
<1>3. ASSUME st[w].op \in {"create", "recreate"}, ~Prunes(w)
      PROVE  \A k \in Keys : objects[k] # 0 => ~Names(manifest, k)
  <2>1. manifest.rev = 0
    BY <1>0, <1>3 DEF OperationOK, CommitCondition, Prunes, Exists, SessionTidy
  <2>2. manifest = NoManifest
    BY <1>0, <2>1 DEF SeenCurrent
  <2>3. /\ manifest.treeKey = <<"tree", 0>> /\ manifest.imageKey = <<"image", 0>>
        /\ manifest.checkpointGeneration = 0
    BY <2>2 DEF NoManifest, TreeKey, ImageKey
  <2> QED
    BY <1>0, <2>3 DEF Names
<1>4. CASE st[w].op \in {"create", "recreate"}
  <2>1. u = Created(w)
    BY <1>4 DEF Updated
  <2>2. u.treeKey = TargetKey(w) /\ u.imageKey = ImageKey(a) /\ TargetKey(w) = TreeKey(a)
    BY <1>4, <2>1 DEF Created, TargetKey
  <2> HIDE DEF u
  <2>3. ManifestTidy(u)
    BY <2>2 DEF ManifestTidy, ImageKey, TreeKey, IsReplaceable
  <2>4. \A k \in Keys : Holds(st[w], k) => Names(u, k)
    BY <1>2, <2>2 DEF Names
  <2> QED
    BY <1>3, <1>4, <2>3, <2>4 DEF u
<1>5. CASE st[w].op \in {"save", "checkpoint"}
  <2> DEFINE c == manifest.checkpointGeneration
  <2>1. st[w].seen = manifest /\ c \in Nat
    BY <1>0, <1>5 DEF CommitCondition, SeenCurrent, Manifests
  <2>2. /\ u.treeKey = TargetKey(w)
        /\ u.imageKey \in {manifest.imageKey, ImageKey(a)}
        /\ st[w].image => u.imageKey = ImageKey(a)
        /\ u.checkpointGeneration = c + (IF st[w].op = "checkpoint" THEN 1 ELSE 0)
        /\ TargetKey(w) = IF st[w].op = "checkpoint" THEN CheckpointKey(c + 1) ELSE TreeKey(a)
    <3>1. CASE st[w].op = "save"
      <4>1. u = Saved(w)
        BY <3>1 DEF Updated
      <4>2. /\ Saved(w).treeKey = TargetKey(w) /\ Saved(w).checkpointGeneration = c
            /\ Saved(w).imageKey = IF st[w].image THEN ImageKey(a) ELSE manifest.imageKey
        BY <1>0, <2>1 DEF Saved, Manifests
      <4> QED
        BY <2>1, <3>1, <4>1, <4>2 DEF TargetKey
    <3>2. CASE st[w].op = "checkpoint"
      <4>1. u = Checkpointed(w) /\ ~st[w].image
        BY <1>0, <3>2 DEF Updated, SessionTidy, PendingPCs
      <4>2. /\ Checkpointed(w).treeKey = TargetKey(w)
            /\ Checkpointed(w).checkpointGeneration = c + 1
            /\ Checkpointed(w).imageKey = manifest.imageKey
        BY <1>0, <2>1 DEF Checkpointed, Manifests
      <4> QED
        BY <2>1, <3>2, <4>1, <4>2 DEF TargetKey
    <3> QED
      BY <1>5, <3>1, <3>2
  <2>3. /\ u.checkpointGeneration \in Nat /\ c <= u.checkpointGeneration
        /\ st[w].op = "checkpoint" => u.checkpointGeneration = c + 1
    BY <2>1, <2>2
  <2>4. ManifestTidy(u)
    <3>1. u.imageKey[1] = "image"
      BY <1>0, <2>2 DEF ManifestTidy, ImageKey
    <3>2. CASE st[w].op = "checkpoint"
      <4>1. u.treeKey = CheckpointKey(u.checkpointGeneration)
            /\ u.checkpointGeneration \in 1 .. u.checkpointGeneration
        BY <2>1, <2>2, <2>3, <3>2
      <4> HIDE DEF u
      <4> QED
        BY <3>1, <4>1 DEF ManifestTidy
    <3>3. CASE st[w].op # "checkpoint"
      <4>1. IsReplaceable(u.treeKey)
        BY <2>2, <3>3 DEF IsReplaceable, TreeKey
      <4> QED
        BY <3>1, <4>1 DEF ManifestTidy
    <3> QED
      BY <3>2, <3>3
  <2>5. \A k \in Keys : Holds(st[w], k) => Names(u, k)
    BY <1>2, <2>2 DEF Names
  <2>6. ASSUME NEW k \in Keys, objects[k] # 0, Names(manifest, k)
        PROVE  Names(u, k) \/ k \in Superseded(w)
    <3>1. CASE \E n \in 1 .. c : k = CheckpointKey(n)
      <4>1. \E n \in 1 .. u.checkpointGeneration : k = CheckpointKey(n)
        BY <2>1, <2>3, <3>1
      <4> QED
        BY <4>1 DEF Names
    <3>2. CASE ~\E n \in 1 .. c : k = CheckpointKey(n)
      <4>1. k \in {manifest.treeKey, manifest.imageKey} /\ IsReplaceable(k)
        BY <1>0, <2>6, <3>2 DEF Names, ManifestTidy, IsReplaceable
      <4>2. Exists(manifest)
        BY <1>0, <1>5 DEF SessionTidy, Attached
      <4>3. k \in Superseded(w) \/ k \in {u.treeKey, u.imageKey}
        BY <2>1, <4>1, <4>2 DEF Superseded
      <4> QED
        BY <4>3 DEF Names
    <3> QED
      BY <3>1, <3>2
  <2> QED
    BY <2>4, <2>5, <2>6
<1> QED
  BY <1>0, <1>4, <1>5 DEF Sessions

(***************************************************************************)
(* A new manifest, made by w, breaks nobody's expectations: who recreates  *)
(* a context it found missing is the only one who can have created it.     *)
(***************************************************************************)
LEMMA OthersTidy ==
  ASSUME GarbageInv, Tidy, NEW w \in Owners, NEW v \in Owners, v # w, NEW m, Exists(m),
         Attached(st[w]) \/ Does(w, "create") \/ Does(w, "recreate")
  PROVE  SessionTidy(st[v], m)
<1>1. SessionTidy(st[v], manifest) /\ OperationOK(v, st[v]) /\ SessionTidy(st[w], manifest)
  BY DEF GarbageInv, RevInv, OperationsKnown
<1>2. ~(st[v].op = "recreate" /\ st[v].pc \in WritingPCs /\ st[v].seen.rev = 0)
  <2>1. CASE Attached(st[w])
    BY <1>1, <2>1 DEF SessionTidy, Exists
  <2>2. CASE Does(w, "create") \/ Does(w, "recreate")
    BY <1>1, <2>2 DEF OperationOK, Tidy
  <2> QED
    BY <2>1, <2>2
<1> QED
  BY <1>1, <1>2 DEF SessionTidy

LEMMA CommitGarbageInv ==
  ASSUME GarbageInv, RevInv', Tidy, NEW w \in Owners, Commit(w)
  PROVE  GarbageInv'
<1>0. /\ st[w].pc = "commit" /\ CommitCondition(w) /\ manifest' = Updated(w)
      /\ objects' = objects /\ Pending(w) /\ st[w].pc \in WritingPCs
  BY DEF Commit, Pending, PendingPCs, WritingPCs
<1>1. /\ st[w] \in Sessions /\ SessionTidy(st[w], manifest) /\ OperationOK(w, st[w])
      /\ st[w].op # "none" /\ TypeInv
      /\ \A k \in Keys : objects[k] # 0 => k[2] # 0
  BY <1>0 DEF GarbageInv, RevInv, TypeInv, TypeOK, AttemptsBound, OperationsKnown
<1>2. Exists(manifest')
  BY <1>0, <1>1, UpdatedType, NumbersTyped DEF Exists
<1>3. Attached(st[w]) \/ Does(w, "create") \/ Does(w, "recreate")
  BY <1>1 DEF Attached, OperationOK, Sessions
<1>4. \A v \in Owners : v # w => SessionTidy(st[v], manifest')
  BY <1>2, <1>3, OthersTidy
<1>5. /\ ManifestTidy(manifest')
      /\ \A k \in Keys : Holds(st[w], k) => Names(manifest', k)
      /\ ~Prunes(w) => \A k \in Keys : objects[k] # 0 /\ Names(manifest, k)
                                       => Names(manifest', k) \/ k \in Superseded(w)
  BY <1>0, CommitNames
<1>6. CASE Prunes(w)
  <2> DEFINE s == [st[w] EXCEPT !.pc = "list"]
  <2>1. /\ s.pc = "list" /\ s.doomed = {} /\ s.op = "recreate" /\ s.attempt = st[w].attempt
    BY <1>0, <1>1, <1>6 DEF SessionTidy, Sessions, Prunes
  <2>2. st' = [st EXCEPT ![w] = s]
    BY <1>6 DEF Commit, Goto
  <2> HIDE DEF s
  <2>3. SessionTidy(s, manifest')
    BY <2>1 DEF SessionTidy, Attached, PendingPCs, WritingPCs
  <2>4. manifest'.treeKey = TreeKey(st[w].attempt) /\ manifest'.imageKey = ImageKey(st[w].attempt)
    BY <1>0, <1>6 DEF Prunes, Updated, Created, TargetKey
  <2>5. \A k \in Keys : Names(manifest', k) \/ Holds(s, k)
    BY <2>1, <2>4 DEF Names, Holds
  <2> QED
    BY <1>0, <1>1, <1>4, <1>5, <2>2, <2>3, <2>5, GarbageStep
<1>7. CASE ~Prunes(w)
  <2> DEFINE s == Deleting(w, Superseded(w))
  <2>1. SessionTidy(s, manifest') /\ \A k \in Superseded(w) : Holds(s, k)
    BY <1>0, <1>2, DeletingTidy
  <2>2. st' = [st EXCEPT ![w] = s]
    BY <1>7 DEF Commit
  <2> HIDE DEF s
  <2>3. \A k \in Keys : objects'[k] # 0 /\ (Names(manifest, k) \/ Holds(st[w], k))
                            => Names(manifest', k) \/ Holds(s, k)
    BY <1>0, <1>5, <1>7, <2>1
  <2> QED
    BY <1>0, <1>1, <1>4, <1>5, <2>1, <2>2, <2>3, GarbageStep
<1> QED
  BY <1>6, <1>7

LEMMA OtherGarbageInv ==
  ASSUME GarbageInv, RevInv', Tidy, NEW w \in Owners,
         Detach(w) \/ Touch(w) \/ Renew(w) \/ Crash(w)
  PROVE  GarbageInv'
<1>0. /\ st[w] \in Sessions /\ SessionTidy(st[w], manifest) /\ SeenCurrent
      /\ manifest \in Manifests /\ ManifestTidy(manifest) /\ attempts \in Nat
      /\ \A k \in Keys : objects[k] # 0 => k[2] # 0
  BY DEF GarbageInv, RevInv, TypeInv, TypeOK
<1>1. CASE ReleaseRead(w)
  <2>0. st[w].pc = "mounted" /\ UNCHANGED <<objects, manifest>>
    BY <1>1 DEF ReleaseRead
  <2>1. CASE lease.owner = w /\ ~Does(w, "ownerless")
    <3> DEFINE s == [Unmounted EXCEPT !.pc = "releaseDelete"]
    <3>1. s.pc = "releaseDelete" /\ s.op = "none" /\ s.doomed = {} /\ s.written = {}
      BY DEF Unmounted
    <3>2. st' = [st EXCEPT ![w] = s]
      BY <1>1, <2>1 DEF ReleaseRead
    <3> HIDE DEF s
    <3> QED
      BY <2>0, <3>1, <3>2, GarbageQuiet DEF PendingPCs, Attached
  <2>2. CASE ~(lease.owner = w /\ ~Does(w, "ownerless"))
    BY <1>1, <2>0, <2>2, GarbageForget DEF ReleaseRead, PendingPCs
  <2> QED
    BY <2>1, <2>2
<1>2. CASE ReleaseDelete(w)
  BY <1>2, GarbageForget DEF ReleaseDelete, PendingPCs
<1>3. CASE DetachFails(w)
  BY <1>3, GarbageForget DEF DetachFails, PendingPCs
<1>4. CASE TouchRead(w)
  <2> DEFINE s == [st[w] EXCEPT !.pc = "touchPut", !.seen = manifest]
  <2>1. /\ s.pc = "touchPut" /\ s.doomed = {} /\ s.written = {}
        /\ st[w].pc = "idle" /\ Exists(manifest)
    BY <1>0, <1>4 DEF TouchRead, SessionTidy, Sessions
  <2>2. st' = [st EXCEPT ![w] = s] /\ UNCHANGED <<objects, manifest>>
    BY <1>4 DEF TouchRead
  <2> HIDE DEF s
  <2> QED
    BY <2>1, <2>2, GarbageQuiet DEF PendingPCs, WritingPCs
<1>5. CASE TouchPut(w)
  <2> DEFINE m == [manifest EXCEPT !.rev = attempts + 1]
  <2>1. /\ st[w].seen = manifest /\ st[w].pc = "touchPut"
        /\ manifest' = m /\ objects' = objects /\ st' = [st EXCEPT ![w] = Unmounted]
    BY <1>0, <1>5 DEF TouchPut, SeenCurrent, Forget
  <2>2. /\ m.treeKey = manifest.treeKey /\ m.imageKey = manifest.imageKey
        /\ m.checkpointGeneration = manifest.checkpointGeneration /\ m.rev # 0
    BY <1>0 DEF Manifests
  <2> HIDE DEF m
  <2>3. ManifestTidy(m) /\ \A k : Names(m, k) <=> Names(manifest, k)
    BY <1>0, <2>2 DEF ManifestTidy, Names
  <2>4. \A v \in Owners : v # w => SessionTidy(st[v], m)
    BY <2>1, <2>2, OthersTidy DEF Exists, Attached
  <2>5. SessionTidy(Unmounted, m)
    BY DEF SessionTidy, Attached, Unmounted, PendingPCs
  <2>6. \A k \in Keys : ~Holds(st[w], k)
    BY <1>0, <2>1 DEF SessionTidy, Holds, PendingPCs
  <2> QED
    BY <1>0, <2>1, <2>3, <2>4, <2>5, <2>6, GarbageStep
<1>6. CASE TouchRefused(w)
  BY <1>6, GarbageForget DEF TouchRefused, PendingPCs
<1>7. CASE Renew(w)
  BY <1>7 DEF Renew, GarbageInv, Accounted
<1>8. CASE Crash(w)
  BY <1>8 DEF Crash, Tidy
<1> QED
  BY <1>1, <1>2, <1>3, <1>4, <1>5, <1>6, <1>7, <1>8 DEF Detach, Touch

LEMMA NextGarbageInv ==
  ASSUME Tidy
  PROVE  GarbageInv /\ [Next]_vars => GarbageInv'
<1> SUFFICES ASSUME GarbageInv, [Next]_vars
             PROVE  GarbageInv'
  OBVIOUS
<1>0. RevInv'
  BY NextRevInv DEF GarbageInv
<1>1. ASSUME NEW w \in Owners,
             Attach(w) \/ Write(w) \/ Detach(w) \/ Touch(w) \/ Renew(w) \/ Crash(w)
      PROVE  GarbageInv'
  BY <1>0, <1>1, AttachGarbageInv, WriteGarbageInv, CommitGarbageInv, OtherGarbageInv
<1>2. CASE Expire
  BY <1>0, <1>2 DEF Expire, GarbageInv, Accounted
<1>3. CASE UNCHANGED vars
  BY <1>0, <1>3 DEF vars, GarbageInv, Accounted
<1> QED
  BY <1>1, <1>2, <1>3 DEF Next

(***************************************************************************)
(* Under those conditions every object in the store is one the manifest    *)
(* names, a committed checkpoint, or in the hands of an operation that is  *)
(* still running, whatever the sessions do: no interleaving of saves,      *)
(* checkpoints, takeovers, refused commits and recreations leaks one.      *)
(***************************************************************************)
THEOREM NothingLeft == ASSUME Tidy PROVE Spec => []NoGarbage
<1>1. Init => GarbageInv
  BY InitGarbageInv
<1>2. GarbageInv /\ [Next]_vars => GarbageInv'
  BY NextGarbageInv
<1>3. GarbageInv => NoGarbage
  <2> SUFFICES ASSUME GarbageInv, \A w \in Owners : st[w].pc # "list",
                      NEW k \in Keys, objects[k] # 0
               PROVE  k \in InUse
    BY DEF NoGarbage
  <2>1. Names(manifest, k) \/ \E w \in Owners : Holds(st[w], k)
    BY DEF GarbageInv, Accounted
  <2>2. CASE Names(manifest, k)
    BY <2>2 DEF Names, InUse
  <2>3. CASE \E w \in Owners : Holds(st[w], k)
    <3>1. PICK w \in Owners : k \in st[w].written \cup st[w].doomed
      BY <2>3 DEF Holds
    <3> QED
      BY <3>1 DEF InUse
  <2> QED
    BY <2>1, <2>2, <2>3
<1> QED
  BY <1>1, <1>2, <1>3, PTL DEF Spec

=============================================================================
