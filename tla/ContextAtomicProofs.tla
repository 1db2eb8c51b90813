------------------------ MODULE ContextAtomicProofs ------------------------
(***************************************************************************)
(* ContextCommit implements AtomicContext, for any number of sessions and  *)
(* any number of attempts: what the lock and the compare-and-swap are for  *)
(* (Undisturbed), and when the lock is not needed (OneSaver).              *)
(***************************************************************************)
EXTENDS ContextCommitProofs

USE CommitAssumption DEF CommitAssumption
USE OwnerAssumption DEF OwnerAssumption

-----------------------------------------------------------------------------
(* The inductive invariant *)

(***************************************************************************)
(* The conditions under which the lock and the compare-and-swap make the   *)
(* context atomic: leases do not expire under their owner and nobody takes *)
(* them by force, no answer is lost and no deletion fails, nobody          *)
(* checkpoints or recreates, and either every runtime loop-mounts images   *)
(* or none does.  An attach reads the manifest before it takes the lock;   *)
(* only the deletion of what a save has superseded makes it fail when it   *)
(* read an old one, and each of these conditions is one that keeps the old *)
(* data out of its reach: checkpoints are never deleted, an image is left  *)
(* in place by a session that did not mount it.                            *)
(***************************************************************************)
Undisturbed ==
  /\ {"expire", "lostAck", "deleteFail"} \cap Faults = {}
  /\ \A w \in Owners : {"recreate", "checkpoint", "forceUnlock"} \cap Roles[w] = {}
  /\ \A v, w \in Owners : Does(v, "loopExt4") => Does(w, "loopExt4")

Loops == \E w \in Owners : Does(w, "loopExt4")

(* A manifest whose current data is an image is attached by way of it. *)
ByImage(m) == Loops /\ m.format = "ext4"

(* What an attach that read manifest m fetches. *)
SourceKey(m) == IF ByImage(m) THEN ImageKey(m.treeEncryption) ELSE TreeKey(m.treeEncryption)

(* The data m points at is that of one attempt, made before m was written. *)
ManifestWhole(m) ==
  /\ m.treeKey = TreeKey(m.treeEncryption) /\ m.imageKey[1] = "image"
  /\ ByImage(m) => m.imageKey = ImageKey(m.treeEncryption)
                   /\ m.imageEncryption = m.treeEncryption
  /\ m.treeEncryption <= m.rev
  /\ Exists(m) => m.treeEncryption # 0 /\ m.generation # 0

(* A session in state s has taken the lock and not released it. *)
Holder(s) ==
  s.pc \in {"attachFetch", "attachFail", "mounted", "releaseDelete"} \/ s.op = "save"

(* It works in a sandbox. *)
Mounts(s) == s.pc = "mounted" \/ s.op = "save"

(* w in state s, when the lease is l, the manifest m, and n attempts with
   edits e have been made. *)
SessionHeld(w, s, l, m, e, n) ==
  /\ s.pc = "idle" => s = Unmounted
  /\ s.pc # "list"
  /\ s.pc # "cleanup" => s.doomed = {}
  /\ s.pc = "cleanup" => s.op # "none"
  /\ ManifestWhole(s.seen)
  /\ Holder(s) => l = [owner |-> w, live |-> TRUE]
  /\ Attached(s) => Exists(m)
  /\ s.pc \in {"attachLock", "attachFetch"} => Exists(s.seen)
  /\ s.base \subseteq 1 .. n
  /\ s.pc = "pack" /\ s.op = "create" => s.base = {}
  /\ s.pc \in PendingPCs =>
       /\ s.attempt \in s.base /\ e[s.attempt] = s.base
       /\ s.op = "create" => s.base = {s.attempt}

HeldInv ==
  /\ RevInv
  /\ lease.live <=> lease.owner # NoOwner
  /\ ManifestWhole(manifest)
  /\ made[0] = {} /\ \A b \in 0 .. MaxAttempt : made[b] \subseteq 1 .. b
  /\ \A w \in Owners : SessionHeld(w, st[w], lease, manifest, made, attempts)
  /\ \A v \in Owners : Pending(v) =>
       /\ manifest.treeEncryption # st[v].attempt
       /\ \A w \in Owners : st[w].seen.treeEncryption # st[v].attempt

(* Only the runtime state may have changed between m and n. *)
SameData(m, n) == m.treeEncryption = n.treeEncryption /\ m.format = n.format

(* The session that owns the lease is about to delete k, or never will. *)
Condemned(k) == \E v \in Owners : lease.owner = v /\ (st[v].pc = "crashed" \/ k \in st[v].doomed)

(* A session in state s is attaching to the current data, or to data that
   will not be there when it has the lock. *)
Foresees(s) ==
  \/ SameData(s.seen, manifest)
  \/ objects[SourceKey(s.seen)] # s.seen.treeEncryption
  \/ s.pc = "attachLock" /\ Condemned(SourceKey(s.seen))

(* A session in state s works on top of manifest m, made with edits e, and
   saves an image where there was one. *)
SessionCurrent(s, m, e) ==
  /\ Mounts(s) => e[m.treeEncryption] \subseteq s.base /\ (ByImage(m) => s.loop)
  /\ s.op = "save" /\ ByImage(s.seen) =>
       /\ s.pc \in {"pack"} \cup PendingPCs => s.loop
       /\ s.pc \in PendingPCs => s.image

AtomicInv ==
  /\ HeldInv
  /\ \A w \in Owners : SessionCurrent(st[w], manifest, made)
  /\ \A w \in Owners : st[w].pc \in {"attachLock", "attachFetch"} => Foresees(st[w])

-----------------------------------------------------------------------------
(* The lock is held by at most one session, and every attempt is made of   *)
(* what its session had before                                             *)

LEMMA HeldTypes ==
  ASSUME HeldInv
  PROVE  /\ TypeInv /\ RevInv /\ SeenCurrent /\ AttemptsUnused /\ OperationsKnown
         /\ st \in [Owners -> Sessions] /\ lease \in Leases
         /\ objects \in [Keys -> 0 .. MaxAttempt]
         /\ manifest \in Manifests /\ manifest.rev \in Nat /\ manifest.rev <= attempts
         /\ attempts \in Nat
         /\ made \in [0 .. MaxAttempt -> SUBSET Attempts]
         /\ \A w \in Owners : /\ SessionHeld(w, st[w], lease, manifest, made, attempts)
                              /\ OperationOK(w, st[w])
                              /\ st[w].pc \in WritingPCs => st[w].op # "none"
                              /\ Pending(w) => st[w].attempt \in 1 .. attempts
<1>1. TypeInv /\ SeenCurrent /\ AttemptsUnused /\ OperationsKnown
  BY DEF HeldInv, RevInv
<1>2. /\ st \in [Owners -> Sessions] /\ lease \in Leases
      /\ objects \in [Keys -> 0 .. MaxAttempt] /\ manifest \in Manifests
      /\ made \in [0 .. MaxAttempt -> SUBSET Attempts]
      /\ attempts \in Nat
  BY <1>1 DEF TypeInv, TypeOK
<1>3. manifest.rev \in Nat /\ manifest.rev <= attempts
  BY <1>1, NumbersTyped
<1> QED
  BY <1>1, <1>2, <1>3 DEF HeldInv, OperationsKnown, TypeInv, AttemptsBound

(* Nobody recreates or checkpoints. *)
LEMMA OperationsUsed ==
  ASSUME Undisturbed, NEW w \in Owners
  PROVE  /\ RevInv => st[w].op \in {"none", "create", "save"}
         /\ RevInv /\ st[w].pc \in WritingPCs => st[w].op \in {"create", "save"}
         /\ ~Does(w, "recreate") /\ ~Does(w, "checkpoint") /\ ~Does(w, "forceUnlock")
<1>1. ~Does(w, "recreate") /\ ~Does(w, "checkpoint") /\ ~Does(w, "forceUnlock")
  BY DEF Undisturbed, Does
<1>2. ASSUME RevInv
      PROVE  /\ st[w] \in Sessions /\ OperationOK(w, st[w])
             /\ st[w].pc \in WritingPCs => st[w].op # "none"
  BY <1>2 DEF RevInv, OperationsKnown, TypeInv, TypeOK, AttemptsBound
<1> QED
  BY <1>1, <1>2 DEF Sessions, OperationOK

LEMMA UnmountedHeld ==
  ASSUME NEW w, NEW l, NEW m, NEW e, NEW n
  PROVE  /\ SessionHeld(w, Unmounted, l, m, e, n)
         /\ Unmounted.pc = "idle" /\ Unmounted.op = "none" /\ Unmounted.seen = NoManifest
         /\ Unmounted.doomed = {} /\ Unmounted.written = {} /\ Unmounted.base = {}
         /\ ManifestWhole(NoManifest) /\ NoManifest.treeEncryption = 0 /\ NoManifest.rev = 0
<1>1. /\ Unmounted.pc = "idle" /\ Unmounted.op = "none" /\ Unmounted.seen = NoManifest
      /\ Unmounted.doomed = {} /\ Unmounted.written = {} /\ Unmounted.base = {}
  BY DEF Unmounted
<1>2. ManifestWhole(NoManifest) /\ NoManifest.treeEncryption = 0 /\ NoManifest.rev = 0
  BY DEF ManifestWhole, NoManifest, ByImage, Exists, ImageKey
<1> QED
  BY <1>1, <1>2 DEF SessionHeld, Holder, Attached, PendingPCs

LEMMA InitHeldInv == Init => HeldInv
<1> SUFFICES ASSUME Init PROVE HeldInv
  OBVIOUS
<1>1. RevInv
  BY InitRevInv
<1>2. \A w \in Owners : st[w] = Unmounted /\ ~Pending(w)
  BY UnmountedHeld DEF Init, Pending, PendingPCs
<1>3. ASSUME NEW w \in Owners
      PROVE  SessionHeld(w, st[w], lease, manifest, made, attempts)
  <2>1. SessionHeld(w, Unmounted, lease, manifest, made, attempts)
    BY UnmountedHeld
  <2> QED
    BY <1>2, <2>1
<1>4. lease.live <=> lease.owner # NoOwner
  BY DEF Init, LeaseInit, NoLease
<1>5. made[0] = {} /\ \A b \in 0 .. MaxAttempt : made[b] \subseteq 1 .. b
  BY DEF Init
<1>6. ManifestWhole(manifest)
  BY UnmountedHeld DEF Init
<1> QED
  BY <1>1, <1>2, <1>3, <1>4, <1>5, <1>6 DEF HeldInv

(* A step of w that leaves the manifest alone. *)
LEMMA HeldStep ==
  ASSUME HeldInv, RevInv', NEW w \in Owners, NEW s, st' = [st EXCEPT ![w] = s],
         manifest' = manifest, attempts <= attempts',
         lease'.live <=> lease'.owner # NoOwner,
         made'[0] = {}, \A b \in 0 .. MaxAttempt : made'[b] \subseteq 1 .. b,
         \A b \in 1 .. attempts : made'[b] = made[b],
         \A v \in Owners : v # w /\ Holder(st[v]) => lease' = lease,
         SessionHeld(w, s, lease', manifest, made', attempts'),
         s.seen.treeEncryption \in {st[w].seen.treeEncryption, manifest.treeEncryption, 0},
         s.pc \in PendingPCs => \/ Pending(w) /\ s.attempt = st[w].attempt
                                \/ s.attempt = attempts + 1
  PROVE  HeldInv'
<1>1. /\ st \in [Owners -> Sessions] /\ attempts \in Nat /\ attempts' \in Nat
      /\ manifest \in Manifests /\ manifest.rev \in Nat /\ manifest.rev <= attempts
      /\ \A v \in Owners : /\ SessionHeld(v, st[v], lease, manifest, made, attempts)
                           /\ Pending(v) => st[v].attempt \in 1 .. attempts
      /\ \A v \in Owners : st[v].seen.rev \in Nat /\ st[v].seen.rev <= attempts
                           /\ st[v].seen \in Manifests
  BY HeldTypes, NumbersTyped DEF RevInv, TypeInv, TypeOK, Sessions
<1>2. st'[w] = s /\ \A v \in Owners : v # w => st'[v] = st[v]
  BY <1>1
<1>3. ASSUME NEW v \in Owners
      PROVE  SessionHeld(v, st'[v], lease', manifest', made', attempts')
  <2>1. CASE v = w
    BY <1>2, <2>1
  <2>2. CASE v # w
    <3>1. st'[v] = st[v] /\ SessionHeld(v, st[v], lease, manifest, made, attempts)
      BY <1>1, <1>2, <2>2
    <3>2. st[v].base \subseteq 1 .. attempts'
      BY <1>1, <3>1 DEF SessionHeld
    <3>3. st[v].pc \in PendingPCs => made'[st[v].attempt] = made[st[v].attempt]
      BY <1>1 DEF Pending
    <3>4. Holder(st[v]) => lease' = lease
      BY <2>2
    <3> QED
      BY <3>1, <3>2, <3>3, <3>4 DEF SessionHeld
  <2> QED
    BY <2>1, <2>2
<1>4. /\ manifest.treeEncryption \in Nat /\ manifest.treeEncryption <= attempts
      /\ \A v \in Owners : st[v].seen.treeEncryption \in Nat
                           /\ st[v].seen.treeEncryption <= attempts
  <2>1. ManifestWhole(manifest) /\ \A v \in Owners : ManifestWhole(st[v].seen)
    BY <1>1 DEF HeldInv, SessionHeld
  <2> QED
    BY <1>1, <2>1 DEF ManifestWhole, Manifests
<1>5. ASSUME NEW v \in Owners, st'[v].pc \in PendingPCs
      PROVE  /\ manifest'.treeEncryption # st'[v].attempt
             /\ \A u \in Owners : st'[u].seen.treeEncryption # st'[v].attempt
  <2>1. \/ Pending(v) /\ st'[v].attempt = st[v].attempt
        \/ st'[v].attempt = attempts + 1
    BY <1>2, <1>5 DEF Pending
  <2>2. st'[v].attempt # 0 /\ manifest.treeEncryption # st'[v].attempt
        /\ \A u \in Owners : st[u].seen.treeEncryption # st'[v].attempt
    BY <1>1, <1>4, <2>1 DEF HeldInv
  <2> QED
    BY <1>2, <2>2
<1>6. /\ ManifestWhole(manifest') /\ RevInv' /\ (lease'.live <=> lease'.owner # NoOwner)
      /\ made'[0] = {} /\ \A b \in 0 .. MaxAttempt : made'[b] \subseteq 1 .. b
  BY DEF HeldInv
<1> QED
  BY <1>3, <1>5, <1>6 DEF HeldInv, Pending

(* A step that changes nothing but w and the data objects. *)
LEMMA HeldLocal ==
  ASSUME HeldInv, RevInv', NEW w \in Owners, NEW s, st' = [st EXCEPT ![w] = s],
         UNCHANGED <<lease, manifest, attempts, made>>,
         SessionHeld(w, s, lease, manifest, made, attempts),
         s.seen \in {st[w].seen, manifest, NoManifest},
         s.pc \in PendingPCs => Pending(w) /\ s.attempt = st[w].attempt
  PROVE  HeldInv'
<1>1. /\ lease' = lease /\ manifest' = manifest /\ made' = made /\ attempts' = attempts
      /\ attempts <= attempts'
  BY HeldTypes
<1>2. s.seen.treeEncryption \in {st[w].seen.treeEncryption, manifest.treeEncryption, 0}
  BY UnmountedHeld
<1>3. /\ lease.live <=> lease.owner # NoOwner
      /\ made[0] = {} /\ \A b \in 0 .. MaxAttempt : made[b] \subseteq 1 .. b
  BY DEF HeldInv
<1> QED
  BY <1>1, <1>2, <1>3, HeldStep

(* w forgets what it did; it may have deleted the lock if it was its own. *)
LEMMA HeldForget ==
  ASSUME HeldInv, RevInv', NEW w \in Owners, Forget(w),
         UNCHANGED <<manifest, attempts, made>>,
         lease' = lease \/ (Drop /\ Holder(st[w]))
  PROVE  HeldInv'
<1>1. /\ SessionHeld(w, Unmounted, lease', manifest, made', attempts')
      /\ Unmounted.pc = "idle" /\ Unmounted.seen.treeEncryption = 0
  BY UnmountedHeld
<1>2. st' = [st EXCEPT ![w] = Unmounted]
  BY DEF Forget
<1>3. ASSUME NEW v \in Owners, v # w, Holder(st[v])
      PROVE  lease' = lease
  BY <1>3, HeldTypes DEF SessionHeld
<1>4. lease'.live <=> lease'.owner # NoOwner
  BY DEF HeldInv, Drop, NoLease
<1>5. /\ manifest' = manifest /\ made' = made /\ attempts' = attempts /\ attempts <= attempts'
  BY HeldTypes
<1>6. made[0] = {} /\ \A b \in 0 .. MaxAttempt : made[b] \subseteq 1 .. b
  BY DEF HeldInv
<1> QED
  BY <1>1, <1>2, <1>3, <1>4, <1>5, <1>6, HeldStep DEF PendingPCs

(* What is left of a session that goes on to delete keys, or rests. *)
LEMMA DeletingHeld ==
  ASSUME HeldInv, Undisturbed, NEW w \in Owners, NEW keys, NEW m,
         Attached(st[w]) => Exists(m),
         st[w].pc \in WritingPCs \cup {"cleanup"}
  PROVE  /\ SessionHeld(w, Deleting(w, keys), lease, m, made, attempts)
         /\ Deleting(w, keys).pc \in {"idle", "mounted", "cleanup"}
         /\ Deleting(w, keys).seen \in {st[w].seen, NoManifest}
         /\ keys # {} => Deleting(w, keys).doomed = keys /\ Deleting(w, keys).pc = "cleanup"
         /\ Mounts(Deleting(w, keys)) => /\ Mounts(st[w])
                                         /\ Deleting(w, keys).base = st[w].base
                                         /\ Deleting(w, keys).loop = st[w].loop
<1>0. /\ SessionHeld(w, st[w], lease, manifest, made, attempts) /\ st[w] \in Sessions
      /\ st[w].op \in {"create", "save"}
  BY HeldTypes, OperationsUsed DEF SessionHeld
<1>1. CASE keys # {}
  <2> DEFINE s == Deleting(w, keys)
  <2>1. /\ s.pc = "cleanup" /\ s.doomed = keys /\ s.op = st[w].op /\ s.seen = st[w].seen
        /\ s.base = st[w].base /\ s.loop = st[w].loop
    BY <1>0, <1>1 DEF Deleting, Sessions
  <2> HIDE DEF s
  <2>2. Holder(s) => Holder(st[w])
    BY <2>1 DEF Holder
  <2>3. SessionHeld(w, s, lease, m, made, attempts)
    BY <1>0, <2>1, <2>2 DEF SessionHeld, Attached, PendingPCs
  <2>4. Mounts(s) => Mounts(st[w])
    BY <2>1 DEF Mounts
  <2> QED
    BY <1>1, <2>1, <2>3, <2>4 DEF s
<1>2. CASE keys = {} /\ st[w].op = "create"
  <2>1. Deleting(w, keys) = Unmounted
    BY <1>2 DEF Deleting, Rested
  <2>2. ~Mounts(Unmounted)
    BY UnmountedHeld DEF Mounts
  <2> QED
    BY <1>2, <2>1, <2>2, UnmountedHeld
<1>3. CASE keys = {} /\ st[w].op = "save"
  <2> DEFINE s == Deleting(w, keys)
  <2>1. /\ s.pc = "mounted" /\ s.doomed = {} /\ s.op = "none" /\ s.seen = NoManifest
        /\ s.base = st[w].base /\ s.loop = st[w].loop
    BY <1>3 DEF Deleting, Rested, Unmounted
  <2> HIDE DEF s
  <2>2. /\ Holder(st[w]) /\ Attached(st[w]) /\ Mounts(st[w])
    BY <1>3 DEF Holder, Attached, Mounts
  <2>3. SessionHeld(w, s, lease, m, made, attempts)
    BY <1>0, <2>1, <2>2, UnmountedHeld DEF SessionHeld, PendingPCs
  <2> QED
    BY <1>3, <2>1, <2>2, <2>3 DEF s
<1> QED
  BY <1>0, <1>1, <1>2, <1>3

LEMMA AttachHeldInv ==
  ASSUME HeldInv, RevInv', Undisturbed, NEW w \in Owners, Attach(w)
  PROVE  HeldInv'
<1>0. /\ st[w] \in Sessions /\ SessionHeld(w, st[w], lease, manifest, made, attempts)
      /\ attempts \in Nat /\ st[w].op \in {"none", "create", "save"}
      /\ made \in [0 .. MaxAttempt -> SUBSET Attempts]
      /\ \A v \in Owners : SessionHeld(v, st[v], lease, manifest, made, attempts)
  BY HeldTypes, OperationsUsed
<1>m. /\ lease.live <=> lease.owner # NoOwner
      /\ ManifestWhole(manifest)
      /\ made[0] = {} /\ \A b \in 0 .. MaxAttempt : made[b] \subseteq 1 .. b
  BY DEF HeldInv
<1>1. CASE AttachRead(w)
  <2> DEFINE s == [st[w] EXCEPT !.pc = "attachLock", !.seen = manifest]
  <2>1. /\ s.pc = "attachLock" /\ s.seen = manifest /\ s.op = "none" /\ s.base = {}
        /\ s.doomed = {} /\ Exists(manifest)
    BY <1>0, <1>1, UnmountedHeld DEF AttachRead, SessionHeld, Sessions
  <2>2. st' = [st EXCEPT ![w] = s] /\ UNCHANGED <<lease, manifest, attempts, made>>
    BY <1>1 DEF AttachRead
  <2> HIDE DEF s
  <2>3. SessionHeld(w, s, lease, manifest, made, attempts)
    BY <1>m, <2>1 DEF SessionHeld, Holder, PendingPCs
  <2> QED
    BY <2>1, <2>2, <2>3, HeldLocal DEF PendingPCs
<1>2. CASE AttachRefused(w)
  BY <1>2, HeldForget DEF AttachRefused
<1>3. CASE AttachLock(w)
  <2> DEFINE s == [st[w] EXCEPT !.pc = "attachFetch",
                                !.adopted = (lease = [owner |-> w, live |-> TRUE])]
  <2>1. /\ s.pc = "attachFetch" /\ s.seen = st[w].seen /\ s.op = st[w].op
        /\ s.base = st[w].base /\ s.doomed = {} /\ Exists(manifest) /\ Exists(st[w].seen)
        /\ st[w].pc = "attachLock"
    BY <1>0, <1>3 DEF AttachLock, SessionHeld, Attached, Sessions
  <2>2. /\ st' = [st EXCEPT ![w] = s] /\ UNCHANGED <<objects, manifest, attempts, made>>
        /\ ~Blocks(w) /\ lease' = [owner |-> w, live |-> TRUE]
    BY <1>3 DEF AttachLock, Grant
  <2> HIDE DEF s
  <2>3. SessionHeld(w, s, lease', manifest, made', attempts')
    BY <1>0, <2>1, <2>2 DEF SessionHeld, PendingPCs
  <2>4. ASSUME NEW v \in Owners, v # w, Holder(st[v])
        PROVE  lease' = lease
    BY <1>0, <2>2, <2>4 DEF SessionHeld, Blocks
  <2>5. lease'.live <=> lease'.owner # NoOwner
    BY <2>2
  <2>6. /\ manifest' = manifest /\ made' = made /\ attempts <= attempts'
        /\ s.pc \notin PendingPCs
    BY <1>0, <2>1, <2>2 DEF PendingPCs
  <2>7. /\ made'[0] = {} /\ \A b \in 0 .. MaxAttempt : made'[b] \subseteq 1 .. b
        /\ \A b \in 1 .. attempts : made'[b] = made[b]
    BY <1>m, <2>6
  <2> QED
    BY <2>1, <2>2, <2>3, <2>4, <2>5, <2>6, <2>7, HeldStep
<1>4. CASE AttachForce(w)
  BY <1>4, OperationsUsed DEF AttachForce
<1>5. CASE AttachFetch(w)
  <2> DEFINE s == [Unmounted EXCEPT !.pc = "mounted", !.loop = LoopMounts(w),
                                    !.base = made[Source(w).encryption]]
  <2>1. /\ s.pc = "mounted" /\ s.op = "none" /\ s.seen = NoManifest /\ s.doomed = {}
        /\ s.base = made[Source(w).encryption]
    BY DEF Unmounted
  <2>2. /\ st' = [st EXCEPT ![w] = s] /\ UNCHANGED <<lease, manifest, attempts, made>>
        /\ Holder(st[w]) /\ Attached(st[w])
    BY <1>5 DEF AttachFetch, Holder, Attached
  <2> HIDE DEF s
  <2>3. s.base \subseteq 1 .. attempts
    <3>1. Source(w).encryption = st[w].seen.treeEncryption
      BY <1>0 DEF Source, SessionHeld, ManifestWhole, ByImage, Loops, LoopMounts
    <3>2. st[w].seen \in Manifests /\ st[w].seen.rev \in Nat /\ st[w].seen.rev <= attempts
          /\ st[w].seen.treeEncryption <= st[w].seen.rev
      BY <1>0, HeldTypes, NumbersTyped DEF SessionHeld, ManifestWhole, Sessions
    <3>3. /\ st[w].seen.treeEncryption \in 0 .. MaxAttempt /\ st[w].seen.treeEncryption <= attempts
      BY <1>0, <3>2 DEF Manifests
    <3> QED
      BY <1>0, <1>m, <2>1, <3>1, <3>3
  <2>4. SessionHeld(w, s, lease, manifest, made, attempts)
    BY <1>0, <2>1, <2>2, <2>3, UnmountedHeld DEF SessionHeld, PendingPCs
  <2> QED
    BY <2>1, <2>2, <2>4, HeldLocal DEF PendingPCs
<1>6. CASE AttachBroken(w)
  <2> DEFINE s == [st[w] EXCEPT !.pc = "attachFail"]
  <2>1. /\ s.pc = "attachFail" /\ s.seen = st[w].seen /\ s.op = st[w].op
        /\ s.base = st[w].base /\ s.doomed = {}
    BY <1>0, <1>6 DEF AttachBroken, SessionHeld, Sessions
  <2>2. /\ st' = [st EXCEPT ![w] = s] /\ UNCHANGED <<lease, manifest, attempts, made>>
        /\ Holder(st[w]) /\ Attached(st[w])
    BY <1>6 DEF AttachBroken, Goto, Holder, Attached
  <2> HIDE DEF s
  <2>3. SessionHeld(w, s, lease, manifest, made, attempts)
    BY <1>0, <2>1, <2>2 DEF SessionHeld, PendingPCs
  <2> QED
    BY <2>1, <2>2, <2>3, HeldLocal DEF PendingPCs
<1>7. CASE AttachAbort(w)
  <2>1. lease' = lease \/ (Drop /\ Holder(st[w]))
    BY <1>7 DEF AttachAbort, Holder
  <2> QED
    BY <1>7, <2>1, HeldForget DEF AttachAbort
<1> QED
  BY <1>1, <1>2, <1>3, <1>4, <1>5, <1>6, <1>7 DEF Attach

LEMMA HeldDeleting ==
  ASSUME HeldInv, RevInv', Undisturbed, NEW w \in Owners, NEW keys,
         st' = [st EXCEPT ![w] = Deleting(w, keys)],
         UNCHANGED <<lease, manifest, attempts, made>>,
         st[w].pc \in WritingPCs \cup {"cleanup"}
  PROVE  HeldInv'
<1> DEFINE s == Deleting(w, keys)
<1>1. Attached(st[w]) => Exists(manifest)
  BY HeldTypes DEF SessionHeld
<1>2. /\ SessionHeld(w, s, lease, manifest, made, attempts)
      /\ s.pc \notin PendingPCs /\ s.seen \in {st[w].seen, NoManifest}
  BY <1>1, DeletingHeld DEF PendingPCs
<1>3. st' = [st EXCEPT ![w] = s]
  OBVIOUS
<1> HIDE DEF s
<1> QED
  BY <1>2, <1>3, HeldLocal

LEMMA WriteHeldInv ==
  ASSUME HeldInv, RevInv', Undisturbed, NEW w \in Owners, Write(w), ~Commit(w)
  PROVE  HeldInv'
<1>0. /\ st[w] \in Sessions /\ SessionHeld(w, st[w], lease, manifest, made, attempts)
      /\ TypeInv /\ attempts \in 0 .. MaxAttempt /\ st[w].op \in {"none", "create", "save"}
      /\ made \in [0 .. MaxAttempt -> SUBSET Attempts]
      /\ st \in [Owners -> Sessions]
  BY HeldTypes, OperationsUsed DEF TypeInv, TypeOK
<1>m. /\ lease.live <=> lease.owner # NoOwner
      /\ ManifestWhole(manifest)
      /\ made[0] = {} /\ \A b \in 0 .. MaxAttempt : made[b] \subseteq 1 .. b
  BY DEF HeldInv
<1>1. ASSUME NEW op \in {"create", "recreate"}, CreateStart(w, op)
      PROVE  HeldInv'
  <2> DEFINE s == [st[w] EXCEPT !.pc = "pack", !.op = op, !.seen = manifest]
  <2>1. /\ s.pc = "pack" /\ s.seen = manifest /\ s.op = "create" /\ s.base = {}
        /\ s.doomed = {}
    BY <1>0, <1>1, UnmountedHeld, OperationsUsed DEF CreateStart, SessionHeld, Sessions
  <2>2. st' = [st EXCEPT ![w] = s] /\ UNCHANGED <<lease, manifest, attempts, made>>
    BY <1>1 DEF CreateStart
  <2> HIDE DEF s
  <2>3. SessionHeld(w, s, lease, manifest, made, attempts)
    BY <1>m, <2>1 DEF SessionHeld, Holder, Attached, PendingPCs
  <2> QED
    BY <2>1, <2>2, <2>3, HeldLocal DEF PendingPCs
<1>2. ASSUME NEW op \in {"save", "checkpoint"}, SaveStart(w, op)
      PROVE  HeldInv'
  <2> DEFINE s == [st[w] EXCEPT !.pc = "readManifest", !.op = op]
  <2>1. /\ s.pc = "readManifest" /\ s.seen = st[w].seen /\ s.op = "save"
        /\ s.base = st[w].base /\ s.doomed = {}
    BY <1>0, <1>2, OperationsUsed DEF SaveStart, SessionHeld, Sessions
  <2>2. /\ st' = [st EXCEPT ![w] = s] /\ UNCHANGED <<lease, manifest, attempts, made>>
        /\ Holder(st[w]) /\ Attached(st[w])
    BY <1>2 DEF SaveStart, Holder, Attached
  <2> HIDE DEF s
  <2>3. SessionHeld(w, s, lease, manifest, made, attempts)
    BY <1>0, <2>1, <2>2 DEF SessionHeld, PendingPCs
  <2> QED
    BY <2>1, <2>2, <2>3, HeldLocal DEF PendingPCs
<1>3. CASE ReadManifest(w)
  <2> DEFINE s == [st[w] EXCEPT !.pc = "pack", !.seen = manifest]
  <2>1. /\ s.pc = "pack" /\ s.seen = manifest /\ s.op = st[w].op
        /\ s.base = st[w].base /\ s.doomed = {} /\ st[w].pc = "readManifest"
    BY <1>0, <1>3 DEF ReadManifest, SessionHeld, Sessions
  <2>2. /\ st' = [st EXCEPT ![w] = s] /\ UNCHANGED <<lease, manifest, attempts, made>>
        /\ s.op = "save"
    BY <1>3, <2>1, HeldTypes, OperationsUsed DEF ReadManifest, OperationOK, WritingPCs
  <2> HIDE DEF s
  <2>3. SessionHeld(w, s, lease, manifest, made, attempts)
    BY <1>0, <1>m, <2>1, <2>2 DEF SessionHeld, Holder, Attached, PendingPCs
  <2> QED
    BY <2>1, <2>2, <2>3, HeldLocal DEF PendingPCs
<1>4. CASE Pack(w)
  <2> DEFINE a == attempts + 1
             edits == st[w].base \cup {a}
             s == [st[w] EXCEPT !.pc = "putTree", !.attempt = a,
                                !.image = PersistsImage(w), !.base = edits]
  <2>1. /\ s.pc = "putTree" /\ s.seen = st[w].seen /\ s.op = st[w].op /\ s.attempt = a
        /\ s.base = edits /\ s.doomed = {} /\ st[w].pc = "pack"
    BY <1>0, <1>4 DEF Pack, SessionHeld, Sessions
  <2>2. /\ st' = [st EXCEPT ![w] = s] /\ UNCHANGED <<lease, objects, manifest>>
        /\ attempts' = a /\ made' = [made EXCEPT ![a] = edits] /\ a \in 1 .. MaxAttempt
        /\ a \in Nat /\ a # 0
    BY <1>0, <1>4 DEF Pack
  <2> HIDE DEF s
  <2>3. edits \subseteq 1 .. a /\ a \in edits /\ (st[w].op = "create" => edits = {a})
    BY <1>0, <2>1, <2>2 DEF SessionHeld
  <2>4. /\ made'[a] = edits /\ \A b \in 0 .. MaxAttempt : b # a => made'[b] = made[b]
    BY <1>0, <2>2
  <2> HIDE DEF edits
  <2>5. SessionHeld(w, s, lease', manifest, made', attempts')
    <3>1. Holder(s) => Holder(st[w])
      BY <2>1 DEF Holder
    <3> QED
      BY <1>0, <2>1, <2>2, <2>3, <2>4, <3>1 DEF SessionHeld, Attached, PendingPCs
  <2>6. /\ made'[0] = {} /\ \A b \in 0 .. MaxAttempt : made'[b] \subseteq 1 .. b
    <3>1. made'[0] = {}
      BY <1>0, <1>m, <2>2, <2>4
    <3>2. ASSUME NEW b \in 0 .. MaxAttempt
          PROVE  made'[b] \subseteq 1 .. b
      <4>1. CASE b = a
        BY <2>3, <2>4, <4>1
      <4>2. CASE b # a
        BY <1>m, <2>4, <4>2
      <4> QED
        BY <4>1, <4>2
    <3> QED
      BY <3>1, <3>2
  <2>7. \A b \in 1 .. attempts : made'[b] = made[b]
    BY <1>0, <2>4
  <2>8. /\ manifest' = manifest /\ lease' = lease /\ attempts <= attempts'
        /\ s.attempt = attempts + 1
    BY <1>0, <2>1, <2>2
  <2> QED
    BY <1>m, <2>1, <2>2, <2>5, <2>6, <2>7, <2>8, HeldStep
<1>5. CASE PackFails(w)
  <2>1. /\ st' = [st EXCEPT ![w] = Deleting(w, {})] /\ st[w].pc = "pack"
        /\ UNCHANGED <<lease, manifest, attempts, made>>
    BY <1>5 DEF PackFails, Deleting
  <2> QED
    BY <2>1, HeldDeleting DEF WritingPCs
<1>6. ASSUME NEW s, st' = [st EXCEPT ![w] = s], Pending(w),
             s.pc \in PendingPCs, s.seen = st[w].seen, s.op = st[w].op,
             s.attempt = st[w].attempt, s.base = st[w].base, s.doomed = st[w].doomed,
             UNCHANGED <<lease, manifest, attempts, made>>
      PROVE  HeldInv'
  <2>1. Holder(s) => Holder(st[w])
    BY <1>6 DEF Holder, PendingPCs
  <2>2. SessionHeld(w, s, lease, manifest, made, attempts)
    BY <1>0, <1>6, <2>1 DEF SessionHeld, Attached, PendingPCs, Pending
  <2> QED
    BY <1>6, <2>2, HeldLocal
<1>7. CASE PutTree(w)
  <2> DEFINE s == [st[w] EXCEPT !.pc = IF st[w].image THEN "putImage" ELSE BeforeCommit(w),
                                !.written = {TargetKey(w)}]
  <2>1. /\ s.pc \in PendingPCs /\ s.seen = st[w].seen /\ s.op = st[w].op
        /\ s.attempt = st[w].attempt /\ s.base = st[w].base /\ s.doomed = st[w].doomed
    BY <1>0 DEF Sessions, BeforeCommit, PendingPCs
  <2>2. /\ st' = [st EXCEPT ![w] = s] /\ Pending(w)
        /\ UNCHANGED <<lease, manifest, attempts, made>>
    BY <1>7 DEF PutTree, Pending, PendingPCs
  <2> HIDE DEF s
  <2> QED
    BY <1>6, <2>1, <2>2
<1>8. CASE PutImage(w)
  <2> DEFINE s == [st[w] EXCEPT !.pc = BeforeCommit(w),
                                !.written = st[w].written \cup {ImageKey(st[w].attempt)}]
  <2>1. /\ s.pc \in PendingPCs /\ s.seen = st[w].seen /\ s.op = st[w].op
        /\ s.attempt = st[w].attempt /\ s.base = st[w].base /\ s.doomed = st[w].doomed
    BY <1>0 DEF Sessions, BeforeCommit, PendingPCs
  <2>2. /\ st' = [st EXCEPT ![w] = s] /\ Pending(w)
        /\ UNCHANGED <<lease, manifest, attempts, made>>
    BY <1>8 DEF PutImage, Pending, PendingPCs
  <2> HIDE DEF s
  <2> QED
    BY <1>6, <2>1, <2>2
<1>9. CASE Reassert(w)
  <2> DEFINE s == [st[w] EXCEPT !.pc = "commit"]
  <2>1. /\ s.pc \in PendingPCs /\ s.seen = st[w].seen /\ s.op = st[w].op
        /\ s.attempt = st[w].attempt /\ s.base = st[w].base /\ s.doomed = st[w].doomed
    BY <1>0 DEF Sessions, PendingPCs
  <2>2. /\ st' = [st EXCEPT ![w] = s] /\ Pending(w)
        /\ UNCHANGED <<lease, manifest, attempts, made>>
    BY <1>9 DEF Reassert, Goto, Pending, PendingPCs
  <2> HIDE DEF s
  <2> QED
    BY <1>6, <2>1, <2>2
<1>10. CASE PutDataFails(w) \/ ReassertFails(w) \/ CommitRefused(w) \/ CommitFails(w)
  <2>1. /\ st' = [st EXCEPT ![w] = Deleting(w, RolledBack(w))]
        /\ UNCHANGED <<lease, manifest, attempts, made>>
        /\ st[w].pc \in WritingPCs
    BY <1>10 DEF PutDataFails, ReassertFails, CommitRefused, CommitFails, Abort, WritingPCs,
                 PendingPCs, Undisturbed
  <2> QED
    BY <2>1, HeldDeleting
<1>11. CASE List(w)
  BY <1>0, <1>11 DEF List, SessionHeld
<1>12. CASE Delete(w)
  <2>1. PICK k \in st[w].doomed : st' = [st EXCEPT ![w] = Deleting(w, st[w].doomed \ {k})]
    BY <1>12 DEF Delete
  <2>2. st[w].pc = "cleanup" /\ UNCHANGED <<lease, manifest, attempts, made>>
    BY <1>12 DEF Delete
  <2> QED
    BY <2>1, <2>2, HeldDeleting
<1> QED
  BY <1>1, <1>2, <1>3, <1>4, <1>5, <1>7, <1>8, <1>9, <1>10, <1>11, <1>12 DEF Write

(***************************************************************************)
(* What a commit needs and writes, when its condition holds: a create      *)
(* found nothing, a save carries on from the current manifest.             *)
(***************************************************************************)
LEMMA CommitWhole ==
  ASSUME HeldInv, Undisturbed, NEW w \in Owners, st[w].pc = "commit", CommitCondition(w)
  PROVE  /\ ~Prunes(w) /\ st[w].seen = manifest
         /\ \/ st[w].op = "create" /\ manifest = NoManifest
            \/ st[w].op = "save" /\ Exists(manifest)
         /\ ManifestWhole(Updated(w)) /\ Exists(Updated(w))
         /\ Updated(w).treeEncryption = st[w].attempt
         /\ Updated(w).generation = manifest.generation + 1
         /\ Updated(w).checkpointGeneration = manifest.checkpointGeneration
         /\ ByImage(Updated(w)) => st[w].image
         /\ st[w].op = "save" /\ ByImage(Updated(w)) => ByImage(manifest)
         /\ st[w].op = "save" /\ ByImage(manifest) /\ st[w].image => ByImage(Updated(w))
         /\ Updated(w).treeKey = TreeKey(st[w].attempt)
         /\ st[w].image => Updated(w).imageKey = ImageKey(st[w].attempt)
<1> DEFINE a == st[w].attempt
           u == Updated(w)
<1>0. /\ st[w] \in Sessions /\ SessionHeld(w, st[w], lease, manifest, made, attempts)
      /\ SeenCurrent /\ OperationOK(w, st[w]) /\ st[w].op \in {"create", "save"}
      /\ st[w].pc \in WritingPCs /\ Pending(w) /\ TypeInv /\ manifest \in Manifests
      /\ ManifestWhole(manifest)
  BY HeldTypes, OperationsUsed DEF WritingPCs, Pending, PendingPCs, HeldInv
<1>1. a \in Nat /\ a # 0 /\ u.rev = a
  BY <1>0, UpdatedType, NumbersTyped
<1>2. ~Prunes(w) /\ st[w].seen = manifest /\ TargetKey(w) = TreeKey(a)
  BY <1>0 DEF CommitCondition, SeenCurrent, Prunes, TargetKey
<1>3. CASE st[w].op = "create"
  <2>1. manifest = NoManifest
    BY <1>0, <1>2, <1>3 DEF OperationOK, SeenCurrent
  <2>2. manifest.generation = 0 /\ manifest.checkpointGeneration = 0
    BY <2>1 DEF NoManifest
  <2>3. u = Created(w)
    BY <1>3 DEF Updated
  <2>4. /\ u.generation = 1 /\ u.checkpointGeneration = 0
        /\ u.treeKey = TreeKey(a) /\ u.treeEncryption = a /\ u.imageKey = ImageKey(a)
        /\ u.format = "ext4" => st[w].image
        /\ st[w].image => u.imageEncryption = a
    BY <1>2, <2>3 DEF Created
  <2> HIDE DEF u
  <2>5. ManifestWhole(u) /\ Exists(u)
    BY <1>1, <2>4 DEF ManifestWhole, ByImage, Exists, ImageKey
  <2> QED
    BY <1>2, <1>3, <2>1, <2>2, <2>4, <2>5 DEF u, ByImage
<1>4. CASE st[w].op = "save"
  <2>1. Exists(manifest) /\ manifest.generation \in Nat
    BY <1>0, <1>4 DEF SessionHeld, Attached, Manifests
  <2>2. u = Saved(w)
    BY <1>4 DEF Updated
  <2>3. /\ u.generation = manifest.generation + 1
        /\ u.checkpointGeneration = manifest.checkpointGeneration
        /\ u.treeKey = TreeKey(a) /\ u.treeEncryption = a
        /\ u.format = IF manifest.format = "ext4" /\ st[w].image THEN "ext4" ELSE "tree"
        /\ st[w].image => u.imageKey = ImageKey(a) /\ u.imageEncryption = a
        /\ u.imageKey \in {manifest.imageKey, ImageKey(a)}
    BY <1>0, <1>2, <2>2 DEF Saved, Manifests
  <2> HIDE DEF u
  <2>4. ManifestWhole(u) /\ Exists(u)
    BY <1>0, <1>1, <2>1, <2>3 DEF ManifestWhole, ByImage, Exists, ImageKey
  <2> QED
    BY <1>2, <1>4, <2>1, <2>3, <2>4 DEF u, ByImage
<1> QED
  BY <1>0, <1>3, <1>4

(* A step of w that changes the manifest and nothing but w besides. *)
LEMMA HeldWrite ==
  ASSUME HeldInv, RevInv', NEW w \in Owners, NEW s, st' = [st EXCEPT ![w] = s],
         UNCHANGED <<lease, made>>, attempts <= attempts', attempts' \in Nat,
         ManifestWhole(manifest'), Exists(manifest'),
         SessionHeld(w, s, lease, manifest', made, attempts'),
         s.pc \notin PendingPCs, s.seen \in {st[w].seen, NoManifest},
         \/ manifest'.treeEncryption = manifest.treeEncryption
         \/ Pending(w) /\ manifest'.treeEncryption = st[w].attempt
  PROVE  HeldInv'
<1>1. /\ st \in [Owners -> Sessions] /\ attempts \in Nat /\ AttemptsUnused
      /\ \A v \in Owners : /\ SessionHeld(v, st[v], lease, manifest, made, attempts)
                           /\ Pending(v) => st[v].attempt \in 1 .. attempts
  BY HeldTypes
<1>2. st'[w] = s /\ \A v \in Owners : v # w => st'[v] = st[v]
  BY <1>1
<1>3. ASSUME NEW v \in Owners
      PROVE  SessionHeld(v, st'[v], lease', manifest', made', attempts')
  <2>1. CASE v = w
    BY <1>2, <2>1
  <2>2. CASE v # w
    <3>1. st'[v] = st[v] /\ SessionHeld(v, st[v], lease, manifest, made, attempts)
      BY <1>1, <1>2, <2>2
    <3>2. st[v].base \subseteq 1 .. attempts'
      BY <1>1, <3>1 DEF SessionHeld
    <3> QED
      BY <3>1, <3>2 DEF SessionHeld
  <2> QED
    BY <2>1, <2>2
<1>4. ASSUME NEW v \in Owners, st'[v].pc \in PendingPCs
      PROVE  /\ manifest'.treeEncryption # st'[v].attempt
             /\ \A x \in Owners : st'[x].seen.treeEncryption # st'[v].attempt
  <2>1. v # w /\ st'[v] = st[v] /\ Pending(v) /\ st[v].attempt # 0
    BY <1>1, <1>2, <1>4 DEF Pending
  <2>2. manifest'.treeEncryption # st[v].attempt
    BY <1>1, <2>1 DEF HeldInv, AttemptsUnused
  <2>3. \A x \in Owners : st[x].seen.treeEncryption # st[v].attempt
    BY <2>1 DEF HeldInv
  <2>4. NoManifest.treeEncryption = 0
    BY DEF NoManifest
  <2> QED
    BY <1>2, <2>1, <2>2, <2>3, <2>4
<1> QED
  BY <1>3, <1>4 DEF HeldInv, Pending

LEMMA CommitHeldInv ==
  ASSUME HeldInv, RevInv', Undisturbed, NEW w \in Owners, Commit(w)
  PROVE  HeldInv'
<1> DEFINE s == Deleting(w, Superseded(w))
<1>0. /\ st[w].pc = "commit" /\ CommitCondition(w) /\ manifest' = Updated(w)
      /\ UNCHANGED <<lease, objects, attempts, made>> /\ Pending(w)
      /\ st[w].pc \in WritingPCs /\ attempts <= attempts' /\ attempts' \in Nat
  BY HeldTypes DEF Commit, Pending, PendingPCs, WritingPCs
<1>1. /\ ~Prunes(w) /\ ManifestWhole(manifest') /\ Exists(manifest')
      /\ manifest'.treeEncryption = st[w].attempt
  BY <1>0, CommitWhole
<1>2. st' = [st EXCEPT ![w] = s]
  BY <1>1 DEF Commit
<1>3. /\ SessionHeld(w, s, lease, manifest', made, attempts)
      /\ s.pc \notin PendingPCs /\ s.seen \in {st[w].seen, NoManifest}
  BY <1>0, <1>1, DeletingHeld DEF PendingPCs
<1>4. SessionHeld(w, s, lease, manifest', made, attempts')
  BY <1>0, <1>3
<1> HIDE DEF s
<1> QED
  BY <1>0, <1>1, <1>2, <1>3, <1>4, HeldWrite

LEMMA OtherHeldInv ==
  ASSUME HeldInv, RevInv', Undisturbed, NEW w \in Owners,
         Detach(w) \/ Touch(w) \/ Renew(w) \/ Crash(w)
  PROVE  HeldInv'
<1>0. /\ st[w] \in Sessions /\ SessionHeld(w, st[w], lease, manifest, made, attempts)
      /\ attempts \in Nat /\ SeenCurrent /\ manifest \in Manifests
  BY HeldTypes
<1>m. (lease.live <=> lease.owner # NoOwner) /\ ManifestWhole(manifest)
  BY DEF HeldInv
<1>1. CASE ReleaseRead(w)
  <2>0. Holder(st[w]) /\ UNCHANGED <<lease, manifest, attempts, made>>
    BY <1>1 DEF ReleaseRead, Holder
  <2>1. CASE lease.owner = w /\ ~Does(w, "ownerless")
    <3> DEFINE s == [Unmounted EXCEPT !.pc = "releaseDelete"]
    <3>1. /\ s.pc = "releaseDelete" /\ s.op = "none" /\ s.doomed = {} /\ s.seen = NoManifest
          /\ s.base = {}
      BY DEF Unmounted
    <3>2. st' = [st EXCEPT ![w] = s]
      BY <1>1, <2>1 DEF ReleaseRead
    <3> HIDE DEF s
    <3>3. SessionHeld(w, s, lease, manifest, made, attempts)
      BY <1>0, <2>0, <3>1, UnmountedHeld DEF SessionHeld, Attached, PendingPCs
    <3> QED
      BY <2>0, <3>1, <3>2, <3>3, HeldLocal DEF PendingPCs
  <2>2. CASE ~(lease.owner = w /\ ~Does(w, "ownerless"))
    BY <1>1, <2>0, <2>2, HeldForget DEF ReleaseRead
  <2> QED
    BY <2>1, <2>2
<1>2. CASE ReleaseDelete(w)
  BY <1>2, HeldForget DEF ReleaseDelete, Holder
<1>3. CASE DetachFails(w)
  BY <1>3, HeldForget DEF DetachFails
<1>4. CASE TouchRead(w)
  <2> DEFINE s == [st[w] EXCEPT !.pc = "touchPut", !.seen = manifest]
  <2>1. /\ s.pc = "touchPut" /\ s.seen = manifest /\ s.op = "none" /\ s.base = {}
        /\ s.doomed = {} /\ Exists(manifest)
    BY <1>0, <1>4, UnmountedHeld DEF TouchRead, SessionHeld, Sessions
  <2>2. st' = [st EXCEPT ![w] = s] /\ UNCHANGED <<lease, manifest, attempts, made>>
    BY <1>4 DEF TouchRead
  <2> HIDE DEF s
  <2>3. SessionHeld(w, s, lease, manifest, made, attempts)
    BY <1>m, <2>1 DEF SessionHeld, Holder, PendingPCs
  <2> QED
    BY <2>1, <2>2, <2>3, HeldLocal DEF PendingPCs
<1>5. CASE TouchPut(w)
  <2> DEFINE m == [manifest EXCEPT !.rev = attempts + 1]
  <2>1. /\ st[w].seen = manifest /\ st[w].pc = "touchPut" /\ attempts' = attempts + 1
        /\ manifest' = m /\ st' = [st EXCEPT ![w] = Unmounted] /\ UNCHANGED <<lease, made>>
    BY <1>0, <1>5 DEF TouchPut, SeenCurrent, Forget
  <2>2. /\ m.treeKey = manifest.treeKey /\ m.treeEncryption = manifest.treeEncryption
        /\ m.imageKey = manifest.imageKey /\ m.imageEncryption = manifest.imageEncryption
        /\ m.format = manifest.format /\ m.generation = manifest.generation
        /\ m.rev = attempts + 1
    BY <1>0 DEF Manifests
  <2>3. Exists(manifest) /\ manifest.rev \in Nat /\ manifest.rev <= attempts
        /\ manifest.treeEncryption \in Nat
    BY <1>0, <2>1, HeldTypes DEF SessionHeld, Attached, Manifests
  <2> HIDE DEF m
  <2>4. ManifestWhole(m) /\ Exists(m)
    BY <1>0, <1>m, <2>2, <2>3 DEF ManifestWhole, ByImage, Exists
  <2>5. /\ SessionHeld(w, Unmounted, lease, m, made, attempts') /\ Unmounted.seen = NoManifest
        /\ Unmounted.pc \notin PendingPCs
    BY UnmountedHeld DEF PendingPCs
  <2>6. attempts <= attempts' /\ attempts' \in Nat
    BY <1>0, <2>1
  <2> QED
    BY <2>1, <2>2, <2>4, <2>5, <2>6, HeldWrite
<1>6. CASE TouchRefused(w)
  BY <1>6, HeldForget DEF TouchRefused
<1>7. CASE Renew(w)
  BY <1>m, <1>7 DEF Renew, Extend
<1>8. CASE Crash(w)
  <2> DEFINE s == [Unmounted EXCEPT !.pc = "crashed"]
  <2>1. /\ s.pc = "crashed" /\ s.op = "none" /\ s.doomed = {} /\ s.seen = NoManifest
        /\ s.base = {}
    BY DEF Unmounted
  <2>2. st' = [st EXCEPT ![w] = s] /\ UNCHANGED <<lease, manifest, attempts, made>>
    BY <1>8 DEF Crash
  <2> HIDE DEF s
  <2>3. SessionHeld(w, s, lease, manifest, made, attempts)
    BY <2>1, UnmountedHeld DEF SessionHeld, Holder, Attached, PendingPCs
  <2> QED
    BY <2>1, <2>2, <2>3, HeldLocal DEF PendingPCs
<1> QED
  BY <1>1, <1>2, <1>3, <1>4, <1>5, <1>6, <1>7, <1>8 DEF Detach, Touch

LEMMA NextHeldInv ==
  ASSUME Undisturbed
  PROVE  HeldInv /\ [Next]_vars => HeldInv'
<1> SUFFICES ASSUME HeldInv, [Next]_vars
             PROVE  HeldInv'
  OBVIOUS
<1>0. RevInv'
  BY NextRevInv DEF HeldInv
<1>1. ASSUME NEW w \in Owners,
             Attach(w) \/ Write(w) \/ Detach(w) \/ Touch(w) \/ Renew(w) \/ Crash(w)
      PROVE  HeldInv'
  BY <1>0, <1>1, AttachHeldInv, WriteHeldInv, CommitHeldInv, OtherHeldInv
<1>2. CASE Expire
  BY <1>2 DEF Expire, Undisturbed
<1>3. CASE UNCHANGED vars
  BY <1>0, <1>3 DEF vars, HeldInv, Pending
<1> QED
  BY <1>1, <1>2, <1>3 DEF Next

-----------------------------------------------------------------------------
(* Every session works on top of the current data                          *)

(* No step changes what an attempt was made of. *)
LEMMA MadeKept ==
  ASSUME TypeInv, [Next]_vars, NEW b \in 0 .. attempts
  PROVE  made'[b] = made[b]
<1>0. /\ made \in [0 .. MaxAttempt -> SUBSET Attempts] /\ attempts \in 0 .. MaxAttempt
  BY DEF TypeInv, TypeOK
<1>1. ASSUME NEW w \in Owners, Pack(w)
      PROVE  made'[b] = made[b]
  BY <1>0, <1>1 DEF Pack
<1>2. ASSUME NEW w \in Owners, Attach(w) \/ Detach(w) \/ Touch(w) \/ Renew(w) \/ Crash(w)
      PROVE  made' = made
  BY <1>2 DEF Attach, AttachRead, AttachRefused, AttachLock, AttachForce, AttachFetch,
              AttachBroken, AttachAbort, Detach, ReleaseRead, ReleaseDelete, DetachFails,
              Touch, TouchRead, TouchPut, TouchRefused, Renew, Crash
<1>3. ASSUME NEW w \in Owners, Write(w), ~Pack(w)
      PROVE  made' = made
  BY <1>3 DEF Write, CreateStart, SaveStart, ReadManifest, PackFails, PutTree, PutImage,
              PutDataFails, Reassert, ReassertFails, Commit, CommitRefused, CommitFails, List,
              Delete
<1>4. CASE Expire \/ UNCHANGED vars
  BY <1>4 DEF Expire, vars
<1> QED
  BY <1>1, <1>2, <1>3, <1>4 DEF Next

LEMMA AtomicTypes ==
  ASSUME AtomicInv, NEW w \in Owners
  PROVE  /\ HeldInv /\ SessionHeld(w, st[w], lease, manifest, made, attempts)
         /\ SessionCurrent(st[w], manifest, made) /\ st[w] \in Sessions
         /\ lease.live <=> lease.owner # NoOwner
         /\ st[w].pc \in {"attachLock", "attachFetch"} => Foresees(st[w])
         /\ SourceKey(st[w].seen) \in Keys /\ manifest.treeEncryption \in 0 .. attempts
<1>1. /\ HeldInv /\ SessionHeld(w, st[w], lease, manifest, made, attempts)
      /\ st[w] \in Sessions /\ manifest \in Manifests
      /\ manifest.rev \in Nat /\ manifest.rev <= attempts /\ attempts \in Nat
  BY HeldTypes DEF AtomicInv
<1>2. SourceKey(st[w].seen) \in Keys
  BY <1>1 DEF Sessions, Manifests, SourceKey, TreeKey, ImageKey, Keys
<1>3. manifest.treeEncryption \in 0 .. attempts
  BY <1>1 DEF HeldInv, ManifestWhole, Manifests
<1> QED
  BY <1>1, <1>2, <1>3 DEF AtomicInv, HeldInv

(***************************************************************************)
(* A step of w that keeps the current data, and the promise that data      *)
(* which is not current will not be there.                                 *)
(***************************************************************************)
LEMMA AtomicStep ==
  ASSUME AtomicInv, HeldInv', NEW w \in Owners, NEW s, st' = [st EXCEPT ![w] = s],
         SameData(manifest', manifest),
         made'[manifest.treeEncryption] = made[manifest.treeEncryption],
         SessionCurrent(s, manifest, made'),
         s.pc \in {"attachLock", "attachFetch"} =>
           \/ SameData(s.seen, manifest)
           \/ objects'[SourceKey(s.seen)] # s.seen.treeEncryption,
         \A k \in Keys : \/ objects'[k] \in {objects[k], 0}
                         \/ Pending(w) /\ objects'[k] = st[w].attempt,
         lease' = lease \/ \A k : ~Condemned(k),
         st[w].pc # "crashed",
         \A k \in st[w].doomed : k \in s.doomed \/ s.pc = "crashed" \/ objects'[k] = 0
  PROVE  AtomicInv'
<1>1. st'[w] = s /\ \A v \in Owners : v # w => st'[v] = st[v]
  BY HeldTypes DEF AtomicInv
<1>2. \A r, e : SessionCurrent(r, manifest', e) <=> SessionCurrent(r, manifest, e)
  <2>1. ByImage(manifest') <=> ByImage(manifest)
    BY DEF ByImage, SameData
  <2>2. manifest'.treeEncryption = manifest.treeEncryption
    BY DEF SameData
  <2> QED
    BY <1>1, <2>1, <2>2 DEF SessionCurrent
<1>3. ASSUME NEW v \in Owners
      PROVE  SessionCurrent(st'[v], manifest', made')
  <2>1. SessionCurrent(st[v], manifest, made)
    BY DEF AtomicInv
  <2>2. SessionCurrent(st[v], manifest, made')
    BY <2>1 DEF SessionCurrent
  <2> QED
    BY <1>1, <1>2, <2>2
<1>4. ASSUME NEW v \in Owners, v # w, st[v].pc \in {"attachLock", "attachFetch"}
      PROVE  Foresees(st[v])'
  <2> DEFINE K == SourceKey(st[v].seen)
             e == st[v].seen.treeEncryption
  <2>0. /\ st'[v] = st[v] /\ K \in Keys /\ Foresees(st[v]) /\ SourceKey(st[v].seen)' = K
        /\ \A u \in Owners : Pending(u) => e # st[u].attempt
    <3>1. K \in Keys /\ Foresees(st[v]) /\ HeldInv
      BY <1>4, AtomicTypes
    <3>2. st'[v] = st[v]
      BY <1>1, <1>4
    <3>3. SourceKey(st[v].seen)' = K
      BY <3>2 DEF SourceKey, ByImage, Loops, Does, TreeKey, ImageKey
    <3> QED
      BY <3>1, <3>2, <3>3 DEF HeldInv
  <2>1. e # 0
    <3>1. SessionHeld(v, st[v], lease, manifest, made, attempts)
      BY AtomicTypes
    <3> QED
      BY <1>4, <3>1 DEF SessionHeld, ManifestWhole
  <2>2. CASE SameData(st[v].seen, manifest)
    <3>1. SameData(st[v].seen, manifest')
      BY <2>2 DEF SameData
    <3> QED
      BY <2>0, <3>1 DEF Foresees, SameData
  <2>3. ASSUME objects[K] # e
        PROVE  objects'[K] # e
    BY <2>0, <2>1, <2>3
  <2>4. ASSUME objects'[K] # e
        PROVE  Foresees(st[v])'
    BY <2>0, <2>4 DEF Foresees
  <2>5. CASE st[v].pc = "attachLock" /\ Condemned(K)
    <3>1. PICK u \in Owners : lease.owner = u /\ (st[u].pc = "crashed" \/ K \in st[u].doomed)
      BY <2>5 DEF Condemned
    <3>2. lease' = lease
      BY <2>5
    <3>3. \/ u # w /\ st'[u] = st[u]
          \/ u = w /\ (K \in st'[w].doomed \/ st'[w].pc = "crashed" \/ objects'[K] = 0)
      BY <1>1, <3>1, <2>0
    <3>4. CASE objects'[K] = 0
      BY <2>1, <2>4, <3>4
    <3>5. CASE objects'[K] # 0
      <4>1. st'[u].pc = "crashed" \/ K \in st'[u].doomed
        BY <3>1, <3>3, <3>5
      <4>2. \E x \in Owners : lease'.owner = x /\ (st'[x].pc = "crashed" \/ K \in st'[x].doomed)
        BY <3>1, <3>2, <4>1
      <4>3. Condemned(SourceKey(st[v].seen))'
        BY <4>2, <2>0 DEF Condemned
      <4> QED
        BY <4>3, <2>5, <2>0 DEF Foresees
    <3> QED
      BY <3>4, <3>5
  <2> QED
    BY <2>0, <2>2, <2>3, <2>4, <2>5 DEF Foresees
<1>5. ASSUME st'[w].pc \in {"attachLock", "attachFetch"}
      PROVE  Foresees(st[w])'
  <2>1. SourceKey(st[w].seen)' = SourceKey(s.seen)
    BY <1>1 DEF SourceKey, ByImage, Loops, Does, TreeKey, ImageKey
  <2>2. \/ SameData(s.seen, manifest')
        \/ objects'[SourceKey(s.seen)] # s.seen.treeEncryption
    BY <1>1, <1>5 DEF SameData
  <2> QED
    BY <1>1, <2>1, <2>2 DEF Foresees, SameData
<1>6. (\A v \in Owners : SessionCurrent(st[v], manifest, made))'
  BY <1>3
<1>7. (\A v \in Owners : st[v].pc \in {"attachLock", "attachFetch"} => Foresees(st[v]))'
  BY <1>1, <1>4, <1>5
<1> QED
  BY <1>6, <1>7 DEF AtomicInv

(* A step of w alone, at a time when it has nothing to delete. *)
LEMMA AtomicLocal ==
  ASSUME AtomicInv, HeldInv', NEW w \in Owners, NEW s, st' = [st EXCEPT ![w] = s],
         lease' = lease \/ (Drop /\ Holder(st[w])) \/ Grant(w, TRUE),
         manifest' = manifest,
         made'[manifest.treeEncryption] = made[manifest.treeEncryption],
         SessionCurrent(s, manifest, made'),
         s.pc \in {"attachLock", "attachFetch"} =>
           \/ SameData(s.seen, manifest)
           \/ objects'[SourceKey(s.seen)] # s.seen.treeEncryption,
         \A k \in Keys : \/ objects'[k] = objects[k]
                         \/ Pending(w) /\ objects'[k] = st[w].attempt,
         st[w].pc \notin {"crashed", "cleanup"}
  PROVE  AtomicInv'
<1>1. /\ SessionHeld(w, st[w], lease, manifest, made, attempts)
      /\ lease.live <=> lease.owner # NoOwner
  BY AtomicTypes
<1>2. st[w].doomed = {}
  BY <1>1 DEF SessionHeld
<1>3. ASSUME lease' # lease, NEW k
      PROVE  ~Condemned(k)
  <2>1. lease.owner = w \/ ~lease.live
    BY <1>1, <1>3 DEF SessionHeld, Grant, Blocks
  <2>2. lease.owner \in {w, NoOwner}
    BY <1>1, <2>1
  <2> QED
    BY <1>2, <2>2 DEF Condemned
<1>4. \A k \in Keys : \/ objects'[k] \in {objects[k], 0}
                      \/ Pending(w) /\ objects'[k] = st[w].attempt
  OBVIOUS
<1>5. SameData(manifest', manifest)
  BY DEF SameData
<1>6. lease' = lease \/ \A k : ~Condemned(k)
  BY <1>3
<1>7. \A k \in st[w].doomed : k \in s.doomed \/ s.pc = "crashed" \/ objects'[k] = 0
  BY <1>2
<1>8. st[w].pc # "crashed"
  OBVIOUS
<1> QED
  BY <1>4, <1>5, <1>6, <1>7, <1>8, AtomicStep

LEMMA UnmountedCurrent ==
  \A m, e : /\ SessionCurrent(Unmounted, m, e)
            /\ Unmounted.pc \notin {"attachLock", "attachFetch"}
<1>1. Unmounted.pc = "idle" /\ Unmounted.op = "none"
  BY DEF Unmounted
<1> QED
  BY <1>1 DEF SessionCurrent, Mounts

LEMMA AtomicForget ==
  ASSUME AtomicInv, HeldInv', NEW w \in Owners, Forget(w),
         lease' = lease \/ (Drop /\ Holder(st[w])),
         UNCHANGED <<objects, manifest, made>>,
         st[w].pc \notin {"crashed", "cleanup"}
  PROVE  AtomicInv'
<1> DEFINE s == Unmounted
<1>1. st' = [st EXCEPT ![w] = s]
  BY DEF Forget
<1>2. SessionCurrent(s, manifest, made') /\ s.pc \notin {"attachLock", "attachFetch"}
  BY UnmountedCurrent
<1>3. manifest' = manifest /\ made' = made /\ objects' = objects
  OBVIOUS
<1> HIDE DEF s
<1> QED
  BY <1>1, <1>2, <1>3, AtomicLocal

(* What an attach fetches. *)
LEMMA SourceWhole ==
  ASSUME Undisturbed, NEW w \in Owners, ManifestWhole(st[w].seen)
  PROVE  /\ Source(w).key = SourceKey(st[w].seen)
         /\ Source(w).encryption = st[w].seen.treeEncryption
         /\ LoopMounts(w) <=> ByImage(st[w].seen)
<1>1. LoopMounts(w) <=> ByImage(st[w].seen)
  BY DEF LoopMounts, ByImage, Loops, Undisturbed
<1> QED
  BY <1>1 DEF Source, SourceKey, ManifestWhole

LEMMA AttachAtomicInv ==
  ASSUME AtomicInv, HeldInv', Undisturbed, NEW w \in Owners, Attach(w)
  PROVE  AtomicInv'
<1>0. /\ st[w] \in Sessions /\ SessionHeld(w, st[w], lease, manifest, made, attempts)
      /\ SessionCurrent(st[w], manifest, made)
      /\ st[w].pc \in {"attachLock", "attachFetch"} => Foresees(st[w])
  BY AtomicTypes
<1>m. /\ made' = made /\ manifest' = manifest /\ objects' = objects
      /\ st[w].pc \notin {"crashed", "cleanup"}
  BY DEF Attach, AttachRead, AttachRefused, AttachLock, AttachForce, AttachFetch,
         AttachBroken, AttachAbort
<1>1. CASE AttachRead(w)
  <2> DEFINE s == [st[w] EXCEPT !.pc = "attachLock", !.seen = manifest]
  <2>1. st' = [st EXCEPT ![w] = s] /\ lease' = lease
    BY <1>1 DEF AttachRead
  <2>2. st[w] = Unmounted
    BY <1>0, <1>1 DEF AttachRead, SessionHeld
  <2>3. s.pc = "attachLock" /\ s.op = "none" /\ s.seen = manifest
    BY <2>2, <1>0 DEF Unmounted, Sessions
  <2> HIDE DEF s
  <2>4. SessionCurrent(s, manifest, made')
    BY <2>3 DEF SessionCurrent, Mounts
  <2>5. SameData(s.seen, manifest)
    BY <2>3 DEF SameData
  <2> QED
    BY <1>m, <2>1, <2>4, <2>5, AtomicLocal
<1>2. CASE AttachRefused(w)
  <2>1. Forget(w) /\ lease' = lease
    BY <1>2 DEF AttachRefused
  <2> QED
    BY <1>m, <2>1, AtomicForget
<1>3. CASE AttachLock(w)
  <2> DEFINE s == [st[w] EXCEPT !.pc = "attachFetch",
                                !.adopted = (lease = [owner |-> w, live |-> TRUE])]
  <2>1. st' = [st EXCEPT ![w] = s] /\ Grant(w, TRUE) /\ st[w].pc = "attachLock"
    BY <1>3 DEF AttachLock
  <2>2. s.pc = "attachFetch" /\ s.op = st[w].op /\ s.seen = st[w].seen /\ s.base = st[w].base
        /\ s.loop = st[w].loop
    BY <1>0 DEF Sessions
  <2>4. Foresees(st[w])
    BY <1>0, <2>1
  <2>5. \A k : ~Condemned(k)
    <3>1. lease.owner \in {w, NoOwner}
      BY <2>1, AtomicTypes DEF Grant, Blocks
    <3>2. st[w].pc # "crashed" /\ st[w].doomed = {}
      BY <1>0, <2>1 DEF SessionHeld
    <3> QED
      BY <3>1, <3>2 DEF Condemned
  <2>6. \/ SameData(s.seen, manifest)
        \/ objects'[SourceKey(s.seen)] # s.seen.treeEncryption
    BY <1>m, <2>2, <2>4, <2>5 DEF Foresees
  <2> HIDE DEF s
  <2>7. SessionCurrent(s, manifest, made')
    BY <1>0, <1>m, <2>2 DEF SessionCurrent, Mounts, PendingPCs
  <2> QED
    BY <1>m, <2>1, <2>6, <2>7, AtomicLocal
<1>4. CASE AttachForce(w)
  BY <1>4, OperationsUsed DEF AttachForce
<1>5. CASE AttachFetch(w)
  <2> DEFINE s == [Unmounted EXCEPT !.pc = "mounted", !.loop = LoopMounts(w),
                                    !.base = made[Source(w).encryption]]
  <2>1. /\ st' = [st EXCEPT ![w] = s] /\ lease' = lease /\ st[w].pc = "attachFetch"
        /\ objects[Source(w).key] = Source(w).encryption
    BY <1>5 DEF AttachFetch
  <2>2. /\ Source(w).key = SourceKey(st[w].seen)
        /\ Source(w).encryption = st[w].seen.treeEncryption
        /\ LoopMounts(w) <=> ByImage(st[w].seen)
    BY <1>0, SourceWhole DEF SessionHeld
  <2>3. SameData(st[w].seen, manifest)
    BY <1>0, <2>1, <2>2 DEF Foresees
  <2>4. s.pc = "mounted" /\ s.op = "none" /\ s.base = made[manifest.treeEncryption]
        /\ (s.loop <=> ByImage(manifest))
    BY <2>2, <2>3 DEF Unmounted, SameData, ByImage
  <2> HIDE DEF s
  <2>5. SessionCurrent(s, manifest, made')
    BY <1>m, <2>4 DEF SessionCurrent
  <2> QED
    BY <1>m, <2>1, <2>4, <2>5, AtomicLocal
<1>6. CASE AttachBroken(w)
  <2> DEFINE s == [st[w] EXCEPT !.pc = "attachFail"]
  <2>1. st' = [st EXCEPT ![w] = s] /\ lease' = lease /\ st[w].pc = "attachFetch"
    BY <1>6 DEF AttachBroken, Goto
  <2>2. s.pc = "attachFail" /\ s.op = st[w].op /\ s.seen = st[w].seen /\ s.base = st[w].base
        /\ s.loop = st[w].loop
    BY <1>0 DEF Sessions
  <2> HIDE DEF s
  <2>4. SessionCurrent(s, manifest, made')
    BY <1>0, <1>m, <2>2 DEF SessionCurrent, Mounts, PendingPCs
  <2> QED
    BY <1>m, <2>1, <2>2, <2>4, AtomicLocal
<1>7. CASE AttachAbort(w)
  <2>1. Forget(w) /\ (lease' = lease \/ Drop) /\ Holder(st[w])
    BY <1>7 DEF AttachAbort, Holder
  <2> QED
    BY <1>m, <2>1, AtomicForget
<1> QED
  BY <1>1, <1>2, <1>3, <1>4, <1>5, <1>6, <1>7 DEF Attach

(* A session that stops to delete keys, or rests, still has what it had. *)
LEMMA DeletingCurrent ==
  ASSUME AtomicInv, Undisturbed, NEW w \in Owners, NEW keys,
         st[w].pc \in WritingPCs \cup {"cleanup"}
  PROVE  /\ SessionCurrent(Deleting(w, keys), manifest, made)
         /\ Deleting(w, keys).pc \notin {"attachLock", "attachFetch"}
         /\ keys # {} => Deleting(w, keys).doomed = keys
<1> DEFINE s == Deleting(w, keys)
<1>1. HeldInv /\ (Attached(st[w]) => Exists(manifest)) /\ SessionCurrent(st[w], manifest, made)
  BY AtomicTypes DEF SessionHeld
<1>2. /\ s.pc \in {"idle", "mounted", "cleanup"}
      /\ keys # {} => s.doomed = keys
      /\ Mounts(s) => Mounts(st[w]) /\ s.base = st[w].base /\ s.loop = st[w].loop
  BY <1>1, DeletingHeld
<1> HIDE DEF s
<1>3. SessionCurrent(s, manifest, made)
  BY <1>1, <1>2 DEF SessionCurrent, PendingPCs
<1> QED
  BY <1>2, <1>3 DEF s

LEMMA WriteAtomicInv ==
  ASSUME AtomicInv, HeldInv', Undisturbed, NEW w \in Owners, Write(w), ~Commit(w)
  PROVE  AtomicInv'
<1>0. /\ st[w] \in Sessions /\ SessionHeld(w, st[w], lease, manifest, made, attempts)
      /\ SessionCurrent(st[w], manifest, made) /\ TypeInv
      /\ attempts \in 0 .. MaxAttempt
      /\ made \in [0 .. MaxAttempt -> SUBSET Attempts]
      /\ objects \in [Keys -> 0 .. MaxAttempt]
      /\ HeldInv /\ manifest.treeEncryption \in 0 .. attempts
  BY AtomicTypes, HeldTypes DEF TypeInv, TypeOK
<1>a. ASSUME NEW s, st' = [st EXCEPT ![w] = s], UNCHANGED <<lease, objects, manifest, made>>,
             SessionCurrent(s, manifest, made), s.pc \notin {"attachLock", "attachFetch"},
             st[w].pc \notin {"crashed", "cleanup"}
      PROVE  AtomicInv'
  <2>1. lease' = lease /\ objects' = objects /\ manifest' = manifest /\ made' = made
    BY <1>a
  <2> QED
    BY <1>a, <2>1, AtomicLocal
<1>1. ASSUME NEW op \in {"create", "recreate"}, CreateStart(w, op)
      PROVE  AtomicInv'
  <2> DEFINE s == [st[w] EXCEPT !.pc = "pack", !.op = op, !.seen = manifest]
  <2>1. s.pc = "pack" /\ s.op = "create"
    BY <1>0, <1>1, OperationsUsed DEF CreateStart, Sessions
  <2>2. st' = [st EXCEPT ![w] = s] /\ UNCHANGED <<lease, objects, manifest, made>>
        /\ st[w].pc = "idle"
    BY <1>1 DEF CreateStart
  <2> HIDE DEF s
  <2>3. SessionCurrent(s, manifest, made)
    BY <2>1 DEF SessionCurrent, Mounts
  <2> QED
    BY <1>a, <2>1, <2>2, <2>3
<1>2. ASSUME NEW op \in {"save", "checkpoint"}, SaveStart(w, op)
      PROVE  AtomicInv'
  <2> DEFINE s == [st[w] EXCEPT !.pc = "readManifest", !.op = op]
  <2>1. /\ s.pc = "readManifest" /\ s.base = st[w].base /\ s.loop = st[w].loop
    BY <1>0 DEF Sessions
  <2>2. /\ st' = [st EXCEPT ![w] = s] /\ UNCHANGED <<lease, objects, manifest, made>>
        /\ st[w].pc = "mounted"
    BY <1>2 DEF SaveStart
  <2> HIDE DEF s
  <2>3. SessionCurrent(s, manifest, made)
    BY <1>0, <2>1, <2>2 DEF SessionCurrent, Mounts, PendingPCs
  <2> QED
    BY <1>a, <2>1, <2>2, <2>3
<1>3. CASE ReadManifest(w)
  <2> DEFINE s == [st[w] EXCEPT !.pc = "pack", !.seen = manifest]
  <2>1. /\ s.pc = "pack" /\ s.seen = manifest /\ s.op = st[w].op
        /\ s.base = st[w].base /\ s.loop = st[w].loop
    BY <1>0 DEF Sessions
  <2>2. /\ st' = [st EXCEPT ![w] = s] /\ UNCHANGED <<lease, objects, manifest, made>>
        /\ st[w].pc = "readManifest"
    BY <1>3 DEF ReadManifest
  <2> HIDE DEF s
  <2>3. SessionCurrent(s, manifest, made)
    BY <1>0, <2>1 DEF SessionCurrent, Mounts, PendingPCs
  <2> QED
    BY <1>a, <2>1, <2>2, <2>3
<1>4. CASE Pack(w)
  <2> DEFINE a == attempts + 1
             edits == st[w].base \cup {a}
             s == [st[w] EXCEPT !.pc = "putTree", !.attempt = a,
                                !.image = PersistsImage(w), !.base = edits]
  <2>1. /\ s.pc = "putTree" /\ s.seen = st[w].seen /\ s.op = st[w].op
        /\ s.base = edits /\ s.loop = st[w].loop /\ s.image = PersistsImage(w)
        /\ st[w].base \subseteq s.base
    BY <1>0 DEF Sessions
  <2>2. /\ st' = [st EXCEPT ![w] = s] /\ lease' = lease /\ objects' = objects
        /\ manifest' = manifest /\ st[w].pc = "pack" /\ made' = [made EXCEPT ![a] = edits]
    BY <1>4 DEF Pack
  <2> HIDE DEF s
  <2>3. made'[manifest.treeEncryption] = made[manifest.treeEncryption]
    BY <1>0, <2>2
  <2>4. st[w].op = "save" /\ ByImage(st[w].seen) => st[w].loop /\ PersistsImage(w)
    BY <1>0, <2>2 DEF SessionCurrent, PersistsImage, ByImage
  <2>5. SessionCurrent(s, manifest, made')
    BY <1>0, <2>1, <2>2, <2>3, <2>4 DEF SessionCurrent, Mounts
  <2> QED
    BY <2>1, <2>2, <2>3, <2>5, AtomicLocal
<1>5. CASE PackFails(w)
  <2>1. /\ st' = [st EXCEPT ![w] = Deleting(w, {})] /\ st[w].pc = "pack"
        /\ UNCHANGED <<lease, objects, manifest, made>>
    BY <1>5 DEF PackFails, Deleting
  <2>2. /\ SessionCurrent(Deleting(w, {}), manifest, made)
        /\ Deleting(w, {}).pc \notin {"attachLock", "attachFetch"}
    BY <2>1, DeletingCurrent DEF WritingPCs
  <2> QED
    BY <1>a, <2>1, <2>2
<1>6. ASSUME NEW s, st' = [st EXCEPT ![w] = s], Pending(w),
             s.pc \in PendingPCs, s.seen = st[w].seen, s.op = st[w].op,
             s.base = st[w].base, s.loop = st[w].loop, s.image = st[w].image,
             lease' = lease, manifest' = manifest, made' = made,
             \A k \in Keys : objects'[k] \in {objects[k], st[w].attempt}
      PROVE  AtomicInv'
  <2>1. SessionCurrent(s, manifest, made')
    BY <1>0, <1>6 DEF SessionCurrent, Mounts, PendingPCs, Pending
  <2> QED
    BY <1>6, <2>1, AtomicLocal DEF Pending, PendingPCs
<1>7. CASE PutTree(w)
  <2> DEFINE s == [st[w] EXCEPT !.pc = IF st[w].image THEN "putImage" ELSE BeforeCommit(w),
                                !.written = {TargetKey(w)}]
  <2>1. /\ s.pc \in PendingPCs /\ s.seen = st[w].seen /\ s.op = st[w].op
        /\ s.base = st[w].base /\ s.loop = st[w].loop /\ s.image = st[w].image
    BY <1>0 DEF Sessions, BeforeCommit, PendingPCs
  <2>2. /\ st' = [st EXCEPT ![w] = s] /\ Pending(w) /\ Put(w, TargetKey(w))
        /\ lease' = lease /\ manifest' = manifest /\ made' = made
    BY <1>7 DEF PutTree, Pending, PendingPCs
  <2>3. \A k \in Keys : objects'[k] \in {objects[k], st[w].attempt}
    BY <1>0, <2>2 DEF Put
  <2> HIDE DEF s
  <2> QED
    BY <1>6, <2>1, <2>2, <2>3
<1>8. CASE PutImage(w)
  <2> DEFINE s == [st[w] EXCEPT !.pc = BeforeCommit(w),
                                !.written = st[w].written \cup {ImageKey(st[w].attempt)}]
  <2>1. /\ s.pc \in PendingPCs /\ s.seen = st[w].seen /\ s.op = st[w].op
        /\ s.base = st[w].base /\ s.loop = st[w].loop /\ s.image = st[w].image
    BY <1>0 DEF Sessions, BeforeCommit, PendingPCs
  <2>2. /\ st' = [st EXCEPT ![w] = s] /\ Pending(w) /\ Put(w, ImageKey(st[w].attempt))
        /\ lease' = lease /\ manifest' = manifest /\ made' = made
    BY <1>8 DEF PutImage, Pending, PendingPCs
  <2>3. \A k \in Keys : objects'[k] \in {objects[k], st[w].attempt}
    BY <1>0, <2>2 DEF Put
  <2> HIDE DEF s
  <2> QED
    BY <1>6, <2>1, <2>2, <2>3
<1>9. CASE Reassert(w)
  <2> DEFINE s == [st[w] EXCEPT !.pc = "commit"]
  <2>1. /\ s.pc \in PendingPCs /\ s.seen = st[w].seen /\ s.op = st[w].op
        /\ s.base = st[w].base /\ s.loop = st[w].loop /\ s.image = st[w].image
    BY <1>0 DEF Sessions, PendingPCs
  <2>2. /\ st' = [st EXCEPT ![w] = s] /\ Pending(w) /\ objects' = objects
        /\ lease' = lease /\ manifest' = manifest /\ made' = made
    BY <1>9 DEF Reassert, Goto, Pending, PendingPCs
  <2> HIDE DEF s
  <2> QED
    BY <1>6, <2>1, <2>2
<1>10. CASE PutDataFails(w) \/ ReassertFails(w) \/ CommitRefused(w) \/ CommitFails(w)
  <2> DEFINE s == Deleting(w, RolledBack(w))
  <2>1. /\ st' = [st EXCEPT ![w] = s] /\ st[w].pc \in WritingPCs
        /\ UNCHANGED <<lease, objects, manifest, made>>
    BY <1>10 DEF PutDataFails, ReassertFails, CommitRefused, CommitFails, Abort, WritingPCs,
                 PendingPCs, Undisturbed
  <2>2. SessionCurrent(s, manifest, made) /\ s.pc \notin {"attachLock", "attachFetch"}
    BY <2>1, DeletingCurrent
  <2>3. st[w].pc \notin {"crashed", "cleanup"}
    BY <2>1 DEF WritingPCs, PendingPCs
  <2> HIDE DEF s
  <2> QED
    BY <1>a, <2>1, <2>2, <2>3
<1>11. CASE List(w)
  BY <1>0, <1>11 DEF List, SessionHeld
<1>12. CASE Delete(w)
  <2>1. PICK k \in st[w].doomed : st' = [st EXCEPT ![w] = Deleting(w, st[w].doomed \ {k})]
                                  /\ objects' = [objects EXCEPT ![k] = 0]
    BY <1>12 DEF Delete, Undisturbed
  <2> DEFINE keys == st[w].doomed \ {k}
             s == Deleting(w, keys)
  <2>2. /\ st[w].pc = "cleanup" /\ lease' = lease /\ manifest' = manifest /\ made' = made
        /\ st' = [st EXCEPT ![w] = s]
    BY <1>12, <2>1 DEF Delete
  <2>3. /\ SessionCurrent(s, manifest, made') /\ s.pc \notin {"attachLock", "attachFetch"}
        /\ keys # {} => s.doomed = keys
    BY <2>2, DeletingCurrent
  <2>4. k \in Keys
    BY <1>0 DEF Sessions
  <2>5. \A j \in st[w].doomed : j \in s.doomed \/ s.pc = "crashed" \/ objects'[j] = 0
    BY <1>0, <2>1, <2>3, <2>4
  <2>6. \A j \in Keys : objects'[j] \in {objects[j], 0}
    BY <1>0, <2>1
  <2>7. SameData(manifest', manifest)
    BY <2>2 DEF SameData
  <2> HIDE DEF s
  <2> QED
    BY <2>2, <2>3, <2>5, <2>6, <2>7, AtomicStep
<1> QED
  BY <1>1, <1>2, <1>3, <1>4, <1>5, <1>7, <1>8, <1>9, <1>10, <1>11, <1>12 DEF Write

(* Which data a save of w deletes: all that an attach could have been about
   to fetch, because it replaces an image by an image. *)
LEMMA SupersededSource ==
  ASSUME AtomicInv, Undisturbed, NEW w \in Owners, st[w].pc = "commit", CommitCondition(w),
         st[w].op = "save"
  PROVE  SourceKey(manifest) \in Superseded(w)
<1> DEFINE u == Updated(w)
           K == SourceKey(manifest)
<1>1. /\ st[w].seen = manifest /\ Exists(manifest) /\ ManifestWhole(u)
      /\ u.treeKey = TreeKey(st[w].attempt)
      /\ st[w].image => u.imageKey = ImageKey(st[w].attempt)
  <2>1. HeldInv /\ st[w] \in Sessions
    BY AtomicTypes
  <2>2. /\ st[w].seen = manifest /\ ManifestWhole(u) /\ u.treeKey = TreeKey(st[w].attempt)
        /\ Exists(manifest)
    BY <2>1, CommitWhole, OperationsUsed DEF NoManifest, Exists
  <2>3. st[w].image => u.imageKey = ImageKey(st[w].attempt)
    BY <2>1 DEF Updated, Saved, Sessions, Manifests
  <2> QED
    BY <2>2, <2>3
<1>2. /\ ManifestWhole(manifest) /\ manifest.treeEncryption # st[w].attempt
      /\ SessionCurrent(st[w], manifest, made)
  BY AtomicTypes DEF HeldInv, Pending, PendingPCs
<1>3. /\ u.imageKey[1] = "image" /\ manifest.imageKey[1] = "image"
      /\ manifest.treeKey = TreeKey(manifest.treeEncryption)
  BY <1>1, <1>2 DEF ManifestWhole
<1> HIDE DEF u
<1>4. CASE ByImage(manifest)
  <2>1. st[w].image
    BY <1>1, <1>2, <1>4 DEF SessionCurrent, PendingPCs
  <2>2. K = ImageKey(manifest.treeEncryption) /\ K = manifest.imageKey
    BY <1>2, <1>4 DEF SourceKey, ManifestWhole
  <2>3. K # u.treeKey /\ K # u.imageKey /\ IsReplaceable(K)
    BY <1>1, <1>2, <2>1, <2>2 DEF ImageKey, TreeKey, IsReplaceable
  <2> QED
    BY <1>1, <2>2, <2>3 DEF Superseded, u
<1>5. CASE ~ByImage(manifest)
  <2>2. K = manifest.treeKey /\ K = TreeKey(manifest.treeEncryption)
    BY <1>3, <1>5 DEF SourceKey
  <2>3. K # u.treeKey /\ K # u.imageKey /\ IsReplaceable(K)
    BY <1>1, <1>2, <1>3, <2>2 DEF TreeKey, IsReplaceable
  <2> QED
    BY <1>1, <2>2, <2>3 DEF Superseded, u
<1> QED
  BY <1>4, <1>5

LEMMA CommitAtomicInv ==
  ASSUME AtomicInv, HeldInv', Undisturbed, NEW w \in Owners, Commit(w)
  PROVE  AtomicInv'
<1> DEFINE s == Deleting(w, Superseded(w))
<1>0. /\ st[w].pc = "commit" /\ CommitCondition(w) /\ manifest' = Updated(w)
      /\ lease' = lease /\ objects' = objects /\ made' = made
      /\ st[w].pc \in WritingPCs /\ Pending(w)
  BY DEF Commit, Pending, PendingPCs, WritingPCs
<1>1. /\ ~Prunes(w) /\ st[w].seen = manifest
      /\ \/ st[w].op = "create" /\ manifest = NoManifest
         \/ st[w].op = "save" /\ Exists(manifest)
      /\ manifest'.treeEncryption = st[w].attempt
      /\ st[w].op = "save" /\ ByImage(manifest') => ByImage(manifest)
  BY <1>0, AtomicTypes, CommitWhole
<1>2. /\ st' = [st EXCEPT ![w] = s] /\ st'[w] = s
      /\ \A v \in Owners : v # w => st'[v] = st[v]
  BY <1>0, <1>1, HeldTypes DEF Commit, AtomicInv
<1>3. /\ SessionHeld(w, st[w], lease, manifest, made, attempts)
      /\ SessionCurrent(st[w], manifest, made) /\ HeldInv
  BY AtomicTypes
<1>4. /\ s.pc \in {"idle", "mounted", "cleanup"}
      /\ Superseded(w) # {} => s.doomed = Superseded(w)
      /\ Mounts(s) => Mounts(st[w]) /\ s.base = st[w].base /\ s.loop = st[w].loop
  BY <1>0, <1>3, DeletingHeld DEF SessionHeld
<1> HIDE DEF s
<1>5. SessionCurrent(s, manifest', made')
  <2>1. ASSUME Mounts(s)
        PROVE  /\ made'[manifest'.treeEncryption] \subseteq s.base
               /\ ByImage(manifest') => s.loop
    <3>1. st[w].op = "save" /\ Mounts(st[w]) /\ s.base = st[w].base /\ s.loop = st[w].loop
      BY <1>0, <1>4, <2>1 DEF Mounts
    <3>2. made[st[w].attempt] = st[w].base
      BY <1>0, <1>3 DEF SessionHeld, Pending
    <3>3. ByImage(manifest) => st[w].loop
      BY <1>3, <3>1 DEF SessionCurrent
    <3> QED
      BY <1>0, <1>1, <3>1, <3>2, <3>3
  <2> QED
    BY <1>4, <2>1 DEF SessionCurrent, PendingPCs
<1>6. ASSUME NEW v \in Owners, v # w, Attached(st[v])
      PROVE  st[w].op = "save" /\ lease.owner = w /\ ~Holder(st[v])
  <2>1. SessionHeld(v, st[v], lease, manifest, made, attempts)
    BY AtomicTypes
  <2>2. manifest # NoManifest
    BY <1>6, <2>1 DEF SessionHeld, Exists, NoManifest
  <2>3. st[w].op = "save" /\ lease.owner = w
    BY <1>1, <1>3, <2>2 DEF SessionHeld, Holder
  <2> QED
    BY <1>6, <2>1, <2>3 DEF SessionHeld
<1>7. ASSUME NEW v \in Owners, v # w
      PROVE  SessionCurrent(st'[v], manifest', made')
  <2>1. ~Mounts(st[v]) /\ st[v].op # "save"
    BY <1>6, <1>7 DEF Mounts, Attached, Holder
  <2> QED
    BY <1>2, <1>7, <2>1 DEF SessionCurrent
<1>8. ASSUME NEW v \in Owners, v # w, st[v].pc \in {"attachLock", "attachFetch"}
      PROVE  Foresees(st[v])'
  <2> DEFINE K == SourceKey(st[v].seen)
  <2>1. st[w].op = "save" /\ lease.owner = w /\ st[v].pc = "attachLock"
    BY <1>6, <1>8 DEF Attached, Holder
  <2>2. ~Condemned(K)
    BY <1>0, <1>3, <2>1 DEF Condemned, SessionHeld
  <2>3. SourceKey(st[v].seen)' = K /\ st'[v] = st[v]
    BY <1>2, <1>8 DEF SourceKey, ByImage, Loops, Does, TreeKey, ImageKey
  <2>4. CASE SameData(st[v].seen, manifest)
    <3>1. K = SourceKey(manifest)
      BY <2>4 DEF SourceKey, ByImage, SameData
    <3>2. K \in Superseded(w)
      BY <1>0, <2>1, <3>1, SupersededSource
    <3>3. K \in s.doomed
      BY <1>4, <3>2
    <3>4. Condemned(SourceKey(st[v].seen))'
      BY <1>0, <1>2, <2>1, <2>3, <3>3 DEF Condemned
    <3> QED
      BY <2>1, <2>3, <3>4 DEF Foresees
  <2>5. CASE objects[K] # st[v].seen.treeEncryption
    BY <1>0, <2>3, <2>5 DEF Foresees
  <2>6. Foresees(st[v])
    BY <1>8, AtomicTypes
  <2> QED
    BY <2>2, <2>4, <2>5, <2>6 DEF Foresees
<1>9. (\A v \in Owners : SessionCurrent(st[v], manifest, made))'
  BY <1>2, <1>5, <1>7
<1>10. (\A v \in Owners : st[v].pc \in {"attachLock", "attachFetch"} => Foresees(st[v]))'
  BY <1>2, <1>4, <1>8
<1> QED
  BY <1>9, <1>10 DEF AtomicInv

LEMMA OtherAtomicInv ==
  ASSUME AtomicInv, HeldInv', Undisturbed, NEW w \in Owners,
         Detach(w) \/ Touch(w) \/ Renew(w) \/ Crash(w)
  PROVE  AtomicInv'
<1>0. /\ st[w] \in Sessions /\ SessionHeld(w, st[w], lease, manifest, made, attempts)
      /\ SeenCurrent /\ manifest \in Manifests
      /\ lease.live <=> lease.owner # NoOwner
  BY AtomicTypes, HeldTypes
<1>1. CASE ReleaseRead(w)
  <2>0. /\ st[w].pc = "mounted" /\ lease' = lease /\ UNCHANGED <<objects, manifest, made>>
        /\ manifest' = manifest /\ made' = made /\ objects' = objects
    BY <1>1 DEF ReleaseRead
  <2>1. CASE lease.owner = w /\ ~Does(w, "ownerless")
    <3> DEFINE s == [Unmounted EXCEPT !.pc = "releaseDelete"]
    <3>1. s.pc = "releaseDelete" /\ s.op = "none"
      BY DEF Unmounted
    <3>2. st' = [st EXCEPT ![w] = s]
      BY <1>1, <2>1 DEF ReleaseRead
    <3> HIDE DEF s
    <3>3. SessionCurrent(s, manifest, made')
      BY <3>1 DEF SessionCurrent, Mounts
    <3> QED
      BY <2>0, <3>1, <3>2, <3>3, AtomicLocal
  <2>2. CASE ~(lease.owner = w /\ ~Does(w, "ownerless"))
    BY <1>1, <2>0, <2>2, AtomicForget DEF ReleaseRead
  <2> QED
    BY <2>1, <2>2
<1>2. CASE ReleaseDelete(w)
  BY <1>2, AtomicForget DEF ReleaseDelete, Holder
<1>3. CASE DetachFails(w)
  BY <1>3, AtomicForget DEF DetachFails
<1>4. CASE TouchRead(w)
  <2> DEFINE s == [st[w] EXCEPT !.pc = "touchPut", !.seen = manifest]
  <2>1. s.pc = "touchPut" /\ s.op = "none"
    BY <1>0, <1>4, UnmountedHeld DEF TouchRead, SessionHeld, Sessions
  <2>2. /\ st' = [st EXCEPT ![w] = s] /\ st[w].pc = "idle"
        /\ lease' = lease /\ manifest' = manifest /\ made' = made /\ objects' = objects
    BY <1>4 DEF TouchRead
  <2> HIDE DEF s
  <2>3. SessionCurrent(s, manifest, made')
    BY <2>1 DEF SessionCurrent, Mounts
  <2> QED
    BY <2>1, <2>2, <2>3, AtomicLocal
<1>5. CASE TouchPut(w)
  <2> DEFINE s == Unmounted
  <2>1. /\ st[w].seen = manifest /\ st[w].pc = "touchPut"
        /\ manifest' = [manifest EXCEPT !.rev = attempts + 1]
        /\ st' = [st EXCEPT ![w] = s] /\ lease' = lease /\ made' = made /\ objects' = objects
    BY <1>0, <1>5 DEF TouchPut, SeenCurrent, Forget
  <2>2. SameData(manifest', manifest)
    BY <1>0, <2>1 DEF Manifests, SameData
  <2>3. SessionCurrent(s, manifest, made') /\ s.pc \notin {"attachLock", "attachFetch"}
    BY UnmountedCurrent
  <2>4. st[w].doomed = {}
    BY <1>0, <2>1 DEF SessionHeld
  <2> HIDE DEF s
  <2> QED
    BY <2>1, <2>2, <2>3, <2>4, AtomicStep
<1>6. CASE TouchRefused(w)
  BY <1>6, AtomicForget DEF TouchRefused
<1>7. CASE Renew(w)
  BY <1>0, <1>7 DEF Renew, Extend
<1>8. CASE Crash(w)
  <2> DEFINE s == [Unmounted EXCEPT !.pc = "crashed"]
  <2>1. s.pc = "crashed" /\ s.op = "none"
    BY DEF Unmounted
  <2>2. /\ st' = [st EXCEPT ![w] = s] /\ st[w].pc # "crashed"
        /\ lease' = lease /\ manifest' = manifest /\ made' = made /\ objects' = objects
    BY <1>8 DEF Crash
  <2> HIDE DEF s
  <2>3. SessionCurrent(s, manifest, made') /\ SameData(manifest', manifest)
    BY <2>1, <2>2 DEF SessionCurrent, Mounts, SameData
  <2> QED
    BY <2>1, <2>2, <2>3, AtomicStep
<1> QED
  BY <1>1, <1>2, <1>3, <1>4, <1>5, <1>6, <1>7, <1>8 DEF Detach, Touch

LEMMA NextAtomicInv ==
  ASSUME Undisturbed
  PROVE  AtomicInv /\ [Next]_vars => AtomicInv'
<1> SUFFICES ASSUME AtomicInv, [Next]_vars
             PROVE  AtomicInv'
  OBVIOUS
<1>0. HeldInv'
  BY NextHeldInv DEF AtomicInv
<1>1. ASSUME NEW w \in Owners,
             Attach(w) \/ Write(w) \/ Detach(w) \/ Touch(w) \/ Renew(w) \/ Crash(w)
      PROVE  AtomicInv'
  BY <1>0, <1>1, AttachAtomicInv, WriteAtomicInv, CommitAtomicInv, OtherAtomicInv
<1>2. CASE Expire
  BY <1>2 DEF Expire, Undisturbed
<1>3. CASE UNCHANGED vars
  <2>1. \A v \in Owners : /\ SourceKey(st[v].seen)' = SourceKey(st[v].seen)
                          /\ Condemned(SourceKey(st[v].seen))' <=> Condemned(SourceKey(st[v].seen))
    BY <1>3 DEF vars, SourceKey, ByImage, Loops, Does, TreeKey, ImageKey, Condemned
  <2>2. \A v \in Owners : Foresees(st[v])' <=> Foresees(st[v])
    BY <1>3, <2>1 DEF vars, Foresees, SameData
  <2>3. st' = st /\ manifest' = manifest /\ made' = made
    BY <1>3 DEF vars
  <2>4. \A v \in Owners : SessionCurrent(st'[v], manifest', made')
    BY <2>3 DEF AtomicInv
  <2> QED
    BY <1>0, <2>2, <2>3, <2>4 DEF AtomicInv
<1> QED
  BY <1>1, <1>2, <1>3 DEF Next

LEMMA InitAtomicInv == Init => AtomicInv
<1> SUFFICES ASSUME Init PROVE AtomicInv
  OBVIOUS
<1>1. HeldInv
  BY InitHeldInv
<1>2. \A w \in Owners : st[w] = Unmounted
  BY DEF Init
<1>3. \A w \in Owners : /\ SessionCurrent(st[w], manifest, made)
                        /\ st[w].pc \notin {"attachLock", "attachFetch"}
  BY <1>2, UnmountedCurrent
<1> QED
  BY <1>1, <1>3 DEF AtomicInv

-----------------------------------------------------------------------------
(* The refinement *)

(* The state of the atomic context that the manifest stands for. *)
Head == [generation |-> manifest.generation,
         checkpointGeneration |-> manifest.checkpointGeneration,
         edits |-> CurrentEdits]

(* A save and a checkpoint count up what they say and replace the edits. *)
LEMMA HeadSaved ==
  ASSUME manifest'.generation = manifest.generation + 1,
         manifest'.checkpointGeneration = manifest.checkpointGeneration
  PROVE  Head' = [Head EXCEPT !.generation = @ + 1, !.edits = CurrentEdits']
<1> DEFINE g == manifest.generation
           c == manifest.checkpointGeneration
           n == manifest.generation + 1
           f == CurrentEdits'
           h == Head
<1>1. h = [generation |-> g, checkpointGeneration |-> c, edits |-> CurrentEdits]
  BY DEF Head
<1>2. Head' = [generation |-> n, checkpointGeneration |-> c, edits |-> f]
  BY DEF Head
<1>3. h.generation + 1 = n
  BY <1>1
<1> DEFINE fields == {"generation", "checkpointGeneration", "edits"}
           built == [generation |-> n, checkpointGeneration |-> c, edits |-> f]
           updated == [h EXCEPT !.generation = n, !.edits = f]
           F(x) == IF x = "generation" THEN n ELSE IF x = "edits" THEN f ELSE h[x]
<1> HIDE DEF g, c, n, f, h
<1>4. built = [x \in fields |-> built[x]]
  OBVIOUS
<1>5. updated = [x \in fields |-> F(x)]
  BY <1>1
<1>6. /\ built["generation"] = F("generation") /\ built["edits"] = F("edits")
      /\ built["checkpointGeneration"] = F("checkpointGeneration")
  BY <1>1
<1> HIDE DEF built, updated, F
<1>7. updated = built
  BY <1>4, <1>5, <1>6
<1>8. [h EXCEPT !.generation = @ + 1, !.edits = f] = Head'
  BY <1>2, <1>3, <1>7 DEF built, updated
<1> QED
  BY <1>8 DEF f, h

LEMMA HeadCheckpointed ==
  ASSUME manifest'.generation = manifest.generation,
         manifest'.checkpointGeneration = manifest.checkpointGeneration + 1
  PROVE  Head' = [Head EXCEPT !.checkpointGeneration = @ + 1, !.edits = CurrentEdits']
<1> DEFINE g == manifest.generation
           c == manifest.checkpointGeneration
           n == manifest.checkpointGeneration + 1
           f == CurrentEdits'
           h == Head
<1>1. h = [generation |-> g, checkpointGeneration |-> c, edits |-> CurrentEdits]
  BY DEF Head
<1>2. Head' = [generation |-> g, checkpointGeneration |-> n, edits |-> f]
  BY DEF Head
<1>3. h.checkpointGeneration + 1 = n
  BY <1>1
<1> DEFINE fields == {"generation", "checkpointGeneration", "edits"}
           built == [generation |-> g, checkpointGeneration |-> n, edits |-> f]
           updated == [h EXCEPT !.checkpointGeneration = n, !.edits = f]
           F(x) == IF x = "checkpointGeneration" THEN n ELSE IF x = "edits" THEN f ELSE h[x]
<1> HIDE DEF g, c, n, f, h
<1>4. built = [x \in fields |-> built[x]]
  OBVIOUS
<1>5. updated = [x \in fields |-> F(x)]
  BY <1>1
<1>6. /\ built["generation"] = F("generation") /\ built["edits"] = F("edits")
      /\ built["checkpointGeneration"] = F("checkpointGeneration")
  BY <1>1
<1> HIDE DEF built, updated, F
<1>7. updated = built
  BY <1>4, <1>5, <1>6
<1>8. [h EXCEPT !.checkpointGeneration = @ + 1, !.edits = f] = Head'
  BY <1>2, <1>3, <1>7 DEF built, updated
<1> QED
  BY <1>8 DEF f, h

(***************************************************************************)
(* When a manifest is replaced by one with edits of its own on top of the  *)
(* current ones, the atomic context takes a step.                          *)
(***************************************************************************)
LEMMA HeadMaps ==
  ASSUME NEW a \in Attempts, NEW base \in SUBSET Attempts,
         a \in base, a \notin CurrentEdits, CurrentEdits' = base,
         \/ /\ manifest.generation = 0 /\ manifest.checkpointGeneration = 0
            /\ manifest'.generation = 1 /\ manifest'.checkpointGeneration = 0
            /\ CurrentEdits = {} /\ base = {a}
         \/ /\ manifest.generation # 0 /\ CurrentEdits \subseteq base
            /\ manifest'.generation = manifest.generation + 1
            /\ manifest'.checkpointGeneration = manifest.checkpointGeneration
         \/ /\ manifest.generation # 0 /\ CurrentEdits \subseteq base
            /\ manifest'.generation = manifest.generation
            /\ manifest'.checkpointGeneration = manifest.checkpointGeneration + 1
  PROVE  Atomic!AtomicNext /\ CurrentEdits \subseteq CurrentEdits'
<1>1. CASE manifest.generation = 0 /\ manifest.checkpointGeneration = 0
           /\ manifest'.generation = 1 /\ manifest'.checkpointGeneration = 0
           /\ CurrentEdits = {} /\ base = {a}
  <2>1. Head = Atomic!Nothing
    BY <1>1 DEF Head, Atomic!Nothing
  <2>2. Head' = [generation |-> 1, checkpointGeneration |-> 0, edits |-> {a}]
    BY <1>1 DEF Head
  <2>3. Atomic!AtomicCreate
    BY <2>1, <2>2 DEF Head, Atomic!AtomicCreate
  <2> QED
    BY <1>1, <2>3 DEF Atomic!AtomicNext
<1>2. ASSUME manifest.generation # 0, CurrentEdits \subseteq base
      PROVE  Head # Atomic!Nothing /\ base \in Atomic!More
  <2>1. Head # Atomic!Nothing
    BY <1>2 DEF Head, Atomic!Nothing
  <2>2. base \in Atomic!More
    BY <1>2 DEF Atomic!More
  <2> QED
    BY <2>1, <2>2
<1>3. CASE manifest.generation # 0 /\ CurrentEdits \subseteq base
           /\ manifest'.generation = manifest.generation + 1
           /\ manifest'.checkpointGeneration = manifest.checkpointGeneration
  <2>1. Head' = [Head EXCEPT !.generation = @ + 1, !.edits = base]
    BY <1>3, HeadSaved
  <2>2. Atomic!AtomicSave
    BY <1>2, <1>3, <2>1 DEF Head, Atomic!AtomicSave
  <2> QED
    BY <1>3, <2>2 DEF Atomic!AtomicNext
<1>4. CASE manifest.generation # 0 /\ CurrentEdits \subseteq base
           /\ manifest'.generation = manifest.generation
           /\ manifest'.checkpointGeneration = manifest.checkpointGeneration + 1
  <2>1. Head' = [Head EXCEPT !.checkpointGeneration = @ + 1, !.edits = base]
    BY <1>4, HeadCheckpointed
  <2>2. Atomic!AtomicCheckpoint
    BY <1>2, <1>4, <2>1 DEF Head, Atomic!AtomicCheckpoint
  <2> QED
    BY <1>4, <2>2 DEF Atomic!AtomicNext
<1> QED
  BY <1>1, <1>3, <1>4

(* A step that is no commit leaves the atomic context alone. *)
LEMMA HeadKept ==
  ASSUME RevInv, [Next]_vars,
         \A w \in Owners : ~(/\ st[w].pc = "commit" /\ CommitCondition(w)
                             /\ manifest' = Updated(w)),
         made'[manifest.treeEncryption] = CurrentEdits
  PROVE  Head' = Head /\ CurrentEdits' = CurrentEdits
<1>1. ASSUME manifest'.treeEncryption = manifest.treeEncryption,
             manifest'.generation = manifest.generation,
             manifest'.checkpointGeneration = manifest.checkpointGeneration
      PROVE  Head' = Head /\ CurrentEdits' = CurrentEdits
  <2>1. CurrentEdits' = CurrentEdits
    BY <1>1 DEF CurrentEdits
  <2> QED
    BY <1>1, <2>1 DEF Head
<1>2. ASSUME NEW w \in Owners, manifest.rev = st[w].seen.rev,
             manifest' = [st[w].seen EXCEPT !.rev = attempts + 1]
      PROVE  Head' = Head /\ CurrentEdits' = CurrentEdits
  <2>1. st[w].seen = manifest /\ manifest \in Manifests
    BY <1>2 DEF SeenCurrent, RevInv, TypeInv, TypeOK
  <2>2. manifest' = [manifest EXCEPT !.rev = attempts + 1]
    BY <1>2, <2>1
  <2> QED
    BY <1>1, <2>1, <2>2 DEF Manifests
<1>3. CASE manifest' = manifest
  BY <1>1, <1>3
<1> QED
  BY <1>2, <1>3, ManifestSteps

LEMMA InitHead == Init => Atomic!AtomicInit
<1> SUFFICES ASSUME Init PROVE Atomic!AtomicInit
  OBVIOUS
<1>1. /\ manifest.generation = 0 /\ manifest.checkpointGeneration = 0
      /\ manifest.treeEncryption = 0
  BY DEF Init, NoManifest
<1>2. CurrentEdits = {}
  BY <1>1 DEF Init, CurrentEdits
<1> QED
  BY <1>1, <1>2 DEF Atomic!AtomicInit, Atomic!Nothing

LEMMA EditsKept ==
  ASSUME AtomicInv, [Next]_vars
  PROVE  /\ made'[manifest.treeEncryption] = CurrentEdits
         /\ \A w \in Owners : Pending(w) => made'[st[w].attempt] = made[st[w].attempt]
<1>1. /\ HeldInv /\ TypeInv /\ manifest \in Manifests
      /\ manifest.rev \in Nat /\ manifest.rev <= attempts /\ attempts \in Nat
      /\ \A w \in Owners : Pending(w) => st[w].attempt \in 1 .. attempts
  BY HeldTypes DEF AtomicInv
<1>2. manifest.treeEncryption \in 0 .. attempts
  BY <1>1 DEF HeldInv, ManifestWhole, Manifests
<1>3. \A w \in Owners : Pending(w) => st[w].attempt \in 0 .. attempts
  BY <1>1
<1> QED
  BY <1>1, <1>2, <1>3, MadeKept DEF CurrentEdits

(***************************************************************************)
(* A create or save that commits puts all the edits there are, and one     *)
(* more, in the place of the current ones.                                 *)
(***************************************************************************)
LEMMA CommitMaps ==
  ASSUME AtomicInv, [Next]_vars, Undisturbed,
         NEW w \in Owners, st[w].pc = "commit", CommitCondition(w), manifest' = Updated(w)
  PROVE  Atomic!AtomicNext /\ CurrentEdits \subseteq CurrentEdits'
<1> DEFINE a == st[w].attempt
<1>1. /\ HeldInv /\ SessionHeld(w, st[w], lease, manifest, made, attempts)
      /\ SessionCurrent(st[w], manifest, made) /\ Pending(w)
      /\ made[0] = {} /\ \A b \in 0 .. MaxAttempt : made[b] \subseteq 1 .. b
      /\ ManifestWhole(manifest)
  BY AtomicTypes DEF HeldInv, Pending, PendingPCs
<1>2. /\ made \in [0 .. MaxAttempt -> SUBSET Attempts] /\ manifest \in Manifests
      /\ a \in 1 .. attempts /\ attempts \in 0 .. MaxAttempt
      /\ manifest.rev \in Nat /\ st[w].seen.rev < a
  BY <1>1, HeldTypes DEF TypeInv, TypeOK, AttemptsBound
<1>3. /\ st[w].seen = manifest
      /\ \/ st[w].op = "create" /\ manifest = NoManifest
         \/ st[w].op = "save" /\ Exists(manifest)
      /\ manifest'.treeEncryption = a
      /\ manifest'.generation = manifest.generation + 1
      /\ manifest'.checkpointGeneration = manifest.checkpointGeneration
  BY <1>1, CommitWhole
<1>4. CurrentEdits' = st[w].base /\ a \in st[w].base /\ made[a] = st[w].base
  <2>1. made'[a] = made[a]
    BY <1>1, EditsKept
  <2> QED
    BY <1>1, <1>3, <2>1 DEF CurrentEdits, SessionHeld, Pending
<1>5. a \in Attempts /\ st[w].base \in SUBSET Attempts
  <2>1. a \in 0 .. MaxAttempt /\ a \in Attempts
    BY <1>2 DEF Attempts
  <2> QED
    BY <1>2, <1>4, <2>1
<1>6. a \notin CurrentEdits
  <2>1. manifest.treeEncryption \in 0 .. MaxAttempt /\ manifest.treeEncryption <= manifest.rev
    BY <1>1, <1>2 DEF ManifestWhole, Manifests
  <2>2. manifest.rev < a
    BY <1>2, <1>3
  <2>3. CurrentEdits \subseteq 1 .. manifest.treeEncryption
    BY <1>1, <2>1 DEF CurrentEdits
  <2> QED
    BY <1>2, <2>1, <2>2, <2>3
<1>7. CASE st[w].op = "create"
  <2>1. manifest = NoManifest /\ st[w].base = {a}
    BY <1>1, <1>3, <1>7 DEF SessionHeld, Pending, NoManifest, Exists
  <2>2. /\ manifest.generation = 0 /\ manifest.checkpointGeneration = 0
        /\ manifest.treeEncryption = 0
    BY <2>1 DEF NoManifest
  <2>3. CurrentEdits = {}
    BY <1>1, <2>2 DEF CurrentEdits
  <2> QED
    BY <1>3, <1>4, <1>5, <1>6, <2>1, <2>2, <2>3, HeadMaps
<1>8. CASE st[w].op = "save"
  <2>1. CurrentEdits \subseteq st[w].base
    BY <1>1, <1>8 DEF SessionCurrent, Mounts, CurrentEdits
  <2>2. manifest.generation # 0
    BY <1>1, <1>3, <1>8 DEF ManifestWhole, Exists, NoManifest
  <2> QED
    BY <1>3, <1>4, <1>5, <1>6, <2>1, <2>2, HeadMaps
<1> QED
  BY <1>3, <1>7, <1>8

LEMMA StepMapsAtomic ==
  ASSUME AtomicInv, [Next]_vars, Undisturbed
  PROVE  (Atomic!AtomicNext \/ Head' = Head) /\ CurrentEdits \subseteq CurrentEdits'
<1>1. RevInv /\ made'[manifest.treeEncryption] = CurrentEdits
  BY EditsKept DEF AtomicInv, HeldInv
<1> QED
  BY <1>1, CommitMaps, HeadKept

(***************************************************************************)
(* While no lease lapses under its owner, creates and saves of any number  *)
(* of sessions take effect one at a time: whatever was attached, saved,    *)
(* detached, refused, aborted or crashed in between, each commit is made   *)
(* on top of everything committed before it.                               *)
(***************************************************************************)
THEOREM Implements == ASSUME Undisturbed PROVE Spec => ImplementsAtomic
<1>1. Init => AtomicInv
  BY InitAtomicInv
<1>2. AtomicInv /\ [Next]_vars => AtomicInv'
  BY NextAtomicInv
<1>3. Init => Atomic!AtomicInit
  BY InitHead
<1>4. AtomicInv /\ [Next]_vars => [Atomic!AtomicNext]_Head
  BY StepMapsAtomic
<1> QED
  BY <1>1, <1>2, <1>3, <1>4, PTL DEF Spec, ImplementsAtomic, Atomic!AtomicSpec, Head

(***************************************************************************)
(* In particular nobody's update is lost: the edits a session has          *)
(* committed are in everything that is current later.                      *)
(***************************************************************************)
THEOREM NothingLost == ASSUME Undisturbed PROVE Spec => NoLostUpdate
<1>1. Init => AtomicInv
  BY InitAtomicInv
<1>2. AtomicInv /\ [Next]_vars => AtomicInv'
  BY NextAtomicInv
<1>3. AtomicInv /\ [Next]_vars => [CurrentEdits \subseteq CurrentEdits']_<<manifest, made>>
  BY StepMapsAtomic
<1> QED
  BY <1>1, <1>2, <1>3, PTL DEF Spec, NoLostUpdate

-----------------------------------------------------------------------------
(* One session that saves                                                  *)

Saves(w) == Does(w, "save") \/ Does(w, "checkpoint")

(***************************************************************************)
(* When only one session saves or checkpoints, and nobody recreates, the   *)
(* lock is not needed at all: whoever else creates, attaches, records      *)
(* runtime state or seizes the lock, whatever expires, crashes or fails.   *)
(***************************************************************************)
OneSaver ==
  /\ \A v, w \in Owners : Saves(v) /\ Saves(w) => v = w
  /\ \A w \in Owners : ~Does(w, "recreate")

(* The image of an ext4 context is that of its tree. *)
DataWhole(m) ==
  /\ m.format = "ext4" => m.imageEncryption = m.treeEncryption
  /\ m.treeEncryption <= m.rev
  /\ Exists(m) => m.generation # 0

(* A session in state s is about to work on the data it read about. *)
Attaching(s) == s.pc \in {"attachLock", "attachFetch"}

(* It works on data it has attached. *)
Working(s) == s.pc = "mounted" \/ s.op \in {"save", "checkpoint"}

(* w in state s, when the manifest is m, and n attempts with edits e have
   been made. *)
SaverSound(w, s, m, e, n) ==
  /\ DataWhole(s.seen)
  /\ s.pc = "idle" => s = Unmounted
  /\ s.pc # "list"
  /\ s.pc = "cleanup" => s.op # "none"
  /\ Attaching(s) \/ Working(s) \/ s.pc = "touchPut" => Exists(m)
  /\ s.base \subseteq 1 .. n
  /\ s.pc = "pack" /\ s.op = "create" => s.base = {}
  /\ s.pc \in PendingPCs =>
       /\ s.attempt \in s.base /\ e[s.attempt] = s.base
       /\ s.op = "create" => s.base = {s.attempt}
  /\ Saves(w) =>
       /\ Attaching(s) => s.seen.treeEncryption = m.treeEncryption
       /\ Working(s) => e[m.treeEncryption] \subseteq s.base

SaverInv ==
  /\ RevInv
  /\ made[0] = {} /\ \A b \in 0 .. MaxAttempt : made[b] \subseteq 1 .. b
  /\ DataWhole(manifest)
  /\ \A w \in Owners : SaverSound(w, st[w], manifest, made, attempts)

LEMMA SaverTypes ==
  ASSUME SaverInv
  PROVE  /\ TypeInv /\ SeenCurrent /\ st \in [Owners -> Sessions]
         /\ manifest \in Manifests /\ manifest.rev \in Nat /\ manifest.rev <= attempts
         /\ manifest.treeEncryption \in 0 .. attempts
         /\ attempts \in Nat /\ attempts <= MaxAttempt
         /\ made \in [0 .. MaxAttempt -> SUBSET Attempts]
         /\ \A w \in Owners : /\ st[w] \in Sessions /\ OperationOK(w, st[w])
                              /\ st[w].pc \in WritingPCs => st[w].op # "none"
                              /\ Pending(w) => st[w].attempt \in 1 .. attempts
                              /\ st[w].seen.rev <= attempts
<1>1. TypeInv /\ SeenCurrent /\ OperationsKnown
  BY DEF SaverInv, RevInv
<1>2. /\ st \in [Owners -> Sessions] /\ manifest \in Manifests
      /\ made \in [0 .. MaxAttempt -> SUBSET Attempts]
      /\ attempts \in 0 .. MaxAttempt /\ attempts \in Nat /\ attempts <= MaxAttempt
  BY <1>1 DEF TypeInv, TypeOK
<1>3. manifest.rev \in Nat /\ manifest.rev <= attempts
  BY <1>1, NumbersTyped
<1>4. manifest.treeEncryption \in 0 .. attempts
  BY <1>2, <1>3 DEF SaverInv, DataWhole, Manifests
<1> QED
  BY <1>1, <1>2, <1>3, <1>4 DEF OperationsKnown, TypeInv, AttemptsBound

LEMMA UnmountedSaver ==
  ASSUME NEW w, NEW m, NEW e, NEW n
  PROVE  SaverSound(w, Unmounted, m, e, n)
<1>1. /\ Unmounted.pc = "idle" /\ Unmounted.op = "none" /\ Unmounted.seen = NoManifest
      /\ Unmounted.base = {}
  BY DEF Unmounted
<1>2. DataWhole(NoManifest)
  BY DEF DataWhole, NoManifest, Exists
<1> QED
  BY <1>1, <1>2 DEF SaverSound, Attaching, Working, PendingPCs

(* What one session does keeps the others sound, when the current data stays
   or nobody else saves what is current. *)
LEMMA SaverStep ==
  ASSUME SaverInv, RevInv', NEW w \in Owners, NEW s, st' = [st EXCEPT ![w] = s],
         attempts <= attempts', attempts' \in Nat,
         made'[0] = {}, \A b \in 0 .. MaxAttempt : made'[b] \subseteq 1 .. b,
         \A b \in 0 .. attempts : made'[b] = made[b],
         DataWhole(manifest'), Exists(manifest) => Exists(manifest'),
         SaverSound(w, s, manifest', made', attempts'),
         \/ manifest'.treeEncryption = manifest.treeEncryption
         \/ ~Exists(manifest)
         \/ \A v \in Owners : v # w => ~Saves(v)
  PROVE  SaverInv'
<1>1. st'[w] = s /\ \A v \in Owners : v # w => st'[v] = st[v]
  BY SaverTypes
<1>2. ASSUME NEW v \in Owners
      PROVE  SaverSound(v, st'[v], manifest', made', attempts')
  <2>1. CASE v = w
    BY <1>1, <2>1
  <2>2. CASE v # w
    <3>1. st'[v] = st[v] /\ SaverSound(v, st[v], manifest, made, attempts)
      BY <1>1, <2>2 DEF SaverInv
    <3>2. /\ st[v].base \subseteq 1 .. attempts'
          /\ st[v].pc \in PendingPCs => made'[st[v].attempt] = made[st[v].attempt]
          /\ made'[manifest.treeEncryption] = made[manifest.treeEncryption]
      BY <3>1, SaverTypes DEF SaverSound, Pending
    <3>3. Saves(v) /\ (Attaching(st[v]) \/ Working(st[v])) =>
            manifest'.treeEncryption = manifest.treeEncryption
      BY <2>2, <3>1 DEF SaverSound
    <3> QED
      BY <3>1, <3>2, <3>3 DEF SaverSound
  <2> QED
    BY <2>1, <2>2
<1> QED
  BY <1>2 DEF SaverInv

(* A step that changes at most the lock and the data besides w. *)
LEMMA SaverLocal ==
  ASSUME SaverInv, RevInv', NEW w \in Owners, NEW s, st' = [st EXCEPT ![w] = s],
         UNCHANGED <<manifest, attempts, made>>,
         SaverSound(w, s, manifest, made, attempts)
  PROVE  SaverInv'
<1>1. /\ manifest' = manifest /\ attempts' = attempts /\ made' = made
      /\ attempts <= attempts' /\ attempts' \in Nat
  BY SaverTypes
<1>2. /\ made[0] = {} /\ \A b \in 0 .. MaxAttempt : made[b] \subseteq 1 .. b
      /\ DataWhole(manifest)
  BY DEF SaverInv
<1> QED
  BY <1>1, <1>2, SaverStep

LEMMA SaverForget ==
  ASSUME SaverInv, RevInv', NEW w \in Owners, Forget(w),
         UNCHANGED <<manifest, attempts, made>>
  PROVE  SaverInv'
<1>1. SaverSound(w, Unmounted, manifest, made, attempts)
  BY UnmountedSaver
<1>2. st' = [st EXCEPT ![w] = Unmounted]
  BY DEF Forget
<1> QED
  BY <1>1, <1>2, SaverLocal

(* A session that has nothing new but its place in an attach or a commit. *)
LEMMA SaverGoto ==
  ASSUME SaverInv, RevInv', NEW w \in Owners, NEW s, st' = [st EXCEPT ![w] = s],
         UNCHANGED <<manifest, attempts, made>>,
         s.op = st[w].op, s.seen = st[w].seen, s.base = st[w].base,
         s.attempt = st[w].attempt,
         \/ s.pc \in {"attachFetch", "attachFail"} /\ Attaching(st[w])
         \/ s.pc \in PendingPCs /\ Pending(w)
  PROVE  SaverInv'
<1>1. SaverSound(w, st[w], manifest, made, attempts)
  BY DEF SaverInv
<1>2. SaverSound(w, s, manifest, made, attempts)
  BY <1>1 DEF SaverSound, Attaching, Working, PendingPCs, Pending
<1> QED
  BY <1>2, SaverLocal

(* What is left of a session that goes on to delete keys, or rests. *)
LEMMA DeletingSaver ==
  ASSUME SaverInv, OneSaver, NEW w \in Owners, NEW keys, NEW m,
         st[w].pc \in WritingPCs \cup {"cleanup"},
         Exists(manifest) => Exists(m),
         Saves(w) /\ Working(st[w]) => made[m.treeEncryption] \subseteq st[w].base
  PROVE  SaverSound(w, Deleting(w, keys), m, made, attempts)
<1>0. /\ st[w] \in Sessions /\ SaverSound(w, st[w], manifest, made, attempts)
      /\ OperationOK(w, st[w]) /\ (st[w].pc \in WritingPCs => st[w].op # "none")
  BY SaverTypes DEF SaverInv
<1>1. st[w].op \in {"create", "save", "checkpoint"}
  BY <1>0 DEF Sessions, OperationOK, OneSaver, SaverSound
<1> DEFINE s == Deleting(w, keys)
<1>2. CASE keys # {}
  <2>1. s.pc = "cleanup" /\ s.op = st[w].op /\ s.seen = st[w].seen /\ s.base = st[w].base
    BY <1>0, <1>2 DEF Deleting, Sessions
  <2> HIDE DEF s
  <2>2. Working(s) => Working(st[w])
    BY <2>1 DEF Working
  <2>3. ~Attaching(s)
    BY <2>1 DEF Attaching
  <2>4. SaverSound(w, s, m, made, attempts)
    BY <1>0, <1>1, <2>1, <2>2, <2>3 DEF SaverSound, PendingPCs
  <2> QED
    BY <2>4 DEF s
<1>3. CASE keys = {} /\ st[w].op = "create"
  <2>1. s = Unmounted
    BY <1>3 DEF Deleting, Rested
  <2> QED
    BY <2>1, UnmountedSaver
<1>4. CASE keys = {} /\ st[w].op \in {"save", "checkpoint"}
  <2>1. s.pc = "mounted" /\ s.op = "none" /\ s.seen = NoManifest /\ s.base = st[w].base
    BY <1>4 DEF Deleting, Rested, Unmounted
  <2>2. DataWhole(NoManifest)
    BY DEF DataWhole, NoManifest, Exists
  <2> HIDE DEF s
  <2>3. Working(st[w]) /\ ~Attaching(s)
    BY <1>4, <2>1 DEF Working, Attaching
  <2>4. SaverSound(w, s, m, made, attempts)
    BY <1>0, <2>1, <2>2, <2>3 DEF SaverSound, PendingPCs
  <2> QED
    BY <2>4 DEF s
<1> QED
  BY <1>1, <1>2, <1>3, <1>4

LEMMA SaverDeleting ==
  ASSUME SaverInv, RevInv', OneSaver, NEW w \in Owners, NEW keys,
         st' = [st EXCEPT ![w] = Deleting(w, keys)],
         UNCHANGED <<manifest, attempts, made>>,
         st[w].pc \in WritingPCs \cup {"cleanup"}
  PROVE  SaverInv'
<1>1. Saves(w) /\ Working(st[w]) => made[manifest.treeEncryption] \subseteq st[w].base
  BY DEF SaverInv, SaverSound
<1>2. SaverSound(w, Deleting(w, keys), manifest, made, attempts)
  BY <1>1, DeletingSaver
<1> QED
  BY <1>2, SaverLocal

LEMMA AttachSaverInv ==
  ASSUME SaverInv, RevInv', NEW w \in Owners, Attach(w)
  PROVE  SaverInv'
<1>0. /\ st[w] \in Sessions /\ SaverSound(w, st[w], manifest, made, attempts)
      /\ DataWhole(manifest)
  BY SaverTypes DEF SaverInv
<1>m. UNCHANGED <<manifest, attempts, made>>
  BY DEF Attach, AttachRead, AttachRefused, AttachLock, AttachForce, AttachFetch,
         AttachBroken, AttachAbort
<1>1. CASE AttachRead(w)
  <2> DEFINE s == [st[w] EXCEPT !.pc = "attachLock", !.seen = manifest]
  <2>1. st' = [st EXCEPT ![w] = s] /\ Exists(manifest) /\ st[w] = Unmounted
    BY <1>0, <1>1 DEF AttachRead, SaverSound
  <2>2. s.pc = "attachLock" /\ s.op = "none" /\ s.seen = manifest /\ s.base = {}
    BY <2>1 DEF Unmounted
  <2> HIDE DEF s
  <2>3. SaverSound(w, s, manifest, made, attempts)
    BY <1>0, <2>1, <2>2 DEF SaverSound, Working, Attaching, PendingPCs
  <2> QED
    BY <1>m, <2>1, <2>3, SaverLocal
<1>2. CASE AttachRefused(w) \/ AttachAbort(w)
  BY <1>m, <1>2, SaverForget DEF AttachRefused, AttachAbort
<1>3. CASE AttachLock(w)
  <2> DEFINE s == [st[w] EXCEPT !.pc = "attachFetch",
                                !.adopted = (lease = [owner |-> w, live |-> TRUE])]
  <2>1. st' = [st EXCEPT ![w] = s] /\ Attaching(st[w])
    BY <1>3 DEF AttachLock, Attaching
  <2>2. /\ s.pc = "attachFetch" /\ s.op = st[w].op /\ s.seen = st[w].seen
        /\ s.base = st[w].base /\ s.attempt = st[w].attempt
    BY <1>0 DEF Sessions
  <2> HIDE DEF s
  <2> QED
    BY <1>m, <2>1, <2>2, SaverGoto
<1>5. ASSUME NEW pc \in {"attachFetch", "attachFail"}, Goto(w, pc), Attaching(st[w])
      PROVE  SaverInv'
  <2> DEFINE s == [st[w] EXCEPT !.pc = pc]
  <2>1. st' = [st EXCEPT ![w] = s]
    BY <1>5 DEF Goto
  <2>2. /\ s.pc = pc /\ s.op = st[w].op /\ s.seen = st[w].seen
        /\ s.base = st[w].base /\ s.attempt = st[w].attempt
    BY <1>0 DEF Sessions
  <2> HIDE DEF s
  <2> QED
    BY <1>m, <1>5, <2>1, <2>2, SaverGoto
<1>6. CASE AttachForce(w) \/ AttachBroken(w)
  BY <1>5, <1>6 DEF AttachForce, AttachBroken, Attaching
<1>4. CASE AttachFetch(w)
  <2> DEFINE e == Source(w).encryption
             s == [Unmounted EXCEPT !.pc = "mounted", !.loop = LoopMounts(w), !.base = made[e]]
  <2>1. st' = [st EXCEPT ![w] = s] /\ Attaching(st[w])
    BY <1>4 DEF AttachFetch, Attaching
  <2>2. e = st[w].seen.treeEncryption
    BY <1>0 DEF Source, LoopMounts, SaverSound, DataWhole
  <2>3. /\ s.pc = "mounted" /\ s.op = "none" /\ s.seen = NoManifest
        /\ s.base = made[st[w].seen.treeEncryption]
    BY <2>2 DEF Unmounted
  <2>4. made[st[w].seen.treeEncryption] \subseteq 1 .. attempts
    <3>1. /\ st[w].seen.treeEncryption \in 0 .. MaxAttempt /\ st[w].seen.rev \in Nat
          /\ st[w].seen.treeEncryption <= st[w].seen.rev /\ st[w].seen.rev <= attempts
          /\ attempts \in Nat
      BY <1>0, SaverTypes DEF SaverSound, DataWhole, Sessions, Manifests
    <3> QED
      BY <3>1 DEF SaverInv
  <2>5. DataWhole(NoManifest)
    BY DEF DataWhole, NoManifest, Exists
  <2> HIDE DEF s
  <2>6. SaverSound(w, s, manifest, made, attempts)
    BY <1>0, <2>1, <2>3, <2>4, <2>5 DEF SaverSound, Attaching, PendingPCs
  <2> QED
    BY <1>m, <2>1, <2>6, SaverLocal
<1> QED
  BY <1>1, <1>2, <1>3, <1>4, <1>6 DEF Attach

(* What the commit of w writes, when its condition holds. *)
LEMMA CommitSaver ==
  ASSUME SaverInv, OneSaver, NEW w \in Owners, st[w].pc = "commit", CommitCondition(w)
  PROVE  /\ ~Prunes(w) /\ st[w].seen = manifest
         /\ DataWhole(Updated(w)) /\ Exists(Updated(w))
         /\ Updated(w).treeEncryption = st[w].attempt
         /\ \/ /\ st[w].op = "create" /\ manifest = NoManifest
               /\ Updated(w).generation = 1 /\ Updated(w).checkpointGeneration = 0
            \/ /\ st[w].op = "save" /\ Exists(manifest) /\ Saves(w)
               /\ Updated(w).generation = manifest.generation + 1
               /\ Updated(w).checkpointGeneration = manifest.checkpointGeneration
            \/ /\ st[w].op = "checkpoint" /\ Exists(manifest) /\ Saves(w)
               /\ Updated(w).generation = manifest.generation
               /\ Updated(w).checkpointGeneration = manifest.checkpointGeneration + 1
<1> DEFINE a == st[w].attempt
           u == Updated(w)
<1>0. /\ st[w] \in Sessions /\ SaverSound(w, st[w], manifest, made, attempts)
      /\ SeenCurrent /\ OperationOK(w, st[w])
      /\ st[w].pc \in WritingPCs /\ Pending(w) /\ TypeInv /\ manifest \in Manifests
      /\ DataWhole(manifest)
  BY SaverTypes DEF WritingPCs, Pending, PendingPCs, SaverInv
<1>1. a \in Nat /\ a # 0 /\ u.rev = a
  BY <1>0, UpdatedType, NumbersTyped
<1>2. st[w].op \in {"create", "save", "checkpoint"} /\ ~Prunes(w)
  BY <1>0, SaverTypes DEF Sessions, OperationOK, OneSaver, Prunes
<1>3. st[w].seen = manifest
  BY <1>0, <1>2 DEF CommitCondition, SeenCurrent
<1>4. CASE st[w].op = "create"
  <2>1. manifest = NoManifest
    BY <1>0, <1>3, <1>4 DEF OperationOK, SeenCurrent
  <2>2. u = Created(w)
    BY <1>4 DEF Updated
  <2>3. /\ u.generation = 1 /\ u.checkpointGeneration = 0 /\ u.treeEncryption = a
        /\ u.format = "ext4" => u.imageEncryption = a
    BY <2>2 DEF Created
  <2> HIDE DEF u
  <2>4. DataWhole(u) /\ Exists(u)
    BY <1>1, <2>3 DEF DataWhole, Exists
  <2> QED
    BY <1>2, <1>3, <1>4, <2>1, <2>3, <2>4 DEF u
<1>5. CASE st[w].op = "save"
  <2>1. Exists(manifest) /\ Saves(w) /\ manifest.generation \in Nat
    BY <1>0, <1>5 DEF SaverSound, Working, OperationOK, Saves, Manifests
  <2>2. u = Saved(w)
    BY <1>5 DEF Updated
  <2>3. /\ u.generation = manifest.generation + 1
        /\ u.checkpointGeneration = manifest.checkpointGeneration
        /\ u.treeEncryption = a
        /\ u.format = "ext4" => u.imageEncryption = a
    BY <1>0, <1>3, <2>2 DEF Saved, Manifests
  <2> HIDE DEF u
  <2>4. DataWhole(u) /\ Exists(u)
    BY <1>1, <2>1, <2>3 DEF DataWhole, Exists
  <2> QED
    BY <1>2, <1>3, <1>5, <2>1, <2>3, <2>4 DEF u
<1>6. CASE st[w].op = "checkpoint"
  <2>1. Exists(manifest) /\ Saves(w) /\ manifest.generation # 0
    BY <1>0, <1>6 DEF SaverSound, Working, OperationOK, Saves, DataWhole
  <2>2. u = Checkpointed(w)
    BY <1>6 DEF Updated
  <2>3. /\ u.generation = manifest.generation
        /\ u.checkpointGeneration = manifest.checkpointGeneration + 1
        /\ u.treeEncryption = a /\ u.format = "tree"
    BY <1>0, <1>3, <2>2 DEF Checkpointed, Manifests
  <2> HIDE DEF u
  <2>4. DataWhole(u) /\ Exists(u)
    BY <1>1, <2>1, <2>3 DEF DataWhole, Exists
  <2> QED
    BY <1>2, <1>3, <1>6, <2>1, <2>3, <2>4 DEF u
<1> QED
  BY <1>2, <1>4, <1>5, <1>6

(* The manifest put lands, and w goes on to delete keys. *)
LEMMA LandedSaverInv ==
  ASSUME SaverInv, RevInv', OneSaver, NEW w \in Owners, st[w].pc = "commit",
         CommitCondition(w), manifest' = Updated(w), UNCHANGED <<attempts, made>>,
         NEW keys, st' = [st EXCEPT ![w] = Deleting(w, keys)]
  PROVE  SaverInv'
<1>1. /\ DataWhole(manifest') /\ Exists(manifest')
      /\ manifest'.treeEncryption = st[w].attempt
      /\ ~Exists(manifest) \/ Saves(w)
  BY CommitSaver DEF NoManifest, Exists
<1>2. st[w].pc \in WritingPCs /\ Pending(w)
  BY DEF WritingPCs, PendingPCs, Pending
<1>3. made[manifest'.treeEncryption] \subseteq st[w].base
  BY <1>1, <1>2 DEF SaverInv, SaverSound, Pending
<1>4. SaverSound(w, Deleting(w, keys), manifest', made, attempts)
  BY <1>1, <1>2, <1>3, DeletingSaver
<1>5. /\ attempts' = attempts /\ made' = made
      /\ attempts <= attempts' /\ attempts' \in Nat
  BY SaverTypes
<1>6. made[0] = {} /\ \A b \in 0 .. MaxAttempt : made[b] \subseteq 1 .. b
  BY DEF SaverInv
<1>7. ~Exists(manifest) \/ \A v \in Owners : v # w => ~Saves(v)
  BY <1>1 DEF OneSaver
<1> QED
  BY <1>1, <1>4, <1>5, <1>6, <1>7, SaverStep

LEMMA WriteSaverInv ==
  ASSUME SaverInv, RevInv', OneSaver, NEW w \in Owners, Write(w)
  PROVE  SaverInv'
<1>0. /\ st[w] \in Sessions /\ SaverSound(w, st[w], manifest, made, attempts)
      /\ DataWhole(manifest) /\ OperationOK(w, st[w])
      /\ (st[w].pc \in WritingPCs => st[w].op # "none")
      /\ made[0] = {} /\ \A b \in 0 .. MaxAttempt : made[b] \subseteq 1 .. b
      /\ attempts \in Nat /\ attempts <= MaxAttempt
      /\ made \in [0 .. MaxAttempt -> SUBSET Attempts]
      /\ manifest.treeEncryption \in 0 .. attempts
  BY SaverTypes DEF SaverInv
<1>1. ASSUME NEW op \in {"create", "recreate"}, CreateStart(w, op)
      PROVE  SaverInv'
  <2> DEFINE s == [st[w] EXCEPT !.pc = "pack", !.op = op, !.seen = manifest]
  <2>1. /\ st' = [st EXCEPT ![w] = s] /\ UNCHANGED <<manifest, attempts, made>>
        /\ st[w] = Unmounted /\ op = "create"
    BY <1>0, <1>1 DEF CreateStart, SaverSound, OneSaver
  <2>2. s.pc = "pack" /\ s.op = "create" /\ s.seen = manifest /\ s.base = {}
    BY <2>1 DEF Unmounted
  <2> HIDE DEF s
  <2>3. SaverSound(w, s, manifest, made, attempts)
    BY <1>0, <2>2 DEF SaverSound, Working, Attaching, PendingPCs
  <2> QED
    BY <2>1, <2>3, SaverLocal
<1>2. ASSUME NEW op \in {"save", "checkpoint"}, SaveStart(w, op)
      PROVE  SaverInv'
  <2> DEFINE s == [st[w] EXCEPT !.pc = "readManifest", !.op = op]
  <2>1. /\ st' = [st EXCEPT ![w] = s] /\ UNCHANGED <<manifest, attempts, made>>
        /\ Working(st[w])
    BY <1>2 DEF SaveStart, Working
  <2>2. s.pc = "readManifest" /\ s.op = op /\ s.seen = st[w].seen /\ s.base = st[w].base
    BY <1>0 DEF Sessions
  <2> HIDE DEF s
  <2>3. SaverSound(w, s, manifest, made, attempts)
    BY <1>0, <2>1, <2>2 DEF SaverSound, Attaching, PendingPCs
  <2> QED
    BY <2>1, <2>3, SaverLocal
<1>3. CASE ReadManifest(w)
  <2> DEFINE s == [st[w] EXCEPT !.pc = "pack", !.seen = manifest]
  <2>1. /\ st' = [st EXCEPT ![w] = s] /\ UNCHANGED <<manifest, attempts, made>>
        /\ st[w].op # "create"
    BY <1>0, <1>3 DEF ReadManifest, OperationOK
  <2>2. s.pc = "pack" /\ s.op = st[w].op /\ s.seen = manifest /\ s.base = st[w].base
    BY <1>0 DEF Sessions
  <2> HIDE DEF s
  <2>3. Working(s) => Working(st[w])
    BY <2>2 DEF Working
  <2>4. SaverSound(w, s, manifest, made, attempts)
    BY <1>0, <2>1, <2>2, <2>3 DEF SaverSound, Attaching, PendingPCs
  <2> QED
    BY <2>1, <2>4, SaverLocal
<1>4. CASE Pack(w)
  <2> DEFINE a == attempts + 1
             edits == st[w].base \cup {a}
             s == [st[w] EXCEPT !.pc = "putTree", !.attempt = a,
                                !.image = PersistsImage(w), !.base = edits]
  <2>1. /\ s.pc = "putTree" /\ s.seen = st[w].seen /\ s.op = st[w].op /\ s.attempt = a
        /\ s.base = edits /\ st[w].base \subseteq edits /\ st[w].pc = "pack"
    BY <1>0, <1>4 DEF Pack, Sessions
  <2>2. /\ st' = [st EXCEPT ![w] = s] /\ manifest' = manifest
        /\ attempts' = a /\ made' = [made EXCEPT ![a] = edits] /\ a \in 1 .. MaxAttempt
        /\ a \in Nat /\ a # 0
    BY <1>0, <1>4 DEF Pack
  <2> HIDE DEF s
  <2>3. edits \subseteq 1 .. a /\ a \in edits /\ (st[w].op = "create" => edits = {a})
    BY <1>0, <2>1, <2>2 DEF SaverSound
  <2>4. /\ made'[a] = edits /\ \A b \in 0 .. MaxAttempt : b # a => made'[b] = made[b]
    BY <1>0, <2>2
  <2> HIDE DEF edits
  <2>5. \A b \in 0 .. attempts : made'[b] = made[b]
    BY <1>0, <2>4
  <2>6. SaverSound(w, s, manifest, made', attempts')
    <3>1. Working(s) => Working(st[w])
      BY <2>1 DEF Working
    <3>2. made'[manifest.treeEncryption] = made[manifest.treeEncryption]
      BY <1>0, <2>5
    <3> QED
      BY <1>0, <2>1, <2>2, <2>3, <2>4, <3>1, <3>2 DEF SaverSound, Attaching, PendingPCs
  <2>7. /\ made'[0] = {} /\ \A b \in 0 .. MaxAttempt : made'[b] \subseteq 1 .. b
    <3>1. made'[0] = {}
      BY <1>0, <2>2, <2>4
    <3>2. ASSUME NEW b \in 0 .. MaxAttempt
          PROVE  made'[b] \subseteq 1 .. b
      <4>1. CASE b = a
        BY <2>3, <2>4, <4>1
      <4>2. CASE b # a
        BY <1>0, <2>4, <4>2
      <4> QED
        BY <4>1, <4>2
    <3> QED
      BY <3>1, <3>2
  <2>8. attempts <= attempts' /\ attempts' \in Nat
    BY <1>0, <2>2
  <2> QED
    BY <1>0, <2>2, <2>5, <2>6, <2>7, <2>8, SaverStep
<1>5. CASE PackFails(w)
  <2>1. /\ st' = [st EXCEPT ![w] = Deleting(w, {})] /\ st[w].pc = "pack"
        /\ UNCHANGED <<manifest, attempts, made>>
    BY <1>5 DEF PackFails, Deleting
  <2> QED
    BY <2>1, SaverDeleting DEF WritingPCs
<1>p. ASSUME NEW s, st' = [st EXCEPT ![w] = s], s.pc \in PendingPCs, Pending(w),
             s.op = st[w].op, s.seen = st[w].seen, s.base = st[w].base,
             s.attempt = st[w].attempt, UNCHANGED <<manifest, attempts, made>>
      PROVE  SaverInv'
  BY <1>p, SaverGoto
<1>6. CASE PutTree(w)
  <2> DEFINE s == [st[w] EXCEPT !.pc = IF st[w].image THEN "putImage" ELSE BeforeCommit(w),
                                !.written = {TargetKey(w)}]
  <2>1. /\ s.pc \in PendingPCs /\ s.seen = st[w].seen /\ s.op = st[w].op
        /\ s.attempt = st[w].attempt /\ s.base = st[w].base
    BY <1>0 DEF Sessions, BeforeCommit, PendingPCs
  <2>2. st' = [st EXCEPT ![w] = s] /\ Pending(w) /\ UNCHANGED <<manifest, attempts, made>>
    BY <1>6 DEF PutTree, Pending, PendingPCs
  <2> HIDE DEF s
  <2> QED
    BY <1>p, <2>1, <2>2
<1>13. CASE PutImage(w)
  <2> DEFINE s == [st[w] EXCEPT !.pc = BeforeCommit(w),
                                !.written = st[w].written \cup {ImageKey(st[w].attempt)}]
  <2>1. /\ s.pc \in PendingPCs /\ s.seen = st[w].seen /\ s.op = st[w].op
        /\ s.attempt = st[w].attempt /\ s.base = st[w].base
    BY <1>0 DEF Sessions, BeforeCommit, PendingPCs
  <2>2. st' = [st EXCEPT ![w] = s] /\ Pending(w) /\ UNCHANGED <<manifest, attempts, made>>
    BY <1>13 DEF PutImage, Pending, PendingPCs
  <2> HIDE DEF s
  <2> QED
    BY <1>p, <2>1, <2>2
<1>14. CASE Reassert(w)
  <2> DEFINE s == [st[w] EXCEPT !.pc = "commit"]
  <2>1. /\ s.pc \in PendingPCs /\ s.seen = st[w].seen /\ s.op = st[w].op
        /\ s.attempt = st[w].attempt /\ s.base = st[w].base
    BY <1>0 DEF Sessions, PendingPCs
  <2>2. st' = [st EXCEPT ![w] = s] /\ Pending(w) /\ UNCHANGED <<manifest, attempts, made>>
    BY <1>14 DEF Reassert, Goto, Pending, PendingPCs
  <2> HIDE DEF s
  <2> QED
    BY <1>p, <2>1, <2>2
<1>7. CASE Abort(w) /\ st[w].pc \in WritingPCs /\ UNCHANGED <<manifest, attempts, made>>
  BY <1>7, SaverDeleting DEF Abort
<1>8. CASE PutDataFails(w) \/ ReassertFails(w) \/ CommitRefused(w)
  BY <1>7, <1>8 DEF PutDataFails, ReassertFails, CommitRefused, WritingPCs, PendingPCs
<1>9. CASE Commit(w)
  <2>1. st[w].pc = "commit" /\ CommitCondition(w)
    BY <1>9 DEF Commit
  <2>2. st' = [st EXCEPT ![w] = Deleting(w, Superseded(w))]
    BY <1>9, <2>1, CommitSaver DEF Commit
  <2> QED
    BY <1>9, <2>1, <2>2, LandedSaverInv DEF Commit
<1>10. CASE CommitFails(w)
  <2>1. /\ st[w].pc = "commit" /\ st' = [st EXCEPT ![w] = Deleting(w, RolledBack(w))]
        /\ UNCHANGED <<attempts, made>>
        /\ \/ manifest' = manifest
           \/ CommitCondition(w) /\ manifest' = Updated(w)
    BY <1>10 DEF CommitFails, Abort
  <2>2. CASE manifest' = manifest
    BY <1>7, <1>10, <2>1, <2>2 DEF CommitFails, WritingPCs, PendingPCs
  <2>3. CASE CommitCondition(w) /\ manifest' = Updated(w)
    BY <2>1, <2>3, LandedSaverInv
  <2> QED
    BY <2>1, <2>2, <2>3
<1>11. CASE List(w)
  BY <1>0, <1>11 DEF List, SaverSound
<1>12. CASE Delete(w)
  <2>1. PICK k \in st[w].doomed : st' = [st EXCEPT ![w] = Deleting(w, st[w].doomed \ {k})]
    BY <1>12 DEF Delete
  <2>2. st[w].pc = "cleanup" /\ UNCHANGED <<manifest, attempts, made>>
    BY <1>12 DEF Delete
  <2> QED
    BY <2>1, <2>2, SaverDeleting
<1> QED
  BY <1>1, <1>2, <1>3, <1>4, <1>5, <1>6, <1>8, <1>9, <1>10, <1>11, <1>12, <1>13, <1>14 DEF Write

LEMMA OtherSaverInv ==
  ASSUME SaverInv, RevInv', NEW w \in Owners,
         Detach(w) \/ Touch(w) \/ Renew(w) \/ Crash(w)
  PROVE  SaverInv'
<1>0. /\ st[w] \in Sessions /\ SaverSound(w, st[w], manifest, made, attempts)
      /\ DataWhole(manifest) /\ SeenCurrent /\ manifest \in Manifests /\ attempts \in Nat
  BY SaverTypes DEF SaverInv
<1>n. DataWhole(NoManifest)
  BY DEF DataWhole, NoManifest, Exists
<1>a. ASSUME NEW s, st' = [st EXCEPT ![w] = s], UNCHANGED <<manifest, attempts, made>>,
             s.pc \in {"releaseDelete", "touchPut", "crashed"}, s.op = "none",
             DataWhole(s.seen), s.base = {}, s.pc = "touchPut" => Exists(manifest)
      PROVE  SaverInv'
  <2>1. SaverSound(w, s, manifest, made, attempts)
    BY <1>a DEF SaverSound, Working, Attaching, PendingPCs
  <2> QED
    BY <1>a, <2>1, SaverLocal
<1>1. CASE ReleaseRead(w)
  <2>1. CASE lease.owner = w /\ ~Does(w, "ownerless")
    <3> DEFINE s == [Unmounted EXCEPT !.pc = "releaseDelete"]
    <3>1. s.pc = "releaseDelete" /\ s.op = "none" /\ s.seen = NoManifest /\ s.base = {}
      BY DEF Unmounted
    <3>2. st' = [st EXCEPT ![w] = s] /\ UNCHANGED <<manifest, attempts, made>>
      BY <1>1, <2>1 DEF ReleaseRead
    <3> HIDE DEF s
    <3> QED
      BY <1>a, <1>n, <3>1, <3>2
  <2>2. CASE ~(lease.owner = w /\ ~Does(w, "ownerless"))
    BY <1>1, <2>2, SaverForget DEF ReleaseRead
  <2> QED
    BY <2>1, <2>2
<1>2. CASE ReleaseDelete(w) \/ DetachFails(w) \/ TouchRefused(w)
  BY <1>2, SaverForget DEF ReleaseDelete, DetachFails, TouchRefused
<1>3. CASE TouchRead(w)
  <2> DEFINE s == [st[w] EXCEPT !.pc = "touchPut", !.seen = manifest]
  <2>1. st' = [st EXCEPT ![w] = s] /\ UNCHANGED <<manifest, attempts, made>>
        /\ st[w] = Unmounted /\ Exists(manifest)
    BY <1>0, <1>3 DEF TouchRead, SaverSound
  <2>2. s.pc = "touchPut" /\ s.op = "none" /\ s.seen = manifest /\ s.base = {}
    BY <2>1 DEF Unmounted
  <2> HIDE DEF s
  <2> QED
    BY <1>0, <1>a, <2>1, <2>2
<1>4. CASE TouchPut(w)
  <2>1. /\ st[w].seen = manifest /\ attempts' = attempts + 1 /\ made' = made
        /\ manifest' = [manifest EXCEPT !.rev = attempts + 1]
        /\ st' = [st EXCEPT ![w] = Unmounted]
    BY <1>0, <1>4 DEF TouchPut, SeenCurrent, Forget
  <2>2. /\ manifest'.treeEncryption = manifest.treeEncryption
        /\ manifest'.imageEncryption = manifest.imageEncryption
        /\ manifest'.format = manifest.format /\ manifest'.generation = manifest.generation
        /\ manifest'.rev = attempts + 1
    BY <1>0, <2>1 DEF Manifests
  <2>3. manifest.rev <= attempts /\ manifest.rev \in Nat
        /\ manifest.treeEncryption \in 0 .. attempts /\ attempts' \in Nat
        /\ attempts <= attempts'
    BY <2>1, SaverTypes
  <2>4. manifest.generation # 0
    <3>1. Exists(manifest)
      BY <1>0, <1>4 DEF TouchPut, SaverSound
    <3> QED
      BY <1>0, <3>1 DEF DataWhole
  <2>5. DataWhole(manifest') /\ Exists(manifest')
    BY <1>0, <2>2, <2>3, <2>4 DEF DataWhole, Exists
  <2>6. SaverSound(w, Unmounted, manifest', made', attempts')
    BY UnmountedSaver
  <2>7. made[0] = {} /\ \A b \in 0 .. MaxAttempt : made[b] \subseteq 1 .. b
    BY DEF SaverInv
  <2> QED
    BY <2>1, <2>2, <2>3, <2>5, <2>6, <2>7, SaverStep
<1>5. CASE Renew(w)
  BY <1>5 DEF Renew, SaverInv
<1>6. CASE Crash(w)
  <2> DEFINE s == [Unmounted EXCEPT !.pc = "crashed"]
  <2>1. s.pc = "crashed" /\ s.op = "none" /\ s.seen = NoManifest /\ s.base = {}
    BY DEF Unmounted
  <2>2. st' = [st EXCEPT ![w] = s] /\ UNCHANGED <<manifest, attempts, made>>
    BY <1>6 DEF Crash
  <2> HIDE DEF s
  <2> QED
    BY <1>a, <1>n, <2>1, <2>2
<1> QED
  BY <1>1, <1>2, <1>3, <1>4, <1>5, <1>6 DEF Detach, Touch

LEMMA NextSaverInv ==
  ASSUME OneSaver
  PROVE  SaverInv /\ [Next]_vars => SaverInv'
<1> SUFFICES ASSUME SaverInv, [Next]_vars
             PROVE  SaverInv'
  OBVIOUS
<1>0. RevInv'
  BY NextRevInv DEF SaverInv
<1>1. ASSUME NEW w \in Owners,
             Attach(w) \/ Write(w) \/ Detach(w) \/ Touch(w) \/ Renew(w) \/ Crash(w)
      PROVE  SaverInv'
  BY <1>0, <1>1, AttachSaverInv, WriteSaverInv, OtherSaverInv
<1>2. CASE Expire
  BY <1>0, <1>2 DEF Expire, SaverInv
<1>3. CASE UNCHANGED vars
  BY <1>0, <1>3 DEF vars, SaverInv
<1> QED
  BY <1>1, <1>2, <1>3 DEF Next

LEMMA InitSaverInv == Init => SaverInv
<1> SUFFICES ASSUME Init PROVE SaverInv
  OBVIOUS
<1>1. RevInv
  BY InitRevInv
<1>2. ASSUME NEW w \in Owners
      PROVE  SaverSound(w, st[w], manifest, made, attempts)
  <2>1. SaverSound(w, Unmounted, manifest, made, attempts)
    BY UnmountedSaver
  <2> QED
    BY <2>1 DEF Init
<1>3. DataWhole(manifest)
  BY DEF Init, DataWhole, NoManifest, Exists
<1>4. made[0] = {} /\ \A b \in 0 .. MaxAttempt : made[b] \subseteq 1 .. b
  BY DEF Init
<1> QED
  BY <1>1, <1>2, <1>3, <1>4 DEF SaverInv

LEMMA StepMapsSaver ==
  ASSUME SaverInv, [Next]_vars, OneSaver
  PROVE  (Atomic!AtomicNext \/ Head' = Head) /\ CurrentEdits \subseteq CurrentEdits'
<1>1. /\ RevInv /\ TypeInv /\ manifest.treeEncryption \in 0 .. attempts
      /\ attempts \in Nat /\ attempts <= MaxAttempt /\ manifest \in Manifests
      /\ made \in [0 .. MaxAttempt -> SUBSET Attempts] /\ DataWhole(manifest)
      /\ made[0] = {} /\ \A b \in 0 .. MaxAttempt : made[b] \subseteq 1 .. b
      /\ manifest.rev \in Nat
  BY SaverTypes DEF SaverInv
<1>2. \A b \in 0 .. attempts : made'[b] = made[b]
  BY <1>1, MadeKept
<1>3. ASSUME NEW w \in Owners, st[w].pc = "commit", CommitCondition(w),
             manifest' = Updated(w)
      PROVE  Atomic!AtomicNext /\ CurrentEdits \subseteq CurrentEdits'
  <2> DEFINE a == st[w].attempt
             base == st[w].base
  <2>0. /\ SaverSound(w, st[w], manifest, made, attempts) /\ st[w].pc \in PendingPCs
        /\ a \in 1 .. attempts /\ st[w].seen.rev < a
    BY <1>1, <1>3, SaverTypes DEF SaverInv, Pending, PendingPCs, TypeInv, AttemptsBound
  <2>1. /\ st[w].seen = manifest /\ manifest'.treeEncryption = a
        /\ \/ /\ st[w].op = "create" /\ manifest = NoManifest
              /\ manifest'.generation = 1 /\ manifest'.checkpointGeneration = 0
           \/ /\ st[w].op = "save" /\ Exists(manifest) /\ Saves(w)
              /\ manifest'.generation = manifest.generation + 1
              /\ manifest'.checkpointGeneration = manifest.checkpointGeneration
           \/ /\ st[w].op = "checkpoint" /\ Exists(manifest) /\ Saves(w)
              /\ manifest'.generation = manifest.generation
              /\ manifest'.checkpointGeneration = manifest.checkpointGeneration + 1
    BY <1>3, CommitSaver
  <2>2. CurrentEdits' = base /\ a \in base /\ made[a] = base
    <3>1. made'[a] = made[a]
      BY <1>1, <1>2, <2>0
    <3> QED
      BY <2>0, <2>1, <3>1 DEF CurrentEdits, SaverSound
  <2>3. a \in Attempts /\ base \in SUBSET Attempts
    <3>1. a \in 0 .. MaxAttempt /\ a \in Attempts
      BY <1>1, <2>0 DEF Attempts
    <3> QED
      BY <1>1, <2>2, <3>1
  <2>4. a \notin CurrentEdits
    <3>1. /\ manifest.treeEncryption \in 0 .. MaxAttempt
          /\ manifest.treeEncryption <= manifest.rev /\ manifest.rev < a
      BY <1>1, <2>0, <2>1 DEF DataWhole
    <3>2. CurrentEdits \subseteq 1 .. manifest.treeEncryption
      BY <1>1, <3>1 DEF CurrentEdits
    <3> QED
      BY <1>1, <2>0, <3>1, <3>2
  <2>5. CASE st[w].op = "create"
    <3>1. manifest = NoManifest /\ base = {a}
      BY <2>0, <2>1, <2>5 DEF SaverSound
    <3>2. /\ manifest.generation = 0 /\ manifest.checkpointGeneration = 0
          /\ manifest.treeEncryption = 0
      BY <3>1 DEF NoManifest
    <3>3. CurrentEdits = {}
      BY <1>1, <3>2 DEF CurrentEdits
    <3>4. manifest'.generation = 1 /\ manifest'.checkpointGeneration = 0
      BY <2>1, <2>5
    <3> QED
      BY <2>2, <2>3, <2>4, <3>1, <3>2, <3>3, <3>4, HeadMaps
  <2>6. CASE st[w].op \in {"save", "checkpoint"}
    <3>1. CurrentEdits \subseteq base /\ manifest.generation # 0
      BY <1>1, <2>0, <2>1, <2>6 DEF SaverSound, Working, CurrentEdits, DataWhole
    <3> QED
      BY <2>1, <2>2, <2>3, <2>4, <2>6, <3>1, HeadMaps
  <2> QED
    BY <2>1, <2>5, <2>6
<1>4. made'[manifest.treeEncryption] = CurrentEdits
  BY <1>1, <1>2 DEF CurrentEdits
<1> QED
  BY <1>1, <1>3, <1>4, HeadKept

(***************************************************************************)
(* One session that creates, saves and checkpoints loses nothing, whatever *)
(* other sessions that do not save do to the lock, and whatever expires,   *)
(* crashes, fails or is carried out without an answer.                     *)
(***************************************************************************)
THEOREM ImplementsAlone == ASSUME OneSaver PROVE Spec => ImplementsAtomic
<1>1. Init => SaverInv
  BY InitSaverInv
<1>2. SaverInv /\ [Next]_vars => SaverInv'
  BY NextSaverInv
<1>3. Init => Atomic!AtomicInit
  BY InitHead
<1>4. SaverInv /\ [Next]_vars => [Atomic!AtomicNext]_Head
  BY StepMapsSaver
<1> QED
  BY <1>1, <1>2, <1>3, <1>4, PTL DEF Spec, ImplementsAtomic, Atomic!AtomicSpec, Head

=============================================================================
