--------------------------- MODULE ContextCommit ---------------------------
(***************************************************************************)
(* The data of one context (src/src/context.ts): sessions that create,     *)
(* attach, save, checkpoint and detach over an object store that holds     *)
(* encrypted data objects, one manifest that points at the current ones,   *)
(* and the lock.  Every request to the store is a step of its own; the     *)
(* manifest is replaced by compare-and-swap.                               *)
(*                                                                         *)
(* An upload is identified by the attempt that encrypted it: the value of  *)
(* an object is the attempt whose ciphertext it holds (0: no object), and  *)
(* a manifest decrypts an object when it records that attempt's encryption *)
(* metadata.  The lock is the lease register ContextLock implements.       *)
(***************************************************************************)
EXTENDS LeaseRegister, Integers

CONSTANTS Roles,      \* what the caller of each owner does with the context
          Faults,     \* what may go wrong
          MaxAttempt  \* bound on the number of manifests anybody tries to write

RoleNames == {"create", "recreate", "save", "checkpoint", "touch",
              "ext4",        \* creates contexts of format ext4
              "loopExt4",    \* its runtime can loop-mount ext4 images too (E2B)
              "ownerless",   \* saves carry no owner (the CLI)
              "forceUnlock"} \* attaches with forceUnlock

FaultNames == {"expire", "crash", "putFail", "lostAck", "deleteFail", "runtimeFail"}

ASSUME CommitAssumption ==
  /\ Roles \in [Owners -> SUBSET RoleNames]
  /\ Faults \subseteq FaultNames
  /\ MaxAttempt \in Nat

VARIABLES objects,   \* per data key, the attempt whose ciphertext it holds
          manifest,  \* the manifest object; its rev is its etag
          attempts,  \* attempts used so far
          made,      \* history: the edits in the tree each attempt packed
          st         \* what each owner's process is doing

vars == <<lease, objects, manifest, attempts, made, st>>

Attempts == 1 .. MaxAttempt

Keys == {"tree", "image", "checkpoint"} \X (0 .. MaxAttempt)

TreeKey(a) == <<"tree", a>>
ImageKey(a) == <<"image", a>>
CheckpointKey(n) == <<"checkpoint", n>>

Manifests == [generation: 0 .. MaxAttempt, checkpointGeneration: 0 .. MaxAttempt,
              format: {"tree", "ext4"},
              treeKey: Keys, treeEncryption: 0 .. MaxAttempt,
              imageKey: Keys, imageEncryption: 0 .. MaxAttempt,
              rev: 0 .. MaxAttempt]

NoManifest == [generation |-> 0, checkpointGeneration |-> 0, format |-> "tree",
               treeKey |-> TreeKey(0), treeEncryption |-> 0,
               imageKey |-> ImageKey(0), imageEncryption |-> 0, rev |-> 0]

Exists(m) == m.rev # 0

PCs == {"idle", "attachLock", "attachFetch", "attachFail", "mounted",
        "readManifest", "pack", "putTree", "putImage", "reassert", "commit",
        "list", "cleanup", "releaseDelete", "touchPut", "crashed"}

Sessions == [pc: PCs,
             op: {"none", "create", "recreate", "save", "checkpoint"},
             seen: Manifests,            \* the manifest this operation read
             attempt: 0 .. MaxAttempt,   \* the attempt it is on
             image: BOOLEAN,             \* it uploads an ext4 image too
             written: SUBSET Keys,       \* writtenKeys
             doomed: SUBSET Keys,        \* keys it is deleting
             base: SUBSET Attempts,      \* the edits in the mounted sandbox
             loop: BOOLEAN,              \* mounted.mode is "loopExt4"
             adopted: BOOLEAN]           \* the attach adopted a lock it held

Unmounted == [pc |-> "idle", op |-> "none", seen |-> NoManifest, attempt |-> 0,
              image |-> FALSE, written |-> {}, doomed |-> {}, base |-> {}, loop |-> FALSE,
              adopted |-> FALSE]

Init ==
  /\ LeaseInit
  /\ objects = [k \in Keys |-> 0]
  /\ manifest = NoManifest
  /\ attempts = 0
  /\ made = [a \in 0 .. MaxAttempt |-> {}]
  /\ st = [w \in Owners |-> Unmounted]

Does(w, role) == role \in Roles[w]

Goto(w, pc) == st' = [st EXCEPT ![w] = [@ EXCEPT !.pc = pc]]

Forget(w) == st' = [st EXCEPT ![w] = Unmounted]

(***************************************************************************)
(* The operation of w is over: a create leaves nothing behind, a save or   *)
(* checkpoint returns to the mounted session.                              *)
(***************************************************************************)
Rested(w) ==
  IF st[w].op \in {"create", "recreate"} THEN Unmounted
  ELSE [Unmounted EXCEPT !.pc = "mounted", !.base = st[w].base, !.loop = st[w].loop]

(***************************************************************************)
(* w goes on to delete keys, one request at a time in any order            *)
(* (Promise.allSettled), and is done when none is left.                    *)
(***************************************************************************)
Deleting(w, keys) ==
  IF keys = {} THEN Rested(w)
  ELSE [st[w] EXCEPT !.pc = "cleanup", !.doomed = keys]

-----------------------------------------------------------------------------
(* attachContext *)

AttachRead(w) ==
  /\ st[w].pc = "idle"
  /\ Exists(manifest)
  /\ st' = [st EXCEPT ![w] = [@ EXCEPT !.pc = "attachLock", !.seen = manifest]]
  /\ UNCHANGED <<lease, objects, manifest, attempts, made>>

AttachRefused(w) ==
  /\ st[w].pc = "attachLock"
  /\ Blocks(w)
  /\ Forget(w)
  /\ UNCHANGED <<lease, objects, manifest, attempts, made>>

AttachLock(w) ==
  /\ st[w].pc = "attachLock"
  /\ Grant(w, TRUE)
  /\ st' = [st EXCEPT ![w] = [@ EXCEPT !.pc = "attachFetch",
                                       !.adopted = (lease = [owner |-> w, live |-> TRUE])]]
  /\ UNCHANGED <<objects, manifest, attempts, made>>

AttachForce(w) ==
  /\ st[w].pc = "attachLock"
  /\ Does(w, "forceUnlock")
  /\ Seize(w, TRUE)
  /\ Goto(w, "attachFetch")
  /\ UNCHANGED <<objects, manifest, attempts, made>>

(* Every runtime of the repository takes directory bundles; one that can also
   loop-mount does so with a context whose current data is an ext4 image. *)
LoopMounts(w) == Does(w, "loopExt4") /\ st[w].seen.format = "ext4"

Source(w) ==
  IF LoopMounts(w)
  THEN [key |-> st[w].seen.imageKey, encryption |-> st[w].seen.imageEncryption]
  ELSE [key |-> st[w].seen.treeKey, encryption |-> st[w].seen.treeEncryption]

AttachFetch(w) ==
  /\ st[w].pc = "attachFetch"
  /\ objects[Source(w).key] = Source(w).encryption
  /\ st' = [st EXCEPT ![w] = [Unmounted EXCEPT !.pc = "mounted", !.loop = LoopMounts(w),
                                               !.base = made[Source(w).encryption]]]
  /\ UNCHANGED <<lease, objects, manifest, attempts, made>>

AttachBroken(w) ==
  /\ st[w].pc = "attachFetch"
  /\ \/ objects[Source(w).key] # Source(w).encryption
     \/ "runtimeFail" \in Faults
  /\ Goto(w, "attachFail")
  /\ UNCHANGED <<lease, objects, manifest, attempts, made>>

(* The catch block releases by force, whoever holds the lock by now. *)
AttachAbort(w) ==
  /\ st[w].pc = "attachFail"
  /\ IF st[w].adopted THEN UNCHANGED lease ELSE Drop
  /\ Forget(w)
  /\ UNCHANGED <<objects, manifest, attempts, made>>

-----------------------------------------------------------------------------
(* createContext, saveContext and checkpointContextSession up to the manifest *)

(* The head request, and the previous manifest when there is one. *)
CreateStart(w, op) ==
  /\ st[w].pc = "idle"
  /\ Does(w, op)
  /\ op = "create" => ~Exists(manifest)
  /\ st' = [st EXCEPT ![w] = [@ EXCEPT !.pc = "pack", !.op = op, !.seen = manifest]]
  /\ UNCHANGED <<lease, objects, manifest, attempts, made>>

(* assertLockOwnership lets an absent lock pass, and one's own even when it
   has expired. *)
OwnershipHolds(w) == Does(w, "ownerless") \/ lease.owner \in {w, NoOwner}

SaveStart(w, op) ==
  /\ st[w].pc = "mounted"
  /\ Does(w, op)
  /\ OwnershipHolds(w)
  /\ st' = [st EXCEPT ![w] = [@ EXCEPT !.pc = "readManifest", !.op = op]]
  /\ UNCHANGED <<lease, objects, manifest, attempts, made>>

ReadManifest(w) ==
  /\ st[w].pc = "readManifest"
  /\ st' = [st EXCEPT ![w] = [@ EXCEPT !.pc = "pack", !.seen = manifest]]
  /\ UNCHANGED <<lease, objects, manifest, attempts, made>>

PersistsImage(w) ==
  \/ st[w].op \in {"create", "recreate"} /\ Does(w, "ext4")
  \/ /\ st[w].op = "save" /\ st[w].loop
     /\ st[w].seen.format = "ext4" \/ st[w].seen.imageEncryption # 0

(* Snapshot, pack, download and encrypt: a new attempt, with a new edit of
   the session on top of what its sandbox holds. *)
Pack(w) ==
  LET a == attempts + 1
      edits == st[w].base \cup {a} IN
  /\ st[w].pc = "pack"
  /\ a <= MaxAttempt
  /\ attempts' = a
  /\ made' = [made EXCEPT ![a] = edits]
  /\ st' = [st EXCEPT ![w] = [@ EXCEPT !.pc = "putTree", !.attempt = a,
                                       !.image = PersistsImage(w), !.base = edits]]
  /\ UNCHANGED <<lease, objects, manifest>>

(* Also when MaxAttempt is used up, so that the bound blocks nobody. *)
PackFails(w) ==
  /\ st[w].pc = "pack"
  /\ "runtimeFail" \in Faults \/ attempts = MaxAttempt
  /\ st' = [st EXCEPT ![w] = Rested(w)]
  /\ UNCHANGED <<lease, objects, manifest, attempts, made>>

(* MUTANT TargetKeyByGeneration: data keys carry no attempt suffix. *)
TargetKeyByGeneration(w) ==
  IF st[w].op = "checkpoint" THEN CheckpointKey(st[w].seen.checkpointGeneration + 1)
  ELSE TreeKey(st[w].seen.generation + 1)

(* Saves and creates write under a key of their attempt; a checkpoint writes
   under the next checkpoint number of the manifest it read. *)
TargetKey(w) ==
  IF st[w].op = "checkpoint" THEN CheckpointKey(st[w].seen.checkpointGeneration + 1)
  ELSE TreeKey(st[w].attempt)

BeforeCommit(w) == IF st[w].op \in {"save", "checkpoint"} THEN "reassert" ELSE "commit"

Put(w, key) == objects' = [objects EXCEPT ![key] = st[w].attempt]

PutTree(w) ==
  /\ st[w].pc = "putTree"
  /\ Put(w, TargetKey(w))
  /\ st' = [st EXCEPT ![w] = [@ EXCEPT !.pc = IF st[w].image THEN "putImage" ELSE BeforeCommit(w),
                                       !.written = {TargetKey(w)}]]
  /\ UNCHANGED <<lease, manifest, attempts, made>>

PutImage(w) ==
  /\ st[w].pc = "putImage"
  /\ Put(w, ImageKey(st[w].attempt))
  /\ st' = [st EXCEPT ![w] = [@ EXCEPT !.pc = BeforeCommit(w),
                                       !.written = st[w].written \cup {ImageKey(st[w].attempt)}]]
  /\ UNCHANGED <<lease, manifest, attempts, made>>

(* MUTANT RolledBackNothing: the catch block only rethrows. *)
RolledBackNothing(w) == {}

(* What the catch block deletes: the keys whose puts returned, or the key of
   the checkpoint whether it was written or not. *)
RolledBack(w) == IF st[w].op = "checkpoint" THEN {TargetKey(w)} ELSE st[w].written

Abort(w) == st' = [st EXCEPT ![w] = Deleting(w, RolledBack(w))]

(* A data put is reported as failed: it did not land, or its answer was lost. *)
PutDataFails(w) ==
  /\ st[w].pc \in {"putTree", "putImage"}
  /\ \/ "putFail" \in Faults /\ UNCHANGED objects
     \/ /\ "lostAck" \in Faults
        /\ Put(w, IF st[w].pc = "putTree" THEN TargetKey(w) ELSE ImageKey(st[w].attempt))
  /\ Abort(w)
  /\ UNCHANGED <<lease, manifest, attempts, made>>

Reassert(w) ==
  /\ st[w].pc = "reassert"
  /\ OwnershipHolds(w)
  /\ Goto(w, "commit")
  /\ UNCHANGED <<lease, objects, manifest, attempts, made>>

ReassertFails(w) ==
  /\ st[w].pc = "reassert"
  /\ ~OwnershipHolds(w)
  /\ Abort(w)
  /\ UNCHANGED <<lease, objects, manifest, attempts, made>>

-----------------------------------------------------------------------------
(* The commit: one write of the manifest, and what is deleted after it *)

(* MUTANT CommitBlind: the manifest is put without a condition. *)
CommitBlind(w) == TRUE

(* Create: ifNoneMatch; recreate (force): no condition; save and checkpoint:
   ifMatch on the manifest read. *)
CommitCondition(w) == st[w].op = "recreate" \/ manifest.rev = st[w].seen.rev

Created(w) ==
  LET a == st[w].attempt IN
  [generation |-> 1, checkpointGeneration |-> 0,
   format |-> IF st[w].image THEN "ext4" ELSE "tree",
   treeKey |-> TargetKey(w), treeEncryption |-> a,
   imageKey |-> ImageKey(a), imageEncryption |-> IF st[w].image THEN a ELSE 0,
   rev |-> a]

(* MUTANT SavedTwice: the generation is advanced by the snapshot and again here. *)
SavedTwice(w) ==
  [st[w].seen EXCEPT !.generation = @ + 2, !.treeKey = TargetKey(w),
                     !.treeEncryption = st[w].attempt, !.rev = st[w].attempt]

Saved(w) ==
  LET a == st[w].attempt
      m == st[w].seen
      image == st[w].image IN
  [m EXCEPT !.generation = @ + 1,
            !.format = IF m.format = "ext4" /\ image THEN "ext4" ELSE "tree",
            !.treeKey = TargetKey(w), !.treeEncryption = a,
            !.imageKey = IF image THEN ImageKey(a) ELSE @,
            !.imageEncryption = IF image THEN a ELSE @,
            !.rev = a]

Checkpointed(w) ==
  [st[w].seen EXCEPT !.checkpointGeneration = @ + 1, !.format = "tree",
                     !.treeKey = TargetKey(w), !.treeEncryption = st[w].attempt,
                     !.rev = st[w].attempt]

Updated(w) ==
  CASE st[w].op \in {"create", "recreate"} -> Created(w)
    [] st[w].op = "save" -> Saved(w)
    [] st[w].op = "checkpoint" -> Checkpointed(w)

(* MUTANT IsReplaceableAny: checkpoints are collected too. *)
IsReplaceableAny(key) == TRUE

(* isReplaceableDataKey *)
IsReplaceable(key) == key[1] # "checkpoint"

(* MUTANT SupersededNever: nothing is collected. *)
SupersededNever(w) == {}

(* gcSupersededDataObjects: the data of the manifest read, where the new one
   no longer points at it; checkpoints stay. *)
Superseded(w) ==
  LET m == st[w].seen
      u == Updated(w) IN
  IF Exists(m)
  THEN {k \in {m.treeKey, m.imageKey} \ {u.treeKey, u.imageKey} : IsReplaceable(k)}
  ELSE {}

(* MUTANT PrunesNever: force-create collects like any other commit. *)
PrunesNever(w) == FALSE

Prunes(w) == st[w].op = "recreate" /\ Exists(st[w].seen)

Commit(w) ==
  /\ st[w].pc = "commit"
  /\ CommitCondition(w)
  /\ manifest' = Updated(w)
  /\ IF Prunes(w) THEN Goto(w, "list")
     ELSE st' = [st EXCEPT ![w] = Deleting(w, Superseded(w))]
  /\ UNCHANGED <<lease, objects, attempts, made>>

CommitRefused(w) ==
  /\ st[w].pc = "commit"
  /\ ~CommitCondition(w)
  /\ Abort(w)
  /\ UNCHANGED <<lease, objects, manifest, attempts, made>>

(* The manifest put is reported as failed: it did not land, or it did and its
   answer was lost.  Either way the data it points at is rolled back. *)
CommitFails(w) ==
  /\ st[w].pc = "commit"
  /\ \/ "putFail" \in Faults /\ UNCHANGED manifest
     \/ "lostAck" \in Faults /\ CommitCondition(w) /\ manifest' = Updated(w)
  /\ Abort(w)
  /\ UNCHANGED <<lease, objects, attempts, made>>

(* MUTANT ListedAll: the new data is not spared. *)
ListedAll(w) == {k \in Keys : objects[k] # 0}

(* pruneContextDataObjects lists everything there is, then deletes it. *)
Listed(w) ==
  {k \in Keys : objects[k] # 0} \ {TreeKey(st[w].attempt), ImageKey(st[w].attempt)}

List(w) ==
  /\ st[w].pc = "list"
  /\ st' = [st EXCEPT ![w] = Deleting(w, Listed(w))]
  /\ UNCHANGED <<lease, objects, manifest, attempts, made>>

(* A failed delete is only warned about. *)
Delete(w) ==
  /\ st[w].pc = "cleanup"
  /\ \E k \in st[w].doomed :
       /\ \/ objects' = [objects EXCEPT ![k] = 0]
          \/ "deleteFail" \in Faults /\ UNCHANGED objects
       /\ st' = [st EXCEPT ![w] = Deleting(w, st[w].doomed \ {k})]
  /\ UNCHANGED <<lease, manifest, attempts, made>>

-----------------------------------------------------------------------------
(* detachContext: releaseLock reads the lock, then deletes it *)

ReleaseRead(w) ==
  /\ st[w].pc = "mounted"
  /\ IF lease.owner = w /\ ~Does(w, "ownerless")
     THEN st' = [st EXCEPT ![w] = [Unmounted EXCEPT !.pc = "releaseDelete"]]
     ELSE Forget(w)
  /\ UNCHANGED <<lease, objects, manifest, attempts, made>>

ReleaseDelete(w) ==
  /\ st[w].pc = "releaseDelete"
  /\ Drop
  /\ Forget(w)
  /\ UNCHANGED <<objects, manifest, attempts, made>>

(* The detach script fails, the exception skips releaseLock. *)
DetachFails(w) ==
  /\ st[w].pc = "mounted"
  /\ "runtimeFail" \in Faults
  /\ Forget(w)
  /\ UNCHANGED <<lease, objects, manifest, attempts, made>>

-----------------------------------------------------------------------------
(* Around the operations: lock renewal, runtime state, crashes and time *)

Renew(w) ==
  /\ st[w].pc \notin {"idle", "attachLock", "releaseDelete", "crashed"}
  /\ ~lease.live
  /\ Extend(w, TRUE)
  /\ UNCHANGED <<objects, manifest, attempts, made, st>>

(* updateManifestRuntimeState, which runs after the lock is released.  A
   conflict reads again or gives up after five attempts. *)
TouchRead(w) ==
  /\ st[w].pc = "idle"
  /\ Does(w, "touch")
  /\ Exists(manifest)
  /\ st' = [st EXCEPT ![w] = [@ EXCEPT !.pc = "touchPut", !.seen = manifest]]
  /\ UNCHANGED <<lease, objects, manifest, attempts, made>>

TouchPut(w) ==
  /\ st[w].pc = "touchPut"
  /\ attempts < MaxAttempt
  /\ manifest.rev = st[w].seen.rev
  /\ attempts' = attempts + 1
  /\ manifest' = [st[w].seen EXCEPT !.rev = attempts + 1]
  /\ Forget(w)
  /\ UNCHANGED <<lease, objects, made>>

TouchRefused(w) ==
  /\ st[w].pc = "touchPut"
  /\ manifest.rev # st[w].seen.rev \/ attempts = MaxAttempt
  /\ Forget(w)
  /\ UNCHANGED <<lease, objects, manifest, attempts, made>>

Crash(w) ==
  /\ "crash" \in Faults
  /\ st[w].pc \notin {"idle", "crashed"}
  /\ st' = [st EXCEPT ![w] = [Unmounted EXCEPT !.pc = "crashed"]]
  /\ UNCHANGED <<lease, objects, manifest, attempts, made>>

Expire ==
  /\ "expire" \in Faults
  /\ Lapse
  /\ UNCHANGED <<objects, manifest, attempts, made, st>>

Attach(w) ==
  \/ AttachRead(w) \/ AttachRefused(w) \/ AttachLock(w) \/ AttachForce(w)
  \/ AttachFetch(w) \/ AttachBroken(w) \/ AttachAbort(w)

Write(w) ==
  \/ \E op \in {"create", "recreate"} : CreateStart(w, op)
  \/ \E op \in {"save", "checkpoint"} : SaveStart(w, op)
  \/ ReadManifest(w) \/ Pack(w) \/ PackFails(w)
  \/ PutTree(w) \/ PutImage(w) \/ PutDataFails(w)
  \/ Reassert(w) \/ ReassertFails(w)
  \/ Commit(w) \/ CommitRefused(w) \/ CommitFails(w)
  \/ List(w) \/ Delete(w)

Detach(w) == ReleaseRead(w) \/ ReleaseDelete(w) \/ DetachFails(w)

Touch(w) == TouchRead(w) \/ TouchPut(w) \/ TouchRefused(w)

Next ==
  \/ \E w \in Owners : Attach(w) \/ Write(w) \/ Detach(w) \/ Touch(w) \/ Renew(w) \/ Crash(w)
  \/ Expire

Spec == Init /\ [][Next]_vars

-----------------------------------------------------------------------------
(* Properties *)

TypeOK ==
  /\ lease \in Leases
  /\ objects \in [Keys -> 0 .. MaxAttempt]
  /\ manifest \in Manifests
  /\ attempts \in 0 .. MaxAttempt
  /\ made \in [0 .. MaxAttempt -> SUBSET Attempts]
  /\ st \in [Owners -> Sessions]

(***************************************************************************)
(* "A manifest that exists always points at ciphertext its recorded        *)
(* encryption metadata can decrypt" (src/src/context.ts:318): at every     *)
(* moment, whoever crashes, the tree the manifest names is there and is    *)
(* the one its metadata belongs to, and so is the image if there is one.   *)
(***************************************************************************)
ManifestReadable ==
  /\ objects[manifest.treeKey] = manifest.treeEncryption
  /\ manifest.imageEncryption # 0 =>
       objects[manifest.imageKey] = manifest.imageEncryption

(***************************************************************************)
(* A forced create deletes by listing, without the lock (src/src/          *)
(* context.ts:137-143).  What it has committed itself stays readable,      *)
(* also while it prunes and while sessions attached to the old context     *)
(* save, collect and roll back.  A save on top of it may lose its data to   *)
(* the prune.                                                              *)
(***************************************************************************)
CreatedReadable == manifest.generation = 1 => ManifestReadable

(***************************************************************************)
(* Every checkpoint number the manifest has counted still has its object:  *)
(* neither garbage collection nor the rollback of a failed checkpoint      *)
(* takes a committed checkpoint.                                           *)
(***************************************************************************)
CheckpointsKept ==
  \A n \in 1 .. manifest.checkpointGeneration : objects[CheckpointKey(n)] # 0

(***************************************************************************)
(* Nothing is left behind: an object in the store is one the manifest      *)
(* points at, a committed checkpoint, or in the hands of an operation that *)
(* is still running (a recreation takes hold of the old data when it lists *)
(* it).                                                                    *)
(***************************************************************************)
InUse ==
  {manifest.treeKey, manifest.imageKey}
    \cup {CheckpointKey(n) : n \in 1 .. manifest.checkpointGeneration}
    \cup UNION {st[w].written \cup st[w].doomed : w \in Owners}

NoGarbage ==
  (\A w \in Owners : st[w].pc # "list") => {k \in Keys : objects[k] # 0} \subseteq InUse

(***************************************************************************)
(* The manifests form one sequence: each is derived from the one it        *)
(* replaces, whoever wrote that, and advances either the generation or the *)
(* checkpoint generation by one, or only the runtime state; only a forced  *)
(* create starts again at generation 1.                                    *)
(***************************************************************************)
Follows(m, n) ==
  \/ n.generation = m.generation + 1 /\ n.checkpointGeneration = m.checkpointGeneration
  \/ n.generation = m.generation /\ n.checkpointGeneration = m.checkpointGeneration + 1
  \/ n = [m EXCEPT !.rev = n.rev]

Recreation == \E w \in Owners : Does(w, "recreate") /\ manifest' = Created(w)

SequentialCommits == [][Follows(manifest, manifest') \/ Recreation]_manifest

(***************************************************************************)
(* A commit never loses what another session committed before it: the      *)
(* edits in the current tree only grow.                                    *)
(***************************************************************************)
CurrentEdits == made[manifest.treeEncryption]

NoLostUpdate == [][CurrentEdits \subseteq CurrentEdits']_<<manifest, made>>

(***************************************************************************)
(* The context is an atomic context: creates, saves and checkpoints of     *)
(* concurrent sessions take effect one at a time, each on top of           *)
(* everything before it.                                                   *)
(***************************************************************************)
Atomic == INSTANCE AtomicContext WITH
  Edits <- Attempts,
  head <- [generation |-> manifest.generation,
           checkpointGeneration |-> manifest.checkpointGeneration,
           edits |-> CurrentEdits]

ImplementsAtomic == Atomic!AtomicSpec
=============================================================================
