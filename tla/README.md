# ContextSDK: models, checks and proofs

ContextSDK keeps the working directory of an agent, a *context*, encrypted in an object store and
mounts it in whatever sandbox the agent runs in next. Several processes on several hosts may work
with one context; they share nothing but the object store. This directory models the protocols
that make that safe, what happens inside of the sandbox, the heartbeat that keeps both alive and the broker
that companies put in front, checks them with TLC and proves their main invariants with TLAPS.

## 1. The system

| Component | State | Operations | Interacts with | What makes it correct |
|---|---|---|---|---|
| object storage (`src/storage.ts`, `src/s3-storage.ts`) | one body and etag per key | get, put (plain, `ifNoneMatch`, `ifMatch`), delete, head, list | everything | a conditional put replaces exactly the revision it names |
| file storage (`src/fs-storage.ts`) | files, sidecar etags, a lock directory with a heartbeat per key | the same | other processes on the same disk | the same contract, built from files |
| lock (`src/lock.ts`) | `lock.json`: owner, expiry | `acquireLock`, `renewLock`, `releaseLock`, `assertLockOwnership` | storage, clock | one session at a time believes it holds the context |
| commit protocol (`src/context.ts`, `src/paths.ts`) | data objects, `manifest.json` | `createContext`, `saveContext`, `checkpointContextSession`, garbage collection, prune, `updateManifestRuntimeState` | storage, lock, runtime | the manifest always points at data it can decrypt; commits form one sequence; nothing committed is lost; nothing is left behind |
| attach, detach, mount modes (`src/context.ts`, `src/scripts.ts`) | the mounted tree or image in the sandbox, the image file | `attachContext`, `detachContext`, the mode a save goes by | lock, storage, runtime | a session works on what is current when it holds the lock, and starts from exactly that |
| session queue (`src/context.ts`) | a promise chain per mounted session | `withSessionWriteLock` | saves, checkpoints | the writes of one session do not interleave |
| `runWithContext` (`src/context.ts`) | heartbeat counters, timers, recovery attempts, the session's runtime | run, heartbeat, emergency checkpoint, recover, finalize on a signal | all of the above, provisioner | the lock is held from attach to detach, also across sandboxes; runtimes are destroyed; work is saved |
| heartbeat (`startLockRenewalTimer`) | timer, calls under way | renew the lock, keep the sandbox alive | lock, adapters | lock and sandbox outlive the work, and neither comes back when it is over |
| runtime adapters (E2B, Vercel, Modal, SSH) | a sandbox handle; Vercel: the deadline it counts on | run, upload, download, keep alive, finalize | providers | a sandbox lives as long as its session |
| enterprise broker (`src/enterprise.ts`) | none but the audit trail | create, status, manifest, run, start, save and end a session, each under policy and quota | context functions, provisioners, policy engine, quota manager, audit sink | the trail and the answers are true; nothing is left behind unseen |
| versioning, persistence policy (`src/versioning.ts`, `src/persistence-policy.ts`) | `.contextsdk/index.json` in the sandbox | snapshot, diff, resolve a policy | save, packing | a version lists its tree and tells how it differs from the one before |
| tree bundle, archive checks (`src/tree-bundle.ts`, `src/scripts.ts`) | temporary files | pack, unpack, validate | attach, save | what is packed can be attached again |
| file manager, remote scripts | files in the sandbox | write, append, read; mount, save, detach scripts | runtime | paths stay below the mount |
| encryption (`src/crypto.ts`) | none | encrypt, decrypt a file | commit protocol | metadata and ciphertext of one encryption belong together |
| command line (`packages/cli`) | none between calls | the above, also without an owner or by force | everything | the same guarantees for manual use |
| configuration, probe, types | none | | | |
| validation scripts (`scripts/*.py`) | | stand-alone experiments | | |

The hard parts are these. Every function is a chain of requests, and anything may happen between
two of them: another session acts, the lock expires, the process dies. A put that fails may have
landed. The lock is advisory: data objects are written without it, and only the compare-and-swap on
the manifest orders commits. Deletes carry no condition. Garbage collection, rollback and prune
decide what to delete from what they read before. In the sandbox, each step is a script of its own, and the agent
writes between two of them; a mount point looks the same whether or not something is mounted on it. Calls of the
heartbeat overlap when they are slow. The audit sink can fail after the work is done. `PROJECT.json` lists these
hazards line by line.

## 2. The modules

| Module | Models | |
|---|---|---|
| `LeaseRegister` | what the lock promises: a lease that is granted when nobody else's is live | abstract specification, and the lock actions of `ContextCommit` |
| `ContextLock` | `src/lock.ts` | one action per request; refines `LeaseRegister` |
| `AtomicContext` | what a context promises: saves and checkpoints take effect one at a time, on top of each other | abstract specification |
| `ContextCommit` | create, attach, save, checkpoint, detach, garbage collection, runtime state | one action per request; extends `LeaseRegister`, refines `AtomicContext` |
| `FsStorage` | one object of `src/fs-storage.ts` and the processes that use it | one action per call to the file system |
| `SessionRun` | `runWithContext`: main flow, recovery, timers, heartbeat, write queues, signals | extends `LeaseRegister` |
| `Heartbeat` | `startLockRenewalTimer` against the clock, with `renewLock` and the adapters' `keepAlive` | one action per request and answer |
| `ContextTree` | policy, listing, packing, archive checks, unpacking, diff | operators only |
| `MountedSandbox` | attach, edits, save, checkpoint and detach as one sandbox sees them | extends `ContextTree`; one action per script |
| `EnterpriseBroker` | `src/enterprise.ts` | one action per call to policy and quota, sink and SDK |
| `MCContextLock`, `MCContextCommit`, `MCMountedSandbox`, `MCEnterpriseBroker` | the small instances the configurations check | |
| `ContextLockProofs`, `ContextCommitProofs`, `ContextAtomicProofs`, `FsStorageProofs`, `SessionRunProofs`, `HeartbeatProofs`, `EnterpriseBrokerProofs`, `MountedSandboxProofs` | theorems | |

`SessionRun` and `ContextCommit` both take the lock from `LeaseRegister`, which `ContextLock` implements; what
`SessionRun` knows of a commit is that the manifest put of an operation outdates what other operations have read.
`Heartbeat` looks into what `SessionRun` takes for granted, that a timer that runs renews in time; `MountedSandbox` into
what `ContextCommit` takes for granted, that an attempt packs the session's tree.

**`ContextLock`.** `lock` is the lock object; its `rev` stands for the etag, and a new one is handed
out by every put. `op[c]` is what caller `c` is doing: it has taken its time stamp (`acquireRead`), it
has read the lock and is about to put (`acquirePut`, `renewPut`) or to delete (`releaseDelete`).
Several callers may share an owner, as a session's main flow and its renewal timer do. `lease[o]` is
the latest expiry owner `o` was told since it last released: what another caller of the same owner was told before
stays good until it is over. A put may land and be reported as failed
(`LostAcks`), a caller may give up at any point, `Etags = FALSE` is an adapter that returns no
etags, and `AllowForce` admits `--force-unlock`. The hosts share one clock: the code compares the
expiry another host wrote with its own, so it assumes as much. `broken` is history: it records that
somebody overwrote or deleted another owner's lock without a condition, which force and
`releaseLock` may do. `cut` is history too: the owners whose own acquisition wrote an earlier expiry than the one they
were told, because the time stamp of an adoption is older than a renewal that came between (`lock.ts:29`, `39-50`).

**`ContextCommit`.** `objects` maps a data key to the attempt whose ciphertext it holds. An *attempt*
is one run of pack and encrypt, and stands for the random key suffix, the ciphertext and the
encryption metadata; a manifest can decrypt an object when both come from the same attempt. `manifest`
has the fields that decide what is read and deleted; `rev` is its etag. `made[a]` is history, the
edits in the tree that attempt `a` packed: a session packs what it mounted and an edit of its own.
`st[w]` is what session `w` is doing, with the manifest its operation has read (`seen`), the keys it has
written, and the keys it is deleting (one delete at a time in any order, as with
`Promise.allSettled`). An owner runs one operation at a time: that is `withSessionWriteLock`.
`Roles` says what each session does (create, force-create, save, checkpoint, touch the runtime state,
without an owner, by force, with ext4 images), and `Faults` what may go wrong: the lock expires,
processes crash, a put fails, a put lands and is reported as failed, a delete fails, a runtime command
fails. The lock is `LeaseRegister`, one atomic step per operation. That is
justified by `ContextLock`, whose read-then-write implements it; the acquisitions that fail there
although the lock was free are not repeated here (a failed attach can be tried again at once).

**`FsStorage`.** The object is two files: `file` is the put whose body is in place, `sidecar` the put whose
token is. `dir` is the lock directory: who made it, the token in its heartbeat file (`NoFile`: there is none; 0: it is
empty), and whether that was touched within `staleMs`. `beats` are the writes of heartbeats that are under way. Each is an open,
which creates or empties the file in whatever directory is there by then, and a write, which reaches the file that was opened,
also when that has been unlinked since; it may fail before the open or between the two. A put awaits its first heartbeat only; those of the
interval may land after it is over, also in the directory of the next holder, and one that is opened while a directory is being
removed keeps the directory in place (`RemoveFails`). `st[p]` is the call process `p` is in. Reads take two calls, deletes two; a put takes
the `mkdir`, the first heartbeat, the check of the body, the check of the etag, the sidecar, the rename, the read of the
heartbeat and the recursive remove; a put that finds the directory occupied looks at its heartbeat and may remove it.
The stages between `pc = "checkBody"` and `"rename"` are those with a heartbeat timer. `stolen` is history: a lock directory was
removed while the put that made it was running. The code admits that: a waiter that looks between `mkdir` and
the first heartbeat, or a holder whose event loop is held up for ten seconds. The temporary file is known
to one put only and has no variable. Faults are a crash at any point, a stall and a full disk.

**`SessionRun`.** Sandboxes are numbered as they are provisioned, and a mount has the number of its sandbox.
`pc` is where the main flow awaits something, `sig` where the signal finalizer does; `runtime` is the local variable
`runtime` of the code and `bound` what `rebindSession` sets (`session.runtime`, `session.mounted`); they differ
between a provision and a successful re-attach. `queue[m]` is the promise chain of mount `m` and `ops` how
far each operation in it is: it waits, it works with a sandbox (read the manifest, pack, upload, put), or
its outcome awaits its caller. An operation takes the sandbox the session is bound to when it *starts*.
`timers` are the intervals that run and `heart` is the state of the heartbeat. The environment lets sandboxes die at
any time, lets a lock lapse that nobody renews, and lets another owner come and go. A sandbox that is asked to be destroyed may go on
(`destroyRuntime` may fail, which is swallowed), so what was destroyed may still answer (`MayAnswer`). The probe of `isRuntimeDead` may fail
whatever the sandbox does: `StartRecovery` may be taken for one that lives, only `FailsForGood` needs one that answers.
A detach may throw at any time. A timer that runs is taken to renew
in time, and a single request or attach to be shorter than the ttl. `MaxCheckpoints` bounds the checkpoints that
wait in one queue; the others would only wait behind them. The constants fix the options: `Recovers` stands for
`recovery.enabled` with a provisioner and a consumer, `Reinvoke` for `recovery.reinvoke`, `saveOnError` is left at its default.

**`Heartbeat`.** `now` is the clock in seconds or any other unit; `lease` and `deadline` are when the lock and the sandbox run
out, `version` is the lock's etag. `beats[k]` holds the two calls of beat `k`: the renewal is a read and a conditional put, the
keep-alive a request; each may be carried out and answered at any later time, fail, or be carried out and never be
answered. A call that hangs is given up after `BeatDeadline` (`Heard` stands for `withDeadline`), but may still be carried
out later. Timers and reports are urgent: `Tick` waits for them. `late` is history: a call of a beat was not carried out
within the deadline. With `Provider = "reset"` the provider counts down anew (E2B), with `"extend"` it adds to the
countdown and the adapter asks for what is missing by its own tally, `intended` (Vercel). `Remaining` and `Held` are what
sandbox and lock have left when the timer starts. Nothing in the code relates
ttl and timeout to the 30 s floor, so `HeartbeatAssumption` does not either: `Wait` is the time from one beat to the end of the next one's
deadline, and what a lock or a sandbox may lose is the part of it that exceeds what it had.

**`ContextTree` and `MountedSandbox`.** A tree maps each path to a number, the contents; 0 is no file, -1 a link that leads out of the context.
A persistence policy is a set of managed roots and the paths its globs match, of two kinds: files they match themselves (`exclude`), and
files in a directory they match without matching the file (`prune`). The listing of a snapshot goes by the first only
(`versioning.ts:64-69`), the pack leaves out both (`scripts.ts:145-162`): hence `Listed` and `Persists`. `BadNames` are paths that an
archive may hold and no attach accepts, those with a `..` segment once backslashes are slashes; the pack does not look at names. `box` is the sandbox: the
directory, the image mounted over it if one is, and whether the image's file is there. `ses` is the session and the operation
it is on: a save lists the files (and replaces the listing in the sandbox), packs, unmounts the image if it goes by `loopExt4`, and
commits; a checkpoint packs and commits. `ses.mode` is what a process remembers of its mount, `ModeFor("command")` what the
command line works out from the manifest of today. Between two steps the agent may write (`Write`, `Remove`, `Link`), the
session may be ended (`End` is not in the write queue) and another runtime may commit (`Elsewhere`). `hist` is history: the files
as the session has left them (`work`) and what has disturbed them. The lock and the store are left out: that a commit
needs the manifest it has read is the condition on `rev`. Also left out are the temporary files, the two files that greet
the agent in a new context, an attach over a mount that a failed detach has left (`Free`), and the cap on an archive's
bytes; the cap on its members is there, and nothing in the code keeps a save from exceeding it.

**`EnterpriseBroker`.** `call[c]` is a call of the broker: what it asks for, and how far it is. Every call is put to the policy and
the quota (`Enforce`), entered in the trail (`Record`), carried out and entered again; any of these may throw, and a write of the
sink that throws may have landed. `Authorized` and `QuotaAvailable` are the two default implementations. A session of the
SDK is identified by the call that started it. What the SDK does is cut down to what it leaves behind: whether the context
exists, who has its lock, and whether the sandbox of the call lives. Nobody renews the lock of a session that
`startSession` has handed out, so it may lapse. `disabled` stands for a tenant that is disabled and for one that is missing.
`touched`, `done`, `lost` and `kept` are history.

Left out of `ContextCommit`: reading or writing what no decision depends on (layout, sizes, version records,
policies), the two requests of a forced create before it packs (only the first decides anything), and
legacy manifests without tree metadata. An adapter without etags makes every commit unconditional;
that configuration has no protocol to check and is represented by the mutant `CommitBlind`.

## 3. The runs

Each bound is a constant of a `.cfg`. `MaxAttempt` bounds the attempts all sessions make together and
`MaxRev` the lock objects written; when they are used up operations fail, which they may do anyway,
so that the bounds leave nobody hanging. `CommitSafety` turns the deadlock check off, because there
all processes may have crashed, `FsStorage` and `FsTornRead` because the puts are used up, `SessionRun` and
`EnterpriseBroker` because a run and the calls end, `MountedSandbox` and `EmptiedCheckpoint` because edits and
manifests are used up, and `Heartbeat` because the clock stops at its bound.

| Run | Instance | Shows |
|---|---|---|
| `LockExclusion` | 2 sessions, one with 2 callers, ttl 1, time to 2, 3 lock objects, force, lost answers | `MutualExclusion`, and refinement of `LeaseRegister` (`ImplementsRegister`; the put of a forced acquire may seize the register) |
| `CommitSafety` | 2 sessions, an ext4 context, one session loop-mounts, the other unpacks, checkpoints and forces; expiry, crashes, failed puts, 4 attempts | `ManifestReadable`, `CheckpointsKept`, `SequentialCommits` |
| `CommitAtomic` | 2 sessions create, save and touch; the lock does not expire; 5 attempts | refinement of `AtomicContext` (`ImplementsAtomic`), `NoGarbage` |
| `CommitRecreate` | one session recreates an ext4 context by force and works on it, another one saves; expiry, failed puts, failing runtimes, 4 attempts | `CreatedReadable`, `NoGarbage` |
| `LostUpdateTakeover` | | `NoLostUpdate` **violated**: finding 1 |
| `FsStorage` | 2 processes, 2 puts, gets, deletes, crashes, stalls, a full disk, a heartbeat of an interval when none other is under way | `PutsSerialised`, `EtagSettled`, `PutsEnd` |
| `FsTornRead` | 3 puts, no deletes or faults | `SwapsWhatWasRead` **violated**: finding 2 |
| `SessionRun` | one recovery, one checkpoint in a queue beside saves, runtime-state updates and a signal; threshold 1 | `LockKept`, `NoSandboxLeft`, `OneOperationPerMount`, `ReplayInFresh`, `RunEnds`, `LockGivenUp` |
| `Heartbeat` | 3 beats of 2 units, ttl 9, timeout 5 with 4 left, 5 of the lock left, time to 7, a provider that extends | `OutlivesTheBeats`, `TallyIsGranted`, `NoMoreThanALifetime`, `StaysReleased` |
| `MountedSandbox` | 2 paths in 2 managed roots, a policy that keeps both and one that leaves one root alone and prunes the directory of a file, a name that no attach accepts, 2 edits, 3 manifests, process and command line, both mount modes, archives of one member | `CommitsTheWork`, `VersionTrue`, `ImageMatchesTree`, `Attachable`, `AttachExact` |
| `EmptiedCheckpoint` | the same with a process only | `CommitsAllWork` **violated**: finding 3 |
| `EnterpriseBroker` | 3 calls on 1 context, 12 kinds of request by an employee and an administrator, 3 runtimes | `TrailTrue`, `AnswersTrue`, `NothingStranded`, `StartersMayEnd` |

Two sessions suffice for the interesting cases: every hazard of the list is a race between one session's stale
knowledge and one other's commit. Four attempts give a create and three commits, so that a commit can be
superseded, its keys collected and its number reused. In the lock, time 2 with a ttl of 1 lets a
lease expire, be taken over and expire again while a put of the first holder is still under way. Three
puts of a file are one that is read, one that overwrites it and one that is conditional on what was read; where faults add to the
states, two puts are two holders of the lock directory, and a `stat`, a break or a late heartbeat of one meets any stage of the other. One recovery
attempt is the default of the code; it may fail to provision, to lock, to mount or to read the manifest back, and after a
success `fn` runs again and may fail again. With a threshold of 1 every failed beat may degrade the session.

In `Heartbeat` the three beats fall at 2, 4 and 6, so that calls of the first may be under way when the third is sent; lease and
deadline pass within the bound of the clock when nobody extends them. `Provider = "reset"` passes with the same bounds, and the
theorems cover both. In `MountedSandbox` each path is kept, pruned or unmanaged at some time, and none is in `exclude`, which like an unmanaged
one is neither listed nor packed; three manifests are the one
attached and two commits, enough for a checkpoint between two saves, a commit of another runtime under a save, or a session after
a session in one sandbox; two edits are one before a pack and one after it, or a write and a link. In `EnterpriseBroker` three calls
are a start, the save or end of its session, and one that interferes; the requests are chosen so that every way to be denied,
every kind of operation, an adapter known by its name and one known by an id, and force occur. The calls are symmetric.

The properties:

- `MutualExclusion`: two owners that were both told they hold the lock, neither lease expired, implies an earlier
  unconditional hit on somebody else's lock, or that one of them has brought its own expiry forward.
- `ManifestReadable`: at every moment the tree, and the image if there is one, that the manifest
  names is there and belongs to its metadata.
- `CreatedReadable`: what a forced create has committed stays readable beside the saves, collections and rollbacks of sessions that
  attached to the old context.
- `CheckpointsKept`: every checkpoint number the manifest has counted has its object.
- `NoGarbage`: an object is current, a checkpoint, or in the hands of a running operation.
- `SequentialCommits`: each manifest follows the one it replaces.
- `NoLostUpdate`: the edits in the current tree only grow.

- `PutsSerialised`: between a put's check and its rename no other put changes the file, unless a directory was stolen.
- `EtagSettled`: when all calls have returned, body and etag belong together.
- `PutsEnd`: every put ends, also behind a crashed holder, a directory that was left behind with an empty heartbeat, or
  somebody else's late one.
- `SwapsWhatWasRead`: a put under `ifMatch` replaces the body its caller read with that etag.
- `LockKept`: from the attach to the end of `fn`, and through a recovery with all its failed attempts, the lock is
  held and live.
- `NoSandboxLeft`: at the end `destroyRuntime` was called for every sandbox of a run whose session was started.
- `ReplayInFresh`: `fn` is called again only in a sandbox it has not run in, after `destroyRuntime` was called for all it had.
- `RunEnds`, `LockGivenUp`: the run ends, and after it the lock is released or lapses, also when the detach failed.
- `OneOperationPerMount`: two operations work in one sandbox at once only after a recovery, when they were queued on two mounts.
- `OutlivesTheBeats`: while every call of a beat is carried out within the beat's deadline, what is left of the lock, and of the sandbox, is
  never less than what was left at the start minus an interval and a deadline (`Wait`).
- `TallyIsGranted`, `NoMoreThanALifetime`: the adapter counts on no time that the provider has not granted, whatever calls
  overlap, fail or lose their answers; and no sandbox is granted more than a lifetime from now, unless two extensions overlap.
- `StaysReleased`: a released lock is not brought back by a renewal that was on its way.
- `CommitsTheWork`: what a session commits is the tree it attached with its edits until the pack, unless something has
  unmounted the image under it.
- `VersionTrue`: a version lists the files of its tree, and of pruned directories, and its changes lead from the version before it to its own.
- `ImageMatchesTree`: the image of an ext4 context holds the files of its tree, but for what was written during the save.
- `Attachable`, `AttachExact`: what is committed is accepted by the checks of the next attach, but for its size and names the checks refuse, and the next
  session starts from it and nothing else.
- `TrailTrue`, `AnswersTrue`: nothing changes before the trail says it was allowed, a denied call has changed nothing, one that
  is entered as a success is done; and the caller hears what the trail says.
- `NothingStranded`: each lock and each sandbox belongs to a call under way or to a session its caller knows of, but for
  three cases the property names with their lines.
- `StartersMayEnd`: who was let start a session is let save and end it, but for a quota list that names runtimes whose
  adapters go by ids.

The mutants in `PROJECT.json` say which mistake in the code each property would catch.

### Findings

1. The last check of the lock and the manifest put are two requests, and an attach reads the manifest before it acquires the lock. A session
   whose lock expires in between still commits; the session that took over works on the tree it read about before that,
   and its own save, which reads the new manifest and passes every check, takes the committed edits away. (An absent lock passes
   `assertLockOwnership` too, so that a session may also commit after its successor has released.)
2. `FsStorage` reads a body and its etag in two steps without the key lock; a put in between pairs the old body with
   the new etag, and the compare-and-swap of that reader succeeds on a body it never saw.
3. A save of a loop-mounted session unmounts the image and leaves the session attached; a checkpoint then packs the bare
   mount point and commits it as the current tree. So does a checkpoint that is under way when the session is ended.

Some weaknesses are known and not shown by a run.
- Checkpoint keys carry no attempt suffix: a session that lost the lock overwrites or rolls back the checkpoint of its
  successor (`ManifestReadable` fails when two sessions create, save and checkpoint under `Faults = {"expire"}`).
- The rollback of a save whose manifest put landed without an answer deletes committed data (it fails under
  `Faults = {"lostAck"}`).
- A forced create lists and deletes without the lock, and takes along what others commit on top of it meanwhile (`ManifestReadable`
  fails when one session recreates and another one saves, as in `CommitRecreate`).
- `attachContext` reads the manifest before it acquires the lock: after a save of the former holder the outdated key is
  gone and the attach fails, after a checkpoint it is still there and the attach succeeds on outdated data.
- On an adapter without etags a renewal overwrites whatever lock is there.
- An operation is queued under `session.mounted` but takes `session.runtime` when it starts: after `rebindSession` one of
  the old queue works beside one of the new queue, in one bundle path. `OneOperationPerMount` says that this is the only way.
- An adoption takes its time stamp before it reads the lock and so may bring forward an expiry that a renewal of the same session has
  just been told; another session may take over in between (`cut`), although "this can never let a second writer in" (`lock.ts:38`).
- A probe that throws, times out or exits with an error is taken for a dead sandbox: one that lives may be destroyed, and `fn` is called again
  beside its first effects.
- An emergency checkpoint that has packed the old sandbox may commit after the re-attach has read the manifest before it.
- The key-lock directory of the file storage may stay behind with an empty heartbeat (a first write that failed) or with one
  that landed late; the next put waits `staleMs` for it.
- A file whose name has a `..` segment once backslashes are slashes is packed and committed, and the next attach refuses the archive.
- Under a glob that matches a directory the pack leaves out files that the version lists.
- With a ttl or a timeout near the 30 s floor, or little left of it, lock or sandbox lapse between two beats.
- The exceptions that `NothingStranded`, `StartersMayEnd`, `NoMoreThanALifetime` and `VersionTrue` name.

### Fairness

`ContextLock`, `ContextCommit`, `Heartbeat`, `MountedSandbox` and `EnterpriseBroker` are safety specifications:
`Init /\ [][Next]_vars`. That time does not pass a timer that is due is a condition on `Tick` in `Heartbeat`.

`FsStorage` assumes weak fairness of each process that has begun a put and not crashed (its calls to the file
system return), and of time passing (`Stale`). Nobody is made to begin a call. `PutsEnd` does not use the
deadline of 60 s: giving up is always allowed, and so is trying again.

`SessionRun` assumes weak fairness of the main flow, of the finalizer, of each queue, and of the lapse of an
unattended lock. The event loop runs whatever can go on; commands in a sandbox have a time-out
(`defaultCommandTimeoutMs`), requests to storage end, and `fn` returns or throws: these are the awaits of the main
flow. Timers and beats are not fair: nothing depends on a beat for the run to end, and that a running timer renews
in time is the condition on `Expire`.

## 4. What is proved

All theorems hold for every value of the constants: any number of callers, sessions, owners and
attempts, and any length of the run. They assume only the named assumptions of the modules
(`LockAssumption`, `OwnerAssumption`, `CommitAssumption`, `FsAssumption`, `RunAssumption`, `HeartbeatAssumption`,
`BrokerAssumption`, `TreeAssumption`, `SandboxAssumption`).

**`ContextLockProofs`.** `TypeCorrect`, and `Exclusion`: with etags, `Spec => []MutualExclusion`.
`MutualExclusion` is not inductive. The inductive invariant adds that revisions are handed out once
(`RevisionsFresh`) and identify the object (`RevisionsIdentify`), so that a put conditioned on a
revision replaces what its caller read; that what a caller read justifies its put
(`ReadsJustify`); and that every lease somebody was told is backed by a lock object of that owner with at
least that expiry, or has expired, or somebody broke the rules, or the owner cut it short itself (`LeasesBacked`). Takeover then rests on the time
stamp being taken before the read. `Implements`: with etags, `Spec => ImplementsRegister`. From the same invariant, a put that
is not forced finds the lock it has read, so it grants or extends a lease that nobody's stands in the way of (`AcquirePutGrants`,
`RenewPutExtends`), and every step maps to one of the register, a seizure by force, or a stutter (`StepMaps`).

**`ContextCommitProofs`.**
- `TypeCorrect`. The bound on generations needs `AttemptsBound`: a commit is made by an
  attempt that began after the manifest it replaces was written.
- `Sequential`: `Spec => SequentialCommits` whatever the roles and faults. The invariant `RevInv` says
  that no attempt still under way is the revision of the manifest or of anything read
  (`AttemptsUnused`), hence an unchanged revision means an unchanged manifest (`SeenCurrent`).
- `Readable` and `CheckpointsSafe`: `ManifestReadable` and `CheckpointsKept`, assuming `Orderly`: at most one session
  checkpoints, nobody recreates by force, and no answer is lost. Each of the three conditions is needed: the first three
  weaknesses listed under the findings refute the theorem without it. The invariant `ReadInv` adds that a running operation writes only under keys nobody else
  uses (`SessionSound`), that what it has uploaded is still there when it commits (`Uploaded`), and
  that what is being deleted is needed neither by the manifest nor by a running operation
  (`Disposable`, `Spares`). `ReadStep` and `ReadChange` reduce each action to the few keys it touches.
- `NothingLeft`: `Spec => []NoGarbage`, assuming `Tidy`: no process crashes, no answer is lost, no deletion fails, and whoever
  recreates the context is the only one who creates it. Expiry, takeover, force, refused and failed requests and failing runtimes
  are covered. Each condition is needed: what a crashed session has uploaded, what a deletion that failed (the code only warns)
  has left and the data of a commit that landed unheard nobody comes back for; and a forced create that found no manifest prunes
  nothing, so that of two creates that race the data of the one that lands first stays (two that recreate, or one beside one that
  creates). The invariant `GarbageInv` says that every object is named by the manifest or held by a session (`Accounted`),
  where a session holds what it has uploaded and not yet committed, what it is deleting and, about to list, everything but its
  own new data (`Holds`).

**`ContextAtomicProofs`.** The refinement of `AtomicContext`, under two conditions of which neither contains the other.
- `Implements`: `Spec => ImplementsAtomic`, assuming `Undisturbed`: leases do not expire under their owners and are not seized, no
  answer is lost and no deletion fails, nobody checkpoints or recreates, and either every runtime loop-mounts images or none does.
  Any number of sessions may create, attach, save, record runtime state, detach, crash, be refused and fail. `NothingLost`:
  under the same condition `Spec => NoLostUpdate`, the property that finding 1 refutes once a lease may expire.
  `HeldInv` says that who holds the lock has the lease, and what each attempt is made of. The heart of the argument is `Foresees`:
  an attach reads the manifest before it acquires the lock, and what saves it from working on old data is that the data it read
  about is current, or gone, or about to be deleted by the session that still holds the lock (`Condemned`,
  `SupersededSource`). `SessionCurrent` then says that what a session works on contains what is current, and it commits on top of it.
  This is why each condition is needed: a checkpoint is never deleted, nor is an image replaced by a session that unpacks
  trees, nor an object whose deletion failed or whose owner heard of a failure, so that a late attach finds old data in place
  and its save, which compares with the manifest of that later time, takes the newer edits away.
- `ImplementsAlone`: `Spec => ImplementsAtomic`, assuming `OneSaver`: only one session saves or checkpoints, and nobody recreates.
  Then nothing else matters: other sessions may create, attach, record runtime state and seize the lock, leases may expire, processes
  crash, deletions fail and answers be lost. `SaverInv`: what the saver has read is current from its read to the commit,
  because a manifest that changes meanwhile changes in the runtime state only; what it works on contains it.
- `HeadMaps` and `HeadKept` are the steps of the refinement both share: a commit with edits of its own on top of the current ones is a
  create, a save or a checkpoint of the atomic context, every other step a stutter.

**`FsStorageProofs`.** `TypeCorrect`, and `Serialised`: `Spec => []PutsSerialised`. The inductive invariant `Owned` says
that, as long as no directory was stolen, a put in its locked stages is the maker of the directory (so there is at
most one), and that a put that has checked its condition remembers the body in place, or a delete has
taken it. `Settled`: `Spec => []EtagSettled`. `Settling` says what may be out of order before all calls have returned: the sidecar
belongs to the body, or is absent, unless a call that will put that right is under way or has died.

**`SessionRunProofs`.** Five results.
- `Kept`: `Spec => []LockKept`. `LockInv` adds the timer that renews at each point (the session's own, or the lock-only one of
  the recovery) and that a re-attach has adopted: the lock was held when it came to `acquireLock`, so the catch block
  of `attachContext` spares it.
- `NoneLeft`: `Spec => []NoSandboxLeft`. `SandboxInv`: every sandbox but the current one is destroyed, and the current one too
  where the run asks for another or is over.
- `Fresh`: `Spec => ReplayInFresh`, an action property. `FreshInv`: from a provision until `fn` is called, `fn` has not run in the
  current sandbox; with `SandboxInv`, all the others are destroyed by then.
- `TypesKept`: `Spec => []TypeOK`, and `OneAtATime`: `Spec => []OneOperationPerMount`, from `RunInv`. `Numbers` counts sandboxes against
  recovery attempts. `Lined`: each queue names the operations that wait or work on its mount, each once, and who works is at its
  head. `Waits`: main flow and finalizer stand where they wait for what they have queued, so that nothing is queued twice.

**`HeartbeatProofs`.** All five properties, for any ttl, lifetime, floor and number of beats within `HeartbeatAssumption` and for both providers.
- `TypesKept`: beat `k` fires at `k * Interval`. The deadline stays a natural number because an extension that is sent asks for
  more (`Extensions`).
- `ReleasedForGood`: `Spec => StaysReleased`. A renewal that has read the lock's current version has read it while the lock was
  there (`Renewals`), and the release makes a new version.
- `TallyKept`: `Spec => []TallyIsGranted`. The property is not inductive: `Kept` adds that an extension on its way is covered
  in the same way, by its target less what it asks for.
- `Outlived`: `Spec => []OutlivesTheBeats`. Every renewal that was carried out has left the lock a ttl from its beat on (`Leased`),
  every extension the sandbox what it had at first from its beat on (`Kept`); while no call is late, a beat whose deadline is over
  has been carried out (`OnTime`). `IntervalFits` is the arithmetic: interval and beat deadline together are at most `Wait` of either time.
- `LifetimeKept`: `Spec => []NoMoreThanALifetime`. `Lifetimes`: as long as no two extensions overlap, only that of the last beat is
  pending, and the tally is behind the deadline by it alone. For a provider that counts down anew, `Resets`.

**`EnterpriseBrokerProofs`.** All five properties, for any number of calls, contexts, actors and runtimes and any requests.
- `TypesKept`, `TrailKept`, `AnswersKept` and `StrandedKept` from one invariant, `BrokerInv`. Its core is `Story`: for each point a call
  can be at, the trails it may have there and what it may have done by then. The locks and the sandboxes then belong to calls
  at the points that hold one (`Holders`, `Payers`).
- `EndsKept`: `Spec => []StartersMayEnd`. `Rights` adds that a call goes on, or was turned away, on a verdict over its request that
  would be the same at any later time, and that a session is that of a start that went on. The two verdicts then differ in the
  name of the runtime only.

**`MountedSandboxProofs`.** All six properties, for any paths, policies and bounds and for each of the three kinds of runtime.
- `TypesKept`: every operator on trees returns a tree (`TreeOps`).
- `CommittedAttachable`: `Packs` says that a tree in the store, or on its way there, comes out of `Pack` under the policy that
  goes with it, and the checks accept what does, but for its names and its number.
- `WorkCommitted`: until an unmount takes them away, the files that can be seen are the session's work, and what is packed is that
  work (`Works`). This needs to know where something is mounted, and that the save of a process goes by the mode the process
  remembers (`Mounts`).
- `ImagesMatch` and `AttachesExactly`: the image in the store, the one about to be unmounted and the one about to be uploaded agree
  with their tree, except where the agent wrote during the save (`Images`).
- `VersionsTrue`: the listing in the sandbox is the latest version's, or that of the save under way (`Listings`); what a save has listed
  is what it packs (`Agreed`), and its changes are `Diff` of the two listings (`Told`).

Only model-checked: the liveness properties `PutsEnd`, `RunEnds` and `LockGivenUp`, and `CreatedReadable`. The other properties of the runs that pass
are theorems; where a theorem has a condition, the runs of `ContextCommit` also check instances outside it.
Out of the prover's reach: liveness under fairness, ENABLED, and induction over recursive definitions.

## 5. What is not modelled, and the plan

Still open, in this order:

1. Proofs: `CreatedReadable`, for one session that recreates by force beside any number that save.
2. A composition of `SessionRun` with `ContextCommit`, so that what a run saves is checked to be what the next one
   finds; an abstract compare-and-swap object that `FsStorage` without torn reads implements.

Partly modelled, and why: of the file storage, `listObjects` and the mapping of keys to paths (no state); of the adapters, all but
`keepAlive` (calls to a provider, passed through); of the scripts, the installation of tools and the links in `/`; of the command line,
all but `session save` and `session end` (options, printing, and calls of the functions that are modelled); of the persistence policy, the
rejection of bad names by the path policy; of the archive checks, the cap on bytes.

Not planned: key derivation and ciphers, the text of shell scripts, tar and file I/O, the retries of provider calls,
option parsing, types, and the Python experiments under `scripts/`.
