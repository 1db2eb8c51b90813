-------------------------- MODULE MountedSandbox --------------------------
(***************************************************************************)
(* One sandbox in which a context is mounted: attach, the agent's edits,   *)
(* saves and checkpoints, and the end of the session (src/src/context.ts   *)
(* with the scripts of scripts.ts and versioning.ts), by a process that    *)
(* remembers how it mounted the context or by the command line, which      *)
(* works that out again.  Between two steps of an operation the agent may  *)
(* write, the session may be ended and another runtime may commit.  The    *)
(* lock and the store are the subject of ContextLock and ContextCommit.    *)
(***************************************************************************)
EXTENDS ContextTree

CONSTANTS DirectoryBundle, \* runtime.capabilities
          LoopExt4,
          Callers,         \* who works with the session: "process", "command"
          UserPolicies,    \* policies that callers pass; who passes none gets the manifest's
          MaxEdit,         \* bound on the number of edits
          MaxRev           \* bound on the number of manifests

ASSUME SandboxAssumption ==
  /\ DirectoryBundle \in BOOLEAN /\ LoopExt4 \in BOOLEAN
  /\ DirectoryBundle \/ LoopExt4
  /\ Callers \subseteq {"process", "command"}
  /\ UserPolicies \subseteq Policies
  /\ MaxEdit \in Nat /\ MaxRev \in Nat \ {0}

VARIABLES manifest, \* the manifest and the data it points at
          box,      \* the sandbox's files
          ses,      \* the session and the operation it is on
          edits,    \* edits so far
          hist      \* history: what the session's work is, and what has disturbed it

vars == <<manifest, box, ses, edits, hist>>

Formats == {"tree", "ext4"}
Modes == {"directoryBundle", "loopExt4"}

\* the managed files, and the listing in .contextsdk/index.json
Contents == [files: Trees(MaxEdit), index: Trees(MaxEdit)]

Nothing == [files |-> Empty, index |-> Empty]

Changes == [added: SUBSET Paths, modified: SUBSET Paths, removed: SUBSET Paths]

Manifests == [format: Formats, tree: Contents, image: Contents, hasImage: BOOLEAN,
              listed: Trees(MaxEdit),     \* the files of the latest version
              changes: Changes,           \* its changedPaths
              policy: Policies, rev: 0 .. MaxRev]

Boxes == [dir: Contents,      \* what the mount point is when nothing is mounted on it
          loop: Contents,     \* the image that is mounted on it
          mounted: BOOLEAN,   \* there is one
          image: BOOLEAN]     \* the image's file is there

Sessions == [attached: BOOLEAN, mode: Modes,
             pc: {"idle", "pack", "unmount", "commit"},
             op: {"none", "save", "checkpoint"},
             caller: {"process", "command"},
             how: Modes,                    \* the mode this operation goes by
             policy: Policies, rev: 0 .. MaxRev,
             listed: Trees(MaxEdit), changes: Changes,
             packed: Contents,
             unmounted: Contents]           \* the image this save will upload

NoChanges == [added |-> {}, modified |-> {}, removed |-> {}]

Rest == [attached |-> FALSE, mode |-> "directoryBundle", pc |-> "idle", op |-> "none",
         caller |-> "process", how |-> "directoryBundle", policy |-> DefaultPolicy, rev |-> 0,
         listed |-> Empty, changes |-> NoChanges, packed |-> Nothing, unmounted |-> Nothing]

Calm == [work |-> Empty,     \* the managed files as the session has left them
         due |-> Empty,      \* what its operation ought to have packed
         popped |-> FALSE,   \* the image was unmounted under the session
         excused |-> FALSE,  \* that was so when the operation packed
         stale |-> FALSE,    \* the listing in the sandbox is not the latest version's
         touched |-> {},     \* paths written since the operation began
         raced |-> {}]       \* paths written while the current image was saved

(* A new context; the two files that greet the agent are left out. *)
Made(format, policy, rev) ==
  [format |-> format, tree |-> Nothing, image |-> Nothing, hasImage |-> format = "ext4",
   listed |-> Empty, changes |-> NoChanges, policy |-> policy, rev |-> rev]

Init ==
  /\ \E format \in Formats : manifest = Made(format, DefaultPolicy, 1)
  /\ box = [dir |-> Nothing, loop |-> Nothing, mounted |-> FALSE, image |-> FALSE]
  /\ ses = Rest
  /\ edits = 0
  /\ hist = Calm

\* what is at the mount point
Visible == IF box.mounted THEN box.loop ELSE box.dir

Showing(contents) ==
  IF box.mounted THEN [box EXCEPT !.loop = contents] ELSE [box EXCEPT !.dir = contents]

(* umount; what the image held is no longer to be seen. *)
Bare == [box EXCEPT !.mounted = FALSE, !.loop = Nothing]

(* How attach mounts, and how a save of a caller that does not say goes about it. *)
MountMode(format) ==
  IF DirectoryBundle /\ (format = "tree" \/ ~LoopExt4) THEN "directoryBundle" ELSE "loopExt4"

(* MUTANT ModeRederived: a process forgets how it has mounted the context. *)
ModeRederived(caller) == MountMode(manifest.format)

(* mountedFromCli goes by the manifest of today, a process by the mode it remembers. *)
ModeFor(caller) == IF caller = "command" THEN MountMode(manifest.format) ELSE ses.mode

\* the mount that was there under the session is there no more
Popped(mounted) == hist.popped \/ (ses.attached /\ box.mounted /\ ~mounted)

-----------------------------------------------------------------------------
(* attachContext *)

\* a sandbox in which a failed detach has left its mount is not attached again
Free == ~ses.attached /\ ses.pc = "idle" /\ ~box.mounted

Unpacked == [files |-> Unpack(box.dir.files, manifest.tree.files, manifest.policy),
             index |-> manifest.tree.index]

Begin(mode) ==
  /\ ses' = [Rest EXCEPT !.attached = TRUE, !.mode = mode]
  /\ hist' = [Calm EXCEPT !.work = Visible'.files, !.raced = hist.raced,
                          !.stale = Visible'.index # manifest.listed]
  /\ UNCHANGED <<manifest, edits>>

AttachDirectory ==
  /\ Free
  /\ MountMode(manifest.format) = "directoryBundle"
  /\ Accepts(manifest.tree.files)
  /\ box' = [box EXCEPT !.dir = Unpacked]
  /\ Begin("directoryBundle")

(* The image, or one made of the tree. *)
AttachLoop ==
  /\ Free
  /\ MountMode(manifest.format) = "loopExt4"
  /\ manifest.format = "tree" => Accepts(manifest.tree.files)
  /\ box' = [box EXCEPT !.loop = IF manifest.format = "tree" THEN manifest.tree
                                 ELSE manifest.image,
                        !.mounted = TRUE, !.image = TRUE]
  /\ Begin("loopExt4")

(* The unpack script dies after it has cleared the managed roots. *)
AttachFails ==
  /\ Free
  /\ MountMode(manifest.format) = "directoryBundle"
  /\ box' = [box EXCEPT !.dir = [files |-> Unpack(@.files, Empty, manifest.policy),
                                 index |-> Empty]]
  /\ UNCHANGED <<manifest, ses, edits, hist>>

-----------------------------------------------------------------------------
(* the agent's files *)

Change(p, contents) ==
  /\ ses.attached
  /\ edits < MaxEdit
  /\ edits' = edits + 1
  /\ box' = Showing([Visible EXCEPT !.files[p] = contents])
  /\ hist' = [hist EXCEPT !.work[p] = contents,
                          !.touched = IF ses.pc = "idle" THEN @ ELSE @ \cup {p}]
  /\ UNCHANGED <<manifest, ses>>

Write(p) == Change(p, edits + 1)

Remove(p) == Visible.files[p] # Absent /\ Change(p, Absent)

(* From a shell, not through the file API. *)
Link(p) == Change(p, Foreign)

-----------------------------------------------------------------------------
(* saveContext *)

\* the operation is over, the session is as it was
Return ==
  ses' = IF ses.attached THEN [Rest EXCEPT !.attached = TRUE, !.mode = ses.mode] ELSE Rest

Settled == IF ses.attached THEN [hist EXCEPT !.due = Empty, !.excused = FALSE, !.touched = {}]
           ELSE [Calm EXCEPT !.raced = hist.raced]

(* MUTANT RelistedNever: index.json is left as it was. *)
RelistedNever(listed) == box

\* snapshotScript writes the listing over the one that is there
Relisted(listed) == Showing([Visible EXCEPT !.index = listed])

(* The manifest is read and the listing taken, which replaces the one in the sandbox. *)
SaveStart(caller, policy) ==
  LET listed == Listing(Visible.files, policy)
  IN  /\ ses.attached /\ ses.pc = "idle"
      /\ ses' = [ses EXCEPT !.pc = "pack", !.op = "save", !.caller = caller,
                            !.how = ModeFor(caller), !.policy = policy,
                            !.rev = manifest.rev, !.listed = listed,
                            !.changes = Diff(Visible.index, listed)]
      /\ box' = Relisted(listed)
      /\ hist' = [hist EXCEPT !.touched = {}]
      /\ UNCHANGED <<manifest, edits>>

(* A save of a loop-mounted context goes on to unmount it. *)
PackBundle ==
  /\ ses.pc = "pack"
  /\ ses' = [ses EXCEPT !.pc = IF ses.op = "save" /\ ses.how = "loopExt4"
                               THEN "unmount" ELSE "commit",
                        !.packed = [files |-> Pack(Visible.files, ses.policy),
                                    index |-> Visible.index]]
  /\ hist' = [hist EXCEPT !.due = Pack(hist.work, ses.policy), !.excused = hist.popped]
  /\ UNCHANGED <<manifest, box, edits>>

(* saveScript: umount, then e2fsck on the image file, which may fail and does *)
(* when the file is gone.                                                      *)
Unmount ==
  /\ ses.pc = "unmount"
  /\ box.mounted
  /\ box' = Bare
  /\ \/ /\ box.image
        /\ ses' = [ses EXCEPT !.pc = "commit", !.unmounted = box.loop]
        /\ hist' = [hist EXCEPT !.popped = Popped(FALSE)]
     \/ /\ Return
        /\ hist' = [Settled EXCEPT !.popped = Popped(FALSE), !.stale = ses.attached]
  /\ UNCHANGED <<manifest, edits>>

(* shouldPersistExt4Image *)
RefreshesImage == ses.how = "loopExt4" /\ (manifest.format = "ext4" \/ manifest.hasImage)

(* keepExt4Format *)
KeepsExt4 == manifest.format = "ext4" /\ RefreshesImage

SaveCommit ==
  /\ ses.pc = "commit" /\ ses.op = "save"
  /\ ses.rev = manifest.rev
  /\ manifest.rev < MaxRev
  /\ manifest' = [manifest EXCEPT !.format = IF KeepsExt4 THEN "ext4" ELSE "tree",
                                  !.tree = ses.packed,
                                  !.image = IF RefreshesImage THEN ses.unmounted ELSE @,
                                  !.hasImage = @ \/ RefreshesImage,
                                  !.listed = ses.listed, !.changes = ses.changes,
                                  !.policy = ses.policy, !.rev = @ + 1]
  /\ box' = [box EXCEPT !.image = FALSE]
  /\ hist' = [Settled EXCEPT !.stale = FALSE,
                              !.raced = IF RefreshesImage THEN hist.touched ELSE @]
  /\ Return
  /\ UNCHANGED edits

(* saveContextSession, for who holds the session. *)
ProcessSave(policy) == "process" \in Callers /\ SaveStart("process", policy)

(* session save, in a sandbox it has been told of. *)
CommandSave(policy) == "command" \in Callers /\ SaveStart("command", policy)

-----------------------------------------------------------------------------
(* checkpointContextSession: no version, no unmounting, no cleaning up *)

CheckpointStart(policy) ==
  /\ ses.attached /\ ses.pc = "idle"
  /\ ses' = [ses EXCEPT !.pc = "pack", !.op = "checkpoint",
                        !.policy = policy, !.rev = manifest.rev]
  /\ hist' = [hist EXCEPT !.touched = {}]
  /\ UNCHANGED <<manifest, box, edits>>

(* MUTANT CheckpointKeepsFormat: only the tree is replaced. *)
CheckpointKeepsFormat ==
  [manifest EXCEPT !.tree = ses.packed, !.policy = ses.policy, !.rev = @ + 1]

(* MUTANT CheckpointCountsTwice: the revision moves by two. *)
CheckpointCountsTwice ==
  [manifest EXCEPT !.format = "tree", !.tree = ses.packed, !.policy = ses.policy, !.rev = @ + 2]

Checkpointed ==
  [manifest EXCEPT !.format = "tree", !.tree = ses.packed, !.policy = ses.policy, !.rev = @ + 1]

CheckpointCommit ==
  /\ ses.pc = "commit" /\ ses.op = "checkpoint"
  /\ ses.rev = manifest.rev
  /\ manifest.rev < MaxRev
  /\ manifest' = Checkpointed
  /\ Return
  /\ hist' = Settled
  /\ UNCHANGED <<box, edits>>

(* A command fails, nothing is mounted where umount looks, a request fails or   *)
(* the manifest has changed: the call throws at the step it is on.              *)
OperationFails ==
  /\ ses.pc # "idle"
  /\ Return
  /\ hist' = [Settled EXCEPT !.stale = @ \/ (ses.attached /\ ses.op = "save")]
  /\ UNCHANGED <<manifest, box, edits>>

-----------------------------------------------------------------------------
(* detachContext; the exit code of its script is not looked at *)

DetachMode(caller) ==
  IF caller = "process" THEN ses.mode
  ELSE IF DirectoryBundle /\ ~LoopExt4 THEN "directoryBundle" ELSE "loopExt4"

Detached(caller) ==
  IF DetachMode(caller) = "directoryBundle" THEN box
  ELSE [Bare EXCEPT !.image = FALSE]

End(caller) ==
  /\ ses.attached
  /\ ses' = IF ses.pc = "idle" THEN Rest ELSE [ses EXCEPT !.attached = FALSE]
  /\ \/ box' = Detached(caller)
     \/ box' = box
  /\ hist' = IF ses.pc = "idle" THEN [Calm EXCEPT !.raced = hist.raced]
             ELSE [hist EXCEPT !.popped = Popped(box'.mounted)]
  /\ UNCHANGED <<manifest, edits>>

(* endContextSession *)
ProcessEnd == "process" \in Callers /\ End("process")

(* session end *)
CommandEnd == "command" \in Callers /\ End("command")

-----------------------------------------------------------------------------
(* Another runtime commits a tree of its own, or the context is made anew. *)
Elsewhere ==
  /\ manifest.rev < MaxRev
  /\ \/ manifest' = [manifest EXCEPT !.format = "tree", !.rev = @ + 1]
     \/ \E format \in Formats : manifest' = Made(format, DefaultPolicy, manifest.rev + 1)
  /\ hist' = [hist EXCEPT !.stale = @ \/ ses.attached,
                          !.raced = IF manifest'.image = manifest.image THEN @ ELSE {}]
  /\ UNCHANGED <<box, ses, edits>>

Next ==
  \/ AttachDirectory \/ AttachLoop \/ AttachFails
  \/ \E p \in Paths : Write(p) \/ Remove(p) \/ Link(p)
  \/ \E policy \in UserPolicies \cup {manifest.policy} :
       ProcessSave(policy) \/ CommandSave(policy) \/ CheckpointStart(policy)
  \/ PackBundle \/ Unmount \/ SaveCommit \/ CheckpointCommit \/ OperationFails
  \/ ProcessEnd \/ CommandEnd
  \/ Elsewhere

Spec == Init /\ [][Next]_vars

-----------------------------------------------------------------------------
TypeOK ==
  /\ manifest \in Manifests
  /\ box \in Boxes
  /\ ses \in Sessions
  /\ edits \in 0 .. MaxEdit

\* the session commits what its operation has packed
Commits == manifest' # manifest /\ ses.pc = "commit" /\ ses'.pc = "idle"

(***************************************************************************)
(* What the session commits is its work: the tree it attached with every   *)
(* edit it made until the pack.  That fails only after something has       *)
(* unmounted the image under it, an earlier save or its end, and then only *)
(* for checkpoints and the command line: the save of a process that knows  *)
(* how it mounted the context throws instead.                              *)
(***************************************************************************)
CommitsTheWork ==
  [][Commits => \/ ses.packed.files = hist.due
                \/ hist.excused /\ (ses.op = "checkpoint" \/ ses.caller = "command")]_vars

(***************************************************************************)
(* The SDK "re-attaches from the latest committed manifest (which includes *)
(* the newest checkpoint)" (README.md:188): a checkpoint holds the work.   *)
(***************************************************************************)
CommitsAllWork == [][Commits => ses.packed.files = hist.due]_vars

\* the changes are those that lead from one listing to the other
Explains(changes, old, new) ==
  /\ Apply(old, changes, new) = new
  /\ \A p \in changes.added \cup changes.modified \cup changes.removed : old[p] # new[p]

\* a listing tells of a file what an archive taken under the policy holds
Tells(listing, archive, policy, p) ==
  IF Pruned(policy, p) THEN archive[p] = Absent ELSE listing[p] \in {archive[p], Foreign}

(***************************************************************************)
(* A version tells what it is.  The files it lists are the files of its    *)
(* tree, although two scripts with a filter each take listing and tree:    *)
(* they differ at most where the agent wrote in between, at links that     *)
(* lead out, and at files of directories that a pattern matches without    *)
(* matching them, which are listed and never packed.  And the changes      *)
(* it records are those between the files of the version before it and     *)
(* its own, however many checkpoints, failed attaches and sessions lie     *)
(* between; the exceptions are the sandboxes whose listing is not the      *)
(* latest version's, because a save of theirs failed after its snapshot or *)
(* somebody else has committed.                                            *)
(***************************************************************************)
VersionTrue ==
  [][Commits /\ ses.op = "save" /\ ~hist.excused
       => /\ \A p \in Paths \ hist.touched :
               Tells(ses.listed, ses.packed.files, ses.policy, p)
          /\ ~hist.stale => Explains(manifest'.changes, manifest.listed, manifest'.listed)]_vars

(***************************************************************************)
(* While a context is of format ext4 its image holds the files of its      *)
(* tree, so that it does not matter by which of the two the next sandbox   *)
(* mounts it.  They differ only where the agent wrote during the save.     *)
(***************************************************************************)
ImageMatchesTree ==
  manifest.format = "ext4" =>
    \A p \in Paths \ hist.raced :
      Pack(manifest.image.files, manifest.policy)[p] = manifest.tree.files[p]

(***************************************************************************)
(* Whatever the agent has left in the sandbox, no tree is committed that   *)
(* the checks of the next attach refuse, but for its size and for names    *)
(* that nobody checks when it is packed.                                   *)
(***************************************************************************)
Attachable ==
  Cardinality(Members(manifest.tree.files)) <= MaxEntries
    => Accepts(manifest.tree.files) \/ Members(manifest.tree.files) \cap BadNames # {}

(***************************************************************************)
(* A session starts from the committed files and nothing else, also in a   *)
(* sandbox that an earlier session or a failed attach has left in disorder:*)
(* packed again at once, they are the tree in the store.                   *)
(***************************************************************************)
AttachExact ==
  [][~ses.attached /\ ses'.attached
       => \A p \in Paths \ hist.raced :
            Pack(Visible'.files, manifest.policy)[p] = manifest.tree.files[p]]_vars
=============================================================================
