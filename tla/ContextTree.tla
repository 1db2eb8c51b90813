---------------------------- MODULE ContextTree ----------------------------
(***************************************************************************)
(* The files of a context and what becomes of them on their way into an    *)
(* archive and back: the persistence policy, the version listing, packing, *)
(* the checks on an archive and unpacking (src/src/persistence-policy.ts,  *)
(* versioning.ts, scripts.ts and tree-bundle.ts).  A file is a number, its *)
(* contents; 0 says there is none.                                         *)
(***************************************************************************)
EXTENDS Integers, FiniteSets

CONSTANTS Paths,         \* paths in the mounted directory
          Roots,         \* the directories right under it that the SDK manages
          RootOf,        \* the first part of each path
          BadNames,      \* paths with a segment ".." once a backslash is read as a slash
          DefaultPolicy, \* defaultPersistencePolicy
          MaxEntries     \* how many members an archive may have

(* The patterns of a policy match some files, or a directory they are in; other
   files are in a directory that a pattern matches which does not match them. *)
Policies == [roots: SUBSET Roots, exclude: SUBSET Paths, prune: SUBSET Paths]

ASSUME TreeAssumption ==
  /\ IsFiniteSet(Paths)
  /\ RootOf \in [Paths -> Roots]
  /\ BadNames \subseteq Paths
  /\ DefaultPolicy \in Policies
  /\ DefaultPolicy.roots # {}
  /\ MaxEntries \in Nat

Absent == 0

(* A link to a file outside of the context. *)
Foreign == -1

\* trees whose files are numbered up to n
Trees(n) == [Paths -> Foreign .. n]

Empty == [p \in Paths |-> Absent]

-----------------------------------------------------------------------------
(* resolvePersistencePolicy: what a policy leaves empty comes from the default. *)
RootsOf(policy) == IF policy.roots # {} THEN policy.roots ELSE DefaultPolicy.roots

PatternsOf(policy) ==
  IF policy.exclude \cup policy.prune # {} THEN policy ELSE DefaultPolicy

Managed(policy, p) == RootOf[p] \in RootsOf(policy)

Listed(policy, p) == Managed(policy, p) /\ p \notin PatternsOf(policy).exclude

(* tar_filter is asked of directories as well, and what it refuses is left out
   with everything in it. *)
Pruned(policy, p) == p \in PatternsOf(policy).prune

Persists(policy, p) == Listed(policy, p) /\ ~Pruned(policy, p)

(* snapshotScript: the files a version lists; a link counts as what it leads to. *)
Listing(tree, policy) ==
  [p \in Paths |-> IF Listed(policy, p) THEN tree[p] ELSE Absent]

(* MUTANT PackLinks: no filter on links. *)
PackLinks(tree, policy) ==
  [p \in Paths |-> IF Persists(policy, p) THEN tree[p] ELSE Absent]

(* packBundleScript: neither what is pruned nor the links that lead out; the
   names are not looked at. *)
Pack(tree, policy) ==
  [p \in Paths |-> IF Persists(policy, p) /\ tree[p] # Foreign THEN tree[p] ELSE Absent]

Members(archive) == {p \in Paths : archive[p] # Absent}

(* assertSafeArchive and the same checks in unpackBundleScript: one bad name or
   link, or one member too many, and the archive is refused. *)
Accepts(archive) ==
  /\ Members(archive) \cap BadNames = {}
  /\ Foreign \notin {archive[p] : p \in Paths}
  /\ Cardinality(Members(archive)) <= MaxEntries

(* MUTANT UnpackOver: the managed roots are not cleared first. *)
UnpackOver(tree, archive, policy) ==
  [p \in Paths |-> IF p \in Members(archive) THEN archive[p] ELSE tree[p]]

(* unpackBundleScript: the managed roots go, the members come. *)
Unpack(tree, archive, policy) ==
  [p \in Paths |-> IF p \in Members(archive) THEN archive[p]
                   ELSE IF Managed(policy, p) THEN Absent ELSE tree[p]]

(* diffVersionFiles, and the same in snapshotScript. *)
Diff(old, new) ==
  [added    |-> {p \in Paths : old[p] = Absent /\ new[p] # Absent},
   modified |-> {p \in Paths : old[p] # Absent /\ new[p] # Absent /\ old[p] # new[p]},
   removed  |-> {p \in Paths : old[p] # Absent /\ new[p] = Absent}]

\* a listing after the changes that a Diff names, given the new contents
Apply(old, changes, new) ==
  [p \in Paths |-> IF p \in changes.added \cup changes.modified THEN new[p]
                   ELSE IF p \in changes.removed THEN Absent ELSE old[p]]
=============================================================================
