------------------------- MODULE MCMountedSandbox -------------------------
(***************************************************************************)
(* Small instances of MountedSandbox: a note in the workspace and a file   *)
(* in the cache whose name no attach takes.  The default policy keeps      *)
(* both; the callers' policy leaves the cache alone and excludes the       *)
(* note's directory, so that the note is listed and not packed.            *)
(***************************************************************************)
EXTENDS MountedSandbox

CONSTANTS note, blob, workspace, cache

RootOfPath == [p \in Paths |-> IF p = blob THEN cache ELSE workspace]

\* what it excludes is left to the default, which excludes nothing
Whole == [roots |-> {workspace, cache}, exclude |-> {}, prune |-> {}]

Narrow == [roots |-> {workspace}, exclude |-> {}, prune |-> {note}]

CallerPolicies == {Narrow}
=============================================================================
