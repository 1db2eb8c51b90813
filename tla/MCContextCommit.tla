-------------------------- MODULE MCContextCommit --------------------------
(***************************************************************************)
(* Small instances of ContextCommit: who does what, and what goes wrong.   *)
(***************************************************************************)
EXTENDS ContextCommit, TLC

CONSTANTS A, B

\* A and B both create and save; nobody checkpoints
Savers == [w \in Owners |-> {"create", "save"}]

\* an ext4 context: A's runtime mounts images; B unpacks the tree, checkpoints
\* and takes the lock by force
OneCheckpointer ==
  (A :> {"create", "ext4", "loopExt4", "save"})
    @@ [w \in Owners |-> {"save", "checkpoint", "forceUnlock"}]

\* sessions record runtime state after they have released the lock
Touching == [w \in Owners |-> {"create", "save", "touch"}]

\* A recreates its ext4 context by force, while B saves
Recreator ==
  (A :> {"create", "recreate", "ext4", "loopExt4", "save", "checkpoint"})
    @@ [w \in Owners |-> {"save"}]
=============================================================================
