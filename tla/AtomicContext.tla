--------------------------- MODULE AtomicContext ---------------------------
(***************************************************************************)
(* What a context promises to the sessions that share it: one current      *)
(* state, replaced in single atomic steps, each a save or a checkpoint on  *)
(* top of everything committed before it.                                  *)
(***************************************************************************)
EXTENDS Integers

CONSTANT Edits      \* what sessions write into the context

VARIABLE head       \* generation, checkpoint generation and edits of the current state

Nothing == [generation |-> 0, checkpointGeneration |-> 0, edits |-> {}]

AtomicInit == head = Nothing

AtomicCreate ==
  /\ head = Nothing
  /\ \E e \in Edits :
       head' = [generation |-> 1, checkpointGeneration |-> 0, edits |-> {e}]

More == {edits \in SUBSET Edits : head.edits \subseteq edits /\ edits # head.edits}

AtomicSave ==
  /\ head # Nothing
  /\ \E edits \in More :
       head' = [head EXCEPT !.generation = @ + 1, !.edits = edits]

AtomicCheckpoint ==
  /\ head # Nothing
  /\ \E edits \in More :
       head' = [head EXCEPT !.checkpointGeneration = @ + 1, !.edits = edits]

AtomicNext == AtomicCreate \/ AtomicSave \/ AtomicCheckpoint

AtomicSpec == AtomicInit /\ [][AtomicNext]_head
=============================================================================
