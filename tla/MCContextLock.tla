--------------------------- MODULE MCContextLock ---------------------------
(***************************************************************************)
(* Small instances of ContextLock.  Owner A is one session with two        *)
(* concurrent callers, its main flow and its renewal timer; B is another   *)
(* session with one caller.                                                *)
(***************************************************************************)
EXTENDS ContextLock, TLC

CONSTANTS a1, a2, b1, A, B

ThreeCallers == {a1, a2, b1}

\* the two callers of one session are interchangeable
Interchangeable == Permutations({a1, a2})

SessionOf == [c \in Clients |-> IF c = b1 THEN B ELSE A]
=============================================================================
