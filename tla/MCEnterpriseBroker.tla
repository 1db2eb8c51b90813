------------------------ MODULE MCEnterpriseBroker ------------------------
(***************************************************************************)
(* A small instance of EnterpriseBroker: an employee and an administrator, *)
(* a runtime whose adapters carry ids of their own and one, over ssh, that *)
(* is known by its name.                                                   *)
(***************************************************************************)
EXTENDS EnterpriseBroker, TLC

CONSTANTS c1, c2, c3, ann, root

Roles == (ann :> {}) @@ (root :> {"admin", "restricted-context"})

AdapterIds == ("e2b" :> "e2b:1") @@ ("ssh" :> "ssh") @@ ("vm" :> "vm:1")

Base == [action |-> "context.start", actor |-> ann, disabled |-> FALSE, owner |-> None,
         classification |-> "internal", runtime |-> "e2b", size |-> "fits", claims |-> FALSE,
         force |-> FALSE, createIfMissing |-> TRUE, adapter |-> None]

Creation == [Base EXCEPT !.action = "context.create", !.runtime = None, !.createIfMissing = FALSE]
OfSession == [Base EXCEPT !.runtime = None, !.createIfMissing = FALSE]

SomeRequests ==
  {Base, [Base EXCEPT !.runtime = "ssh", !.adapter = "ssh"],
   [Base EXCEPT !.runtime = "vm", !.adapter = "ssh"], [Base EXCEPT !.size = "exceeds"],
   [Base EXCEPT !.action = "context.run"],
   [Base EXCEPT !.action = "context.run", !.runtime = "vm", !.owner = root],
   [Creation EXCEPT !.force = TRUE], [Creation EXCEPT !.size = "unparsable"],
   [OfSession EXCEPT !.action = "context.save"],
   [OfSession EXCEPT !.action = "context.end"],
   [OfSession EXCEPT !.action = "context.end", !.actor = root, !.owner = ann, !.force = TRUE],
   [OfSession EXCEPT !.action = "context.read", !.actor = root, !.owner = ann]}

Interchangeable == Permutations(Calls)
=============================================================================
