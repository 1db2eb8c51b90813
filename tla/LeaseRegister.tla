--------------------------- MODULE LeaseRegister ---------------------------
(***************************************************************************)
(* What the lock object of a context promises to its users: one lease,     *)
(* owned by at most one owner, that lapses with time and that passes to    *)
(* another owner only when it is absent or has lapsed, or when a caller    *)
(* seizes or drops it on purpose.  ContextLock, the read-then-write        *)
(* protocol of src/src/lock.ts, implements this specification;             *)
(* ContextCommit is built on the actions below.                            *)
(***************************************************************************)
CONSTANTS Owners,   \* owner strings: one per session
          NoOwner   \* the owner of an absent lock

ASSUME OwnerAssumption == NoOwner \notin Owners

VARIABLE lease      \* [owner, live]: who owns the lock object, and whether it has not expired

Leases == [owner: Owners \cup {NoOwner}, live: BOOLEAN]

NoLease == [owner |-> NoOwner, live |-> FALSE]

LeaseInit == lease = NoLease

(***************************************************************************)
(* A lease stands in the way of o when it is live and another owner's.     *)
(***************************************************************************)
Blocks(o) == lease.live /\ lease.owner # o

(***************************************************************************)
(* o obtains the lease, or adopts the one it already owns.  The new lease  *)
(* may be stillborn (live = FALSE): its expiry is computed before the      *)
(* write lands.                                                            *)
(***************************************************************************)
Grant(o, live) ==
  /\ ~Blocks(o)
  /\ lease' = [owner |-> o, live |-> live]

(***************************************************************************)
(* The owner pushes the expiry back.  A lapsed lease nobody took over is   *)
(* revived.                                                                *)
(***************************************************************************)
Extend(o, live) ==
  /\ lease.owner = o
  /\ lease' = [lease EXCEPT !.live = live]

Seize(o, live) == lease' = [owner |-> o, live |-> live]

Drop == lease' = NoLease

Lapse ==
  /\ lease.live
  /\ lease' = [lease EXCEPT !.live = FALSE]

LeaseNext ==
  \/ \E o \in Owners, live \in BOOLEAN :
       Grant(o, live) \/ Extend(o, live)
  \/ Drop
  \/ Lapse

(***************************************************************************)
(* The promise of a lock nobody seizes: between a live lease of one owner  *)
(* and a lease of another there is always a lapse or a deletion.           *)
(***************************************************************************)
LeaseSpec == LeaseInit /\ [][LeaseNext]_lease
=============================================================================
