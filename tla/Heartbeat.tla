----------------------------- MODULE Heartbeat -----------------------------
(***************************************************************************)
(* The heartbeat of a session against the clock (startLockRenewalTimer in  *)
(* src/src/context.ts, renewLock in lock.ts): every beat renews the lock   *)
(* and asks the provider for more time for the sandbox, by calls that may  *)
(* take long, fail, or be carried out and never be answered.  The          *)
(* provider counts down anew when asked (E2B) or adds to the countdown,    *)
(* the adapter keeping the tally (Vercel).  SessionRun has what a reported *)
(* failure leads to.                                                       *)
(***************************************************************************)
EXTENDS Integers

CONSTANTS Ttl,       \* lockTtlMs
          Timeout,   \* sandboxTimeoutMs
          Floor,     \* 30 s
          Remaining, \* what the sandbox has left to live when the timer starts
          Held,      \* and the lock
          Provider,  \* "reset" or "extend"
          MaxBeats,  \* bound on the number of beats
          MaxTime    \* bound on the clock

ASSUME HeartbeatAssumption ==
  /\ Floor \in Nat \ {0}
  /\ Ttl \in Nat /\ Timeout \in Nat
  /\ Remaining \in 0 .. Timeout
  /\ Held \in 1 .. Ttl
  /\ Provider \in {"reset", "extend"}
  /\ MaxBeats \in Nat /\ MaxTime \in Nat

VARIABLES now,
          due,      \* when the timer fires next
          stopped,  \* stop() was called
          lease,    \* when the lock expires; 0 when there is none
          version,  \* its etag
          deadline, \* when the provider stops the sandbox
          intended, \* VercelSandboxAdapter.intendedDeadline
          count,    \* beats so far
          beats,    \* the calls of every beat
          late,     \* history: a call of a beat was not carried out in time
          doubled   \* history: an extension was asked for with an earlier one unanswered

vars ==
  <<now, due, stopped, lease, version, deadline, intended, count, beats, late, doubled>>

Smaller(a, b) == IF a < b THEN a ELSE b
Larger(a, b) == IF a > b THEN a ELSE b

(* MUTANT TtlOnly: the lifetime of the sandbox is not looked at. *)
TtlOnly(ttl, timeout, floor) == Larger(ttl \div 3, floor)

(* intervalMs *)
IntervalOf(ttl, timeout, floor) == Larger(Smaller(ttl \div 3, timeout \div 3), floor)

Interval == IntervalOf(Ttl, Timeout, Floor)

(* beatDeadlineMs *)
BeatDeadline == Smaller(Interval, Floor)

Phases == {"sent", "read", "landed", "ok", "failed"}

Beats == [at: Nat,
          renew: Phases, stamp: Nat, seen: Nat,  \* expiresAt and the etag it was read with
          keep: Phases, target: Nat, delta: Int, \* of an extension
          report: {"none", "ok", "failed", "muted"}]

NoBeat == [at |-> 0, renew |-> "failed", stamp |-> 0, seen |-> 0,
           keep |-> "failed", target |-> 0, delta |-> 0, report |-> "none"]

Init ==
  /\ now = 0 /\ due = Interval /\ stopped = FALSE
  /\ lease = Held /\ version = 1
  /\ deadline = Remaining /\ intended = Timeout
  /\ count = 0 /\ beats = [k \in 1 .. MaxBeats |-> NoBeat]
  /\ late = FALSE /\ doubled = FALSE

CarriedOut(phase) == phase \in {"landed", "ok"}

Settled(phase) == phase \in {"ok", "failed"}

-----------------------------------------------------------------------------
(* MUTANT ExtendsAnew: every beat asks for a whole lifetime. *)
ExtendsAnew(target) == Timeout

(* keepAlive of the Vercel adapter asks for what is missing by its own tally. *)
Extends(target) == target - intended

(* MUTANT SentForTtl: the sandbox is asked to live as long as the lock. *)
SentForTtl(target) ==
  [NoBeat EXCEPT !.at = now, !.renew = "sent", !.keep = "sent",
                 !.target = now + Ttl, !.delta = Extends(now + Ttl)]

(* The calls of a beat; nothing is asked for when there is time enough. *)
Sent(target) ==
  [NoBeat EXCEPT !.at = now, !.renew = "sent",
                 !.keep = IF Provider = "extend" /\ Extends(target) <= 0 THEN "ok" ELSE "sent",
                 !.target = target, !.delta = Extends(target)]

(* The timer fires. *)
Beat ==
  /\ ~stopped /\ now = due /\ count < MaxBeats
  /\ count' = count + 1
  /\ beats' = [beats EXCEPT ![count + 1] = Sent(now + Timeout)]
  /\ due' = due + Interval
  /\ doubled' = (doubled \/ \E k \in 1 .. count : beats[k].keep \in {"sent", "landed"})
  /\ UNCHANGED <<now, stopped, lease, version, deadline, intended, late>>

(* renewLock: the lock is read, and found to be there. *)
RenewRead(k) ==
  /\ beats[k].renew = "sent" /\ lease # 0
  /\ beats' = [beats EXCEPT ![k].renew = "read", ![k].stamp = now + Ttl, ![k].seen = version]
  /\ UNCHANGED <<now, due, stopped, lease, version, deadline, intended, count, late, doubled>>

(* MUTANT AnyLock: the put is not conditional. *)
AnyLock(k) == TRUE

(* ifMatch *)
SameLock(k) == beats[k].seen = version

RenewLand(k) ==
  /\ beats[k].renew = "read" /\ SameLock(k)
  /\ lease' = beats[k].stamp
  /\ version' = version + 1
  /\ beats' = [beats EXCEPT ![k].renew = "landed", ![k].stamp = 0, ![k].seen = 0]
  /\ UNCHANGED <<now, due, stopped, deadline, intended, count, late, doubled>>

RenewSettle(k) ==
  /\ \/ beats[k].renew = "landed" /\ beats' = [beats EXCEPT ![k].renew = "ok"]
     \/ /\ beats[k].renew \in {"sent", "read"}
        /\ beats' = [beats EXCEPT ![k].renew = "failed", ![k].stamp = 0, ![k].seen = 0]
  /\ UNCHANGED <<now, due, stopped, lease, version, deadline, intended, count, late, doubled>>

(* setTimeout or extendTimeout reaches a sandbox that is alive. *)
KeepLand(k) ==
  /\ beats[k].keep = "sent" /\ now < deadline
  /\ deadline' = IF Provider = "reset" THEN now + Timeout ELSE deadline + beats[k].delta
  /\ beats' = [beats EXCEPT ![k].keep = "landed", ![k].delta = 0]
  /\ UNCHANGED <<now, due, stopped, lease, version, intended, count, late, doubled>>

(* MUTANT TalliesErrors: the tally is moved on whether or not the call went well. *)
TalliesErrors(k, phase) == beats[k].target

(* The tally moves on when the provider has answered. *)
Tally(k, phase) == IF phase = "ok" /\ Provider = "extend" THEN beats[k].target ELSE intended

KeepSettle(k) ==
  /\ \E phase \in {"ok", "failed"} :
       /\ beats[k].keep = IF phase = "failed" THEN "sent" ELSE "landed"
       /\ beats' = [beats EXCEPT ![k].keep = phase]
       /\ intended' = Tally(k, phase)
  /\ UNCHANGED <<now, due, stopped, lease, version, deadline, count, late, doubled>>

(* withDeadline *)
Heard(k, phase) == Settled(phase) \/ now >= beats[k].at + BeatDeadline

Reportable(k) == beats[k].report = "none" /\ Heard(k, beats[k].renew) /\ Heard(k, beats[k].keep)

(* Both calls are heard of: the monitor is told, unless the timer was stopped. *)
Report(k) ==
  /\ Reportable(k)
  /\ beats' = [beats EXCEPT ![k].report =
                 IF stopped THEN "muted"
                 ELSE IF beats[k].renew = "ok" /\ beats[k].keep = "ok" THEN "ok" ELSE "failed"]
  /\ UNCHANGED <<now, due, stopped, lease, version, deadline, intended, count, late, doubled>>

(* stop, then the release of the lock and the end of the sandbox. *)
Stop ==
  /\ ~stopped
  /\ stopped' = TRUE
  /\ UNCHANGED <<now, due, lease, version, deadline, intended, count, beats, late, doubled>>

Release ==
  /\ stopped /\ lease # 0
  /\ lease' = 0 /\ version' = version + 1
  /\ UNCHANGED <<now, due, stopped, deadline, intended, count, beats, late, doubled>>

Dispose ==
  /\ stopped /\ deadline > now
  /\ deadline' = now
  /\ UNCHANGED <<now, due, stopped, lease, version, intended, count, beats, late, doubled>>

Overdue(k) ==
  /\ now >= beats[k].at + BeatDeadline
  /\ ~CarriedOut(beats[k].renew) \/ ~CarriedOut(beats[k].keep)

(* Timers fire, and reports are made, at the time they are due. *)
Tick ==
  /\ now < MaxTime
  /\ stopped \/ now < due
  /\ \A k \in 1 .. count : ~Reportable(k)
  /\ now' = now + 1
  /\ late' = (late \/ \E k \in 1 .. count : Overdue(k))
  /\ UNCHANGED <<due, stopped, lease, version, deadline, intended, count, beats, doubled>>

Next ==
  \/ Beat \/ Stop \/ Release \/ Dispose \/ Tick
  \/ \E k \in 1 .. count :
       RenewRead(k) \/ RenewLand(k) \/ RenewSettle(k) \/ KeepLand(k) \/ KeepSettle(k) \/ Report(k)

Spec == Init /\ [][Next]_vars

-----------------------------------------------------------------------------
TypeOK ==
  /\ now \in Nat /\ due \in Nat /\ stopped \in BOOLEAN
  /\ lease \in Nat /\ version \in Nat
  /\ deadline \in Nat /\ intended \in Nat
  /\ count \in 0 .. MaxBeats /\ beats \in [1 .. MaxBeats -> Beats]
  /\ late \in BOOLEAN /\ doubled \in BOOLEAN
  /\ due = (count + 1) * Interval
  /\ \A k \in 1 .. count : beats[k].at = k * Interval /\ beats[k].target = beats[k].at + Timeout

(***************************************************************************)
(* "Cadence must stay below BOTH the lock TTL and the sandbox lifetime"    *)
(* (context.ts:1061): while every call of a beat is carried out within the *)
(* deadline of the beat, neither the lock nor the sandbox ever has less    *)
(* left than it had at first but for a third of its own lifetime, or the   *)
(* floor, and the time a beat is given.  So they do not run out if they    *)
(* had more than that; nothing makes sure of it, and where they had less   *)
(* they may be out for the difference, and no longer.                      *)
(***************************************************************************)
Wait(lifetime) == Larger(lifetime \div 3, Floor) + Floor

OutlivesTheBeats ==
  ~stopped /\ ~late => /\ now + Held <= lease + Wait(Ttl)
                       /\ now + Remaining <= deadline + Wait(Timeout)

(***************************************************************************)
(* A renewal that was on its way when the lock was released does not bring *)
(* the lock back: the next session need not wait for its expiry.           *)
(***************************************************************************)
StaysReleased == [][lease = 0 => lease' = 0]_vars

(***************************************************************************)
(* The adapter never counts on time that the provider has not granted,     *)
(* whatever calls overlap, fail or lose their answers; a sandbox that had  *)
(* less than a lifetime left at first is short of that for good.           *)
(***************************************************************************)
TallyIsGranted == ~stopped => intended - Timeout <= deadline - Remaining

(***************************************************************************)
(* "Never racing the plan's maximum execution timeout" (index.ts:112 of    *)
(* the Vercel adapter): a sandbox is never granted more than its lifetime  *)
(* from now, unless an extension was asked for while an earlier one had    *)
(* not been answered, when both may be granted.                            *)
(***************************************************************************)
NoMoreThanALifetime == ~doubled => deadline <= now + Timeout
=============================================================================
