-------------------------- MODULE HeartbeatProofs --------------------------
(***************************************************************************)
(* How much of its lifetime a lock and a sandbox lose at most under the    *)
(* heartbeat of Heartbeat, for lifetimes of any length, and for any number *)
(* of beats whose calls overlap.                                           *)
(***************************************************************************)
EXTENDS Heartbeat, TLAPS

USE HeartbeatAssumption

-----------------------------------------------------------------------------
(* Arithmetic *)

(* A beat and the time it is given are no longer than either lifetime's    *)
(* share.                                                                  *)
LEMMA IntervalFits ==
  /\ Interval \in Nat \ {0} /\ BeatDeadline = Floor /\ Floor \in Nat \ {0}
  /\ Interval >= Floor
  /\ Wait(Ttl) \in Nat /\ Interval + Floor <= Wait(Ttl)
  /\ Wait(Timeout) \in Nat /\ Interval + Floor <= Wait(Timeout)
<1> DEFINE t == Ttl \div 3
           u == Timeout \div 3
<1>1. t \in Nat /\ u \in Nat /\ Floor \in Nat \ {0}
  BY DEF HeartbeatAssumption
<1>2. /\ Interval = Larger(Smaller(t, u), Floor)
      /\ Wait(Ttl) = Larger(t, Floor) + Floor /\ Wait(Timeout) = Larger(u, Floor) + Floor
  BY DEF Interval, IntervalOf, Wait
<1> HIDE DEF t, u
<1> QED
  BY <1>1, <1>2 DEF BeatDeadline, Larger, Smaller

LEMMA Constants ==
  /\ Ttl \in Nat /\ Timeout \in Nat /\ Remaining \in Nat /\ Held \in Nat /\ Held > 0
  /\ Held <= Ttl /\ Remaining <= Timeout /\ MaxBeats \in Nat /\ Provider \in {"reset", "extend"}
  BY DEF HeartbeatAssumption

LEMMA NextDue ==
  ASSUME NEW c \in Nat, NEW i \in Nat
  PROVE  (c + 1) * i \in Nat /\ (c + 1) * i + i = (c + 2) * i /\ (c + 1) * i = c * i + i
  OBVIOUS

-----------------------------------------------------------------------------
(* Types *)

(* An extension that has been sent asks for time. *)
Extensions ==
  Provider = "extend" => \A k \in 1 .. count : beats[k].keep = "sent" => beats[k].delta > 0

LEMMA InitTypes == Init => TypeOK /\ Extensions
<1> SUFFICES ASSUME Init PROVE TypeOK /\ Extensions
  OBVIOUS
<1>1. NoBeat \in Beats
  BY DEF NoBeat, Beats, Phases
<1>2. (0 + 1) * Interval = Interval /\ Interval \in Nat
  BY IntervalFits
<1>3. now \in Nat /\ due \in Nat /\ stopped \in BOOLEAN /\ lease \in Nat /\ version \in Nat
  BY <1>2, Constants DEF Init
<1>4. deadline \in Nat /\ intended \in Nat /\ late \in BOOLEAN /\ doubled \in BOOLEAN
  BY Constants DEF Init
<1>5. count \in 0 .. MaxBeats /\ beats \in [1 .. MaxBeats -> Beats]
  BY <1>1, Constants DEF Init
<1>6. due = (count + 1) * Interval /\ count = 0
  BY <1>2 DEF Init
<1> QED
  BY <1>3, <1>4, <1>5, <1>6 DEF TypeOK, Extensions

LEMMA Plain ==
  ASSUME TypeOK
  PROVE  /\ now \in Nat /\ due \in Nat /\ stopped \in BOOLEAN /\ lease \in Nat /\ version \in Nat
         /\ deadline \in Nat /\ intended \in Nat /\ late \in BOOLEAN /\ doubled \in BOOLEAN
         /\ count \in Nat /\ count <= MaxBeats
         /\ beats \in [1 .. MaxBeats -> Beats]
         /\ \A k \in 1 .. count : k \in 1 .. MaxBeats /\ beats[k] \in Beats
  BY Constants DEF TypeOK

LEMMA NextTypes == TypeOK /\ Extensions /\ [Next]_vars => TypeOK' /\ Extensions'
<1> SUFFICES ASSUME TypeOK, Extensions, [Next]_vars
             PROVE  TypeOK' /\ Extensions'
  OBVIOUS
<1>0. /\ now \in Nat /\ due \in Nat /\ stopped \in BOOLEAN /\ lease \in Nat /\ version \in Nat
      /\ deadline \in Nat /\ intended \in Nat /\ late \in BOOLEAN /\ doubled \in BOOLEAN
      /\ count \in Nat /\ count <= MaxBeats
      /\ \A k \in 1 .. count : k \in 1 .. MaxBeats /\ beats[k] \in Beats
  BY Plain
<1>1. CASE Beat
  <2> DEFINE b == Sent(now + Timeout)
  <2>1. /\ b \in Beats /\ b.at = now /\ b.target = now + Timeout
        /\ Provider = "extend" /\ b.keep = "sent" => b.delta > 0
    <3> DEFINE t == now + Timeout
               d == Extends(t)
               p == IF Provider = "extend" /\ d <= 0 THEN "ok" ELSE "sent"
    <3>1. t \in Nat /\ d \in Int
      BY <1>0, Constants DEF Extends
    <3>2. p \in Phases /\ (Provider = "extend" /\ p = "sent" => d > 0)
      BY <3>1 DEF Phases
    <3>3. b = [NoBeat EXCEPT !.at = now, !.renew = "sent", !.keep = p, !.target = t, !.delta = d]
      BY DEF Sent
    <3>4. b.target = now + Timeout
      BY <3>3 DEF NoBeat
    <3> HIDE DEF b, t, d, p
    <3>5. NoBeat \in Beats /\ "sent" \in Phases /\ now \in Nat
      BY <1>0 DEF NoBeat, Beats, Phases
    <3>6. b \in Beats /\ b.at = now /\ b.keep = p /\ b.delta = d
      BY <3>1, <3>2, <3>3, <3>5 DEF Beats
    <3> QED
      BY <3>2, <3>4, <3>6
  <2>2. beats' = [beats EXCEPT ![count + 1] = b] /\ count' = count + 1 /\ now = due
        /\ due' = due + Interval /\ count + 1 \in 1 .. MaxBeats /\ count \in Nat
    BY <1>0, <1>1, Constants DEF Beat
  <2> HIDE DEF b
  <2>3. due' \in Nat /\ due' = (count' + 1) * Interval /\ due = (count + 1) * Interval
    BY <2>2, NextDue, IntervalFits DEF TypeOK
  <2>4. beats' \in [1 .. MaxBeats -> Beats] /\ count' \in 0 .. MaxBeats
    BY <2>1, <2>2 DEF TypeOK
  <2>5. ASSUME NEW k \in 1 .. count'
        PROVE  /\ beats'[k].at = k * Interval /\ beats'[k].target = beats'[k].at + Timeout
               /\ Provider = "extend" /\ beats'[k].keep = "sent" => beats'[k].delta > 0
    <3>1. CASE k = count + 1
      BY <2>1, <2>2, <2>3, <3>1 DEF TypeOK
    <3>2. CASE k # count + 1
      <4>1. k \in 1 .. count /\ beats'[k] = beats[k]
        BY <2>2, <3>2 DEF TypeOK
      <4> QED
        BY <4>1 DEF TypeOK, Extensions
    <3> QED
      BY <3>1, <3>2
  <2>6. now' \in Nat /\ stopped' \in BOOLEAN /\ lease' \in Nat /\ version' \in Nat
        /\ deadline' \in Nat /\ intended' \in Nat /\ late' \in BOOLEAN
    BY <1>1 DEF Beat, TypeOK
  <2>7. doubled' \in BOOLEAN
    BY <1>1 DEF Beat, TypeOK
  <2> QED
    BY <2>3, <2>4, <2>5, <2>6, <2>7 DEF TypeOK, Extensions
<1>2. ASSUME NEW k \in 1 .. count, NEW b \in Beats,
             beats' = [beats EXCEPT ![k] = b], b.at = beats[k].at, b.target = beats[k].target,
             Provider = "extend" /\ b.keep = "sent" => beats[k].keep = "sent" /\ b.delta = beats[k].delta,
             count' = count
      PROVE  /\ beats' \in [1 .. MaxBeats -> Beats]
             /\ \A j \in 1 .. count' : /\ beats'[j].at = j * Interval
                                       /\ beats'[j].target = beats'[j].at + Timeout
             /\ Extensions'
  <2>1. k \in 1 .. MaxBeats /\ beats'[k] = b /\ \A j \in 1 .. count : j # k => beats'[j] = beats[j]
    BY <1>0, <1>2 DEF TypeOK
  <2>2. beats' \in [1 .. MaxBeats -> Beats]
    BY <1>2, <2>1 DEF TypeOK
  <2>3. \A j \in 1 .. count' : beats'[j].at = j * Interval /\ beats'[j].target = beats'[j].at + Timeout
    BY <1>2, <2>1 DEF TypeOK
  <2>4. Extensions'
    BY <1>2, <2>1 DEF TypeOK, Extensions
  <2> QED
    BY <2>2, <2>3, <2>4
<1>3. ASSUME NEW k \in 1 .. count
      PROVE  beats[k] \in Beats
  BY <1>0
<1>4. CASE \E k \in 1 .. count : RenewRead(k)
  <2> PICK k \in 1 .. count : RenewRead(k)
    BY <1>4
  <2> DEFINE b == [beats[k] EXCEPT !.renew = "read", !.stamp = now + Ttl, !.seen = version]
  <2>1. b \in Beats /\ b.at = beats[k].at /\ b.target = beats[k].target
        /\ b.keep = beats[k].keep /\ b.delta = beats[k].delta
    <3>1. now + Ttl \in Nat
      BY <1>0, Constants
    <3> QED
      BY <1>0, <1>3, <3>1 DEF Beats, Phases
  <2>2. beats' = [beats EXCEPT ![k] = b] /\ count' = count
    BY DEF RenewRead
  <2> HIDE DEF b
  <2>3. /\ beats' \in [1 .. MaxBeats -> Beats] /\ Extensions'
        /\ \A j \in 1 .. count' : beats'[j].at = j * Interval /\ beats'[j].target = beats'[j].at + Timeout
    BY <1>2, <2>1, <2>2
  <2> QED
    BY <2>3 DEF RenewRead, TypeOK
<1>5. CASE \E k \in 1 .. count : RenewLand(k)
  <2> PICK k \in 1 .. count : RenewLand(k)
    BY <1>5
  <2> DEFINE b == [beats[k] EXCEPT !.renew = "landed", !.stamp = 0, !.seen = 0]
  <2>1. b \in Beats /\ b.at = beats[k].at /\ b.target = beats[k].target
        /\ b.keep = beats[k].keep /\ b.delta = beats[k].delta /\ beats[k].stamp \in Nat
    BY <1>3 DEF Beats, Phases
  <2>2. beats' = [beats EXCEPT ![k] = b] /\ count' = count /\ lease' = beats[k].stamp
    BY DEF RenewLand
  <2> HIDE DEF b
  <2>3. /\ beats' \in [1 .. MaxBeats -> Beats] /\ Extensions'
        /\ \A j \in 1 .. count' : beats'[j].at = j * Interval /\ beats'[j].target = beats'[j].at + Timeout
    BY <1>2, <2>1, <2>2
  <2> QED
    <3>1. lease' \in Nat /\ version' \in Nat
      BY <1>0, <2>1, <2>2 DEF RenewLand
    <3> QED
      BY <2>3, <3>1 DEF RenewLand, TypeOK
<1>6. CASE \E k \in 1 .. count : RenewSettle(k)
  <2> PICK k \in 1 .. count : RenewSettle(k)
    BY <1>6
  <2>1. PICK b \in Beats : /\ beats' = [beats EXCEPT ![k] = b]
                           /\ b.at = beats[k].at /\ b.target = beats[k].target
                           /\ b.keep = beats[k].keep /\ b.delta = beats[k].delta
    <3>1. CASE beats' = [beats EXCEPT ![k].renew = "ok"]
      <4>1. [beats[k] EXCEPT !.renew = "ok"] \in Beats
        BY <1>3 DEF Beats, Phases
      <4> QED
        BY <1>3, <3>1, <4>1 DEF Beats
    <3>2. CASE beats' = [beats EXCEPT ![k].renew = "failed", ![k].stamp = 0, ![k].seen = 0]
      <4>1. [beats[k] EXCEPT !.renew = "failed", !.stamp = 0, !.seen = 0] \in Beats
        BY <1>3 DEF Beats, Phases
      <4>2. beats' = [beats EXCEPT ![k] = [beats[k] EXCEPT !.renew = "failed", !.stamp = 0, !.seen = 0]]
        BY <3>2
      <4> QED
        BY <1>3, <4>1, <4>2 DEF Beats
    <3> QED
      BY <3>1, <3>2 DEF RenewSettle
  <2>2. count' = count
    BY DEF RenewSettle
  <2>3. /\ beats' \in [1 .. MaxBeats -> Beats] /\ Extensions'
        /\ \A j \in 1 .. count' : beats'[j].at = j * Interval /\ beats'[j].target = beats'[j].at + Timeout
    BY <1>2, <2>1, <2>2
  <2> QED
    BY <2>3 DEF RenewSettle, TypeOK
<1>7. CASE \E k \in 1 .. count : KeepLand(k)
  <2> PICK k \in 1 .. count : KeepLand(k)
    BY <1>7
  <2> DEFINE b == [beats[k] EXCEPT !.keep = "landed", !.delta = 0]
  <2>1. b \in Beats /\ b.at = beats[k].at /\ b.target = beats[k].target /\ b.keep = "landed"
    <3>1. 0 \in Int /\ "landed" \in Phases
      BY DEF Phases
    <3> QED
      BY <1>3, <3>1 DEF Beats
  <2>2. beats' = [beats EXCEPT ![k] = b] /\ count' = count /\ beats[k].keep = "sent"
    BY DEF KeepLand
  <2>3. deadline' \in Nat
    <3>1. beats[k].delta \in Int /\ (Provider = "extend" => beats[k].delta > 0)
      BY <1>3, <2>2 DEF Beats, Extensions
    <3> QED
      BY <1>0, <3>1, Constants DEF KeepLand
  <2> HIDE DEF b
  <2>4. /\ beats' \in [1 .. MaxBeats -> Beats] /\ Extensions'
        /\ \A j \in 1 .. count' : beats'[j].at = j * Interval /\ beats'[j].target = beats'[j].at + Timeout
    BY <1>2, <2>1, <2>2
  <2> QED
    BY <2>3, <2>4 DEF KeepLand, TypeOK
<1>8. CASE \E k \in 1 .. count : KeepSettle(k)
  <2> PICK k \in 1 .. count : KeepSettle(k)
    BY <1>8
  <2> PICK phase \in {"ok", "failed"} : beats' = [beats EXCEPT ![k].keep = phase] /\ intended' = Tally(k, phase)
    BY DEF KeepSettle
  <2> DEFINE b == [beats[k] EXCEPT !.keep = phase]
  <2>1. b \in Beats /\ b.at = beats[k].at /\ b.target = beats[k].target /\ b.keep # "sent"
        /\ beats[k].target \in Nat
    BY <1>3 DEF Beats, Phases
  <2>2. beats' = [beats EXCEPT ![k] = b] /\ count' = count
    BY DEF KeepSettle
  <2>3. intended' \in Nat
    BY <2>1 DEF Tally, TypeOK
  <2> HIDE DEF b
  <2>4. /\ beats' \in [1 .. MaxBeats -> Beats] /\ Extensions'
        /\ \A j \in 1 .. count' : beats'[j].at = j * Interval /\ beats'[j].target = beats'[j].at + Timeout
    BY <1>2, <2>1, <2>2
  <2> QED
    BY <2>3, <2>4 DEF KeepSettle, TypeOK
<1>9. CASE \E k \in 1 .. count : Report(k)
  <2> PICK k \in 1 .. count : Report(k)
    BY <1>9
  <2>1. PICK r \in {"ok", "failed", "muted"} : beats' = [beats EXCEPT ![k].report = r]
    BY DEF Report
  <2> DEFINE b == [beats[k] EXCEPT !.report = r]
  <2>2. b \in Beats /\ b.at = beats[k].at /\ b.target = beats[k].target
        /\ b.keep = beats[k].keep /\ b.delta = beats[k].delta
    BY <1>3 DEF Beats, Phases
  <2>3. beats' = [beats EXCEPT ![k] = b] /\ count' = count
    BY <2>1 DEF Report
  <2> HIDE DEF b
  <2>4. /\ beats' \in [1 .. MaxBeats -> Beats] /\ Extensions'
        /\ \A j \in 1 .. count' : beats'[j].at = j * Interval /\ beats'[j].target = beats'[j].at + Timeout
    BY <1>2, <2>2, <2>3
  <2> QED
    BY <2>4 DEF Report, TypeOK
<1>10. CASE Stop \/ Release \/ Dispose
  <2>1. CASE Stop
    BY <2>1 DEF Stop, TypeOK, Extensions
  <2>2. CASE Release
    <3>1. lease' \in Nat /\ version' \in Nat
      BY <1>0, <2>2 DEF Release
    <3> QED
      BY <2>2, <3>1 DEF Release, TypeOK, Extensions
  <2>3. CASE Dispose
    <3>1. deadline' \in Nat
      BY <1>0, <2>3 DEF Dispose
    <3> QED
      BY <2>3, <3>1 DEF Dispose, TypeOK, Extensions
  <2> QED
    BY <1>10, <2>1, <2>2, <2>3
<1>11. CASE Tick
  BY <1>11 DEF Tick, TypeOK, Extensions
<1>12. CASE UNCHANGED vars
  BY <1>12 DEF vars, TypeOK, Extensions
<1> QED
  BY <1>1, <1>4, <1>5, <1>6, <1>7, <1>8, <1>9, <1>10, <1>11, <1>12 DEF Next

(* Every variable keeps its type, and the beats their rhythm. *)
THEOREM TypesKept == Spec => []TypeOK
<1>1. Spec => [](TypeOK /\ Extensions)
  BY InitTypes, NextTypes, PTL DEF Spec
<1> QED
  BY <1>1, PTL

-----------------------------------------------------------------------------
(* What the steps of a call leave alone *)

LEMMA Changed ==
  ASSUME TypeOK, NEW k \in 1 .. count, NEW b, beats' = [beats EXCEPT ![k] = b]
  PROVE  beats'[k] = b /\ \A j \in 1 .. count : j # k => beats'[j] = beats[j]
  BY Plain

LEMMA ReadStep ==
  ASSUME TypeOK, NEW k \in 1 .. count, RenewRead(k)
  PROVE  /\ beats'[k].renew = "read" /\ beats'[k].stamp = now + Ttl /\ beats'[k].seen = version
         /\ beats'[k].at = beats[k].at /\ beats'[k].keep = beats[k].keep
         /\ beats'[k].target = beats[k].target /\ beats'[k].delta = beats[k].delta
         /\ \A j \in 1 .. count : j # k => beats'[j] = beats[j]
<1> DEFINE b == [beats[k] EXCEPT !.renew = "read", !.stamp = now + Ttl, !.seen = version]
<1>1. beats' = [beats EXCEPT ![k] = b]
  BY DEF RenewRead
<1>2. /\ b.renew = "read" /\ b.stamp = now + Ttl /\ b.seen = version
      /\ b.at = beats[k].at /\ b.keep = beats[k].keep
      /\ b.target = beats[k].target /\ b.delta = beats[k].delta
  <2>1. beats[k] \in Beats
    BY Plain
  <2> QED
    BY <2>1 DEF Beats
<1> HIDE DEF b
<1> QED
  BY <1>1, <1>2, Changed

LEMMA LandStep ==
  ASSUME TypeOK, NEW k \in 1 .. count, RenewLand(k)
  PROVE  /\ beats'[k].renew = "landed"
         /\ beats'[k].at = beats[k].at /\ beats'[k].keep = beats[k].keep
         /\ beats'[k].target = beats[k].target /\ beats'[k].delta = beats[k].delta
         /\ \A j \in 1 .. count : j # k => beats'[j] = beats[j]
<1> DEFINE b == [beats[k] EXCEPT !.renew = "landed", !.stamp = 0, !.seen = 0]
<1>1. beats' = [beats EXCEPT ![k] = b]
  BY DEF RenewLand
<1>2. /\ b.renew = "landed" /\ b.at = beats[k].at /\ b.keep = beats[k].keep
      /\ b.target = beats[k].target /\ b.delta = beats[k].delta
  <2>1. beats[k] \in Beats
    BY Plain
  <2> QED
    BY <2>1 DEF Beats
<1> HIDE DEF b
<1> QED
  BY <1>1, <1>2, Changed

LEMMA SettleStep ==
  ASSUME TypeOK, NEW k \in 1 .. count, RenewSettle(k)
  PROVE  /\ \/ beats'[k].renew = "failed"
            \/ beats[k].renew = "landed" /\ beats'[k].renew = "ok"
         /\ beats'[k].at = beats[k].at /\ beats'[k].keep = beats[k].keep
         /\ beats'[k].target = beats[k].target /\ beats'[k].delta = beats[k].delta
         /\ \A j \in 1 .. count : j # k => beats'[j] = beats[j]
<1>0. beats[k] \in Beats
  BY Plain
<1>1. CASE beats[k].renew = "landed" /\ beats' = [beats EXCEPT ![k].renew = "ok"]
  <2> DEFINE b == [beats[k] EXCEPT !.renew = "ok"]
  <2>1. beats' = [beats EXCEPT ![k] = b]
    BY <1>1
  <2>2. /\ b.renew = "ok" /\ b.at = beats[k].at /\ b.keep = beats[k].keep
        /\ b.target = beats[k].target /\ b.delta = beats[k].delta
    BY <1>0 DEF Beats
  <2> HIDE DEF b
  <2> QED
    BY ZenonT(60), <1>1, <2>1, <2>2, Changed
<1>2. CASE beats' = [beats EXCEPT ![k].renew = "failed", ![k].stamp = 0, ![k].seen = 0]
  <2> DEFINE b == [beats[k] EXCEPT !.renew = "failed", !.stamp = 0, !.seen = 0]
  <2>1. beats' = [beats EXCEPT ![k] = b]
    BY <1>2
  <2>2. /\ b.renew = "failed" /\ b.at = beats[k].at /\ b.keep = beats[k].keep
        /\ b.target = beats[k].target /\ b.delta = beats[k].delta
    BY <1>0 DEF Beats
  <2> HIDE DEF b
  <2>3. beats'[k] = b /\ \A j \in 1 .. count : j # k => beats'[j] = beats[j]
    BY <2>1, Changed
  <2> QED
    BY <2>2, <2>3
<1> QED
  BY <1>1, <1>2 DEF RenewSettle

LEMMA KeepLandStep ==
  ASSUME TypeOK, NEW k \in 1 .. count, KeepLand(k)
  PROVE  /\ beats'[k].keep = "landed" /\ beats'[k].renew = beats[k].renew
         /\ beats'[k].stamp = beats[k].stamp /\ beats'[k].seen = beats[k].seen
         /\ beats'[k].at = beats[k].at /\ beats'[k].target = beats[k].target
         /\ \A j \in 1 .. count : j # k => beats'[j] = beats[j]
<1> DEFINE b == [beats[k] EXCEPT !.keep = "landed", !.delta = 0]
<1>1. beats' = [beats EXCEPT ![k] = b]
  BY DEF KeepLand
<1>2. /\ b.keep = "landed" /\ b.renew = beats[k].renew
      /\ b.stamp = beats[k].stamp /\ b.seen = beats[k].seen
      /\ b.at = beats[k].at /\ b.target = beats[k].target
  <2>1. beats[k] \in Beats
    BY Plain
  <2> QED
    BY <2>1 DEF Beats
<1> HIDE DEF b
<1> QED
  BY <1>1, <1>2, Changed

LEMMA KeepSettleStep ==
  ASSUME TypeOK, NEW k \in 1 .. count, NEW phase, beats' = [beats EXCEPT ![k].keep = phase]
  PROVE  /\ beats'[k].keep = phase /\ beats'[k].renew = beats[k].renew
         /\ beats'[k].stamp = beats[k].stamp /\ beats'[k].seen = beats[k].seen
         /\ beats'[k].at = beats[k].at /\ beats'[k].target = beats[k].target
         /\ beats'[k].delta = beats[k].delta
         /\ \A j \in 1 .. count : j # k => beats'[j] = beats[j]
<1> DEFINE b == [beats[k] EXCEPT !.keep = phase]
<1>1. beats' = [beats EXCEPT ![k] = b]
  OBVIOUS
<1>2. /\ b.keep = phase /\ b.renew = beats[k].renew
      /\ b.stamp = beats[k].stamp /\ b.seen = beats[k].seen
      /\ b.at = beats[k].at /\ b.target = beats[k].target /\ b.delta = beats[k].delta
  <2>1. beats[k] \in Beats
    BY Plain
  <2> QED
    BY <2>1 DEF Beats
<1> HIDE DEF b
<1> QED
  BY ZenonT(60), <1>1, <1>2, Changed

LEMMA ReportStep ==
  ASSUME TypeOK, NEW k \in 1 .. count, Report(k)
  PROVE  /\ beats'[k].keep = beats[k].keep /\ beats'[k].renew = beats[k].renew
         /\ beats'[k].stamp = beats[k].stamp /\ beats'[k].seen = beats[k].seen
         /\ beats'[k].at = beats[k].at /\ beats'[k].target = beats[k].target
         /\ beats'[k].delta = beats[k].delta
         /\ \A j \in 1 .. count : j # k => beats'[j] = beats[j]
<1>1. PICK r : beats' = [beats EXCEPT ![k].report = r]
  BY DEF Report
<1> DEFINE b == [beats[k] EXCEPT !.report = r]
<1>2. beats' = [beats EXCEPT ![k] = b]
  BY <1>1
<1>3. /\ b.keep = beats[k].keep /\ b.renew = beats[k].renew
      /\ b.stamp = beats[k].stamp /\ b.seen = beats[k].seen
      /\ b.at = beats[k].at /\ b.target = beats[k].target /\ b.delta = beats[k].delta
  <2>1. beats[k] \in Beats
    BY Plain
  <2> QED
    BY <2>1 DEF Beats
<1> HIDE DEF b
<1> QED
  BY <1>2, <1>3, Changed

(* The steps of a renewal do not touch the extension, and the other way    *)
(* round.                                                                  *)
LEMMA RenewalOnly ==
  ASSUME TypeOK, NEW k \in 1 .. count, RenewRead(k) \/ RenewLand(k) \/ RenewSettle(k)
  PROVE  /\ count' = count /\ now' = now /\ due' = due /\ stopped' = stopped
         /\ deadline' = deadline /\ intended' = intended /\ doubled' = doubled /\ late' = late
         /\ \A j \in 1 .. count : /\ beats'[j].at = beats[j].at /\ beats'[j].keep = beats[j].keep
                                  /\ beats'[j].target = beats[j].target /\ beats'[j].delta = beats[j].delta
<1>1. beats[k] \in Beats
  BY Plain
<1>2. CASE RenewRead(k)
  BY <1>2, ReadStep DEF RenewRead
<1>3. CASE RenewLand(k)
  BY <1>3, LandStep DEF RenewLand
<1>4. CASE RenewSettle(k)
  BY <1>4, SettleStep DEF RenewSettle
<1> QED
  BY <1>2, <1>3, <1>4

LEMMA ExtensionOnly ==
  ASSUME TypeOK, NEW k \in 1 .. count, KeepLand(k) \/ KeepSettle(k) \/ Report(k)
  PROVE  /\ count' = count /\ now' = now /\ due' = due /\ stopped' = stopped
         /\ lease' = lease /\ version' = version /\ doubled' = doubled /\ late' = late
         /\ \A j \in 1 .. count : /\ beats'[j].at = beats[j].at /\ beats'[j].target = beats[j].target
                                  /\ beats'[j].renew = beats[j].renew
                                  /\ beats'[j].stamp = beats[j].stamp /\ beats'[j].seen = beats[j].seen
<1>1. beats[k] \in Beats
  BY Plain
<1>2. CASE KeepLand(k)
  BY <1>2, KeepLandStep DEF KeepLand
<1>3. CASE KeepSettle(k)
  BY <1>3, KeepSettleStep DEF KeepSettle
<1>4. CASE Report(k)
  BY <1>4, ReportStep DEF Report
<1> QED
  BY <1>2, <1>3, <1>4

-----------------------------------------------------------------------------
(* The lock *)

(* A renewal that was read from the lock as it is now was read while the   *)
(* lock was there, and outlasts what every other renewal has brought.      *)
Renewals ==
  \A k \in 1 .. count : beats[k].renew = "read" =>
    /\ beats[k].seen <= version
    /\ beats[k].stamp >= beats[k].at + Ttl
    /\ beats[k].seen = version =>
         lease # 0 /\ \A j \in 1 .. count : CarriedOut(beats[j].renew)
                                            => beats[k].stamp >= beats[j].at + Ttl

(* What the renewals have brought. *)
Leased ==
  ~stopped => /\ lease >= Held
              /\ \A k \in 1 .. count : CarriedOut(beats[k].renew) => lease >= beats[k].at + Ttl

(* The timer is never behind. *)
Times ==
  /\ ~stopped => now <= due
  /\ \A k \in 1 .. count : beats[k].at <= now

LEMMA NextTimes == TypeOK /\ Times /\ [Next]_vars => Times'
<1> SUFFICES ASSUME TypeOK, Times, [Next]_vars
             PROVE  Times'
  OBVIOUS
<1> USE DEF Times
<1>0. /\ now \in Nat /\ due \in Nat /\ stopped \in BOOLEAN /\ count \in Nat
      /\ beats \in [1 .. MaxBeats -> Beats]
      /\ \A k \in 1 .. count : k \in 1 .. MaxBeats /\ beats[k].at \in Nat
  BY Plain DEF Beats
<1>1. CASE Beat
  <2> DEFINE b == Sent(now + Timeout)
  <2>1. b.at = now
    BY DEF Sent, NoBeat
  <2>2. /\ beats' = [beats EXCEPT ![count + 1] = b] /\ count' = count + 1 /\ now' = now
        /\ due' = due + Interval /\ now = due /\ count + 1 \in 1 .. MaxBeats
    BY <1>0, <1>1, Constants DEF Beat
  <2> HIDE DEF b
  <2> QED
    BY <1>0, <2>1, <2>2, IntervalFits
<1>2. CASE \E k \in 1 .. count :
             RenewRead(k) \/ RenewLand(k) \/ RenewSettle(k) \/ KeepLand(k) \/ KeepSettle(k) \/ Report(k)
  <2>1. /\ now' = now /\ due' = due /\ stopped' = stopped /\ count' = count
        /\ \A j \in 1 .. count : beats'[j].at = beats[j].at
    BY <1>2, RenewalOnly, ExtensionOnly
  <2> QED
    BY <2>1
<1>3. CASE Stop \/ Release \/ Dispose \/ UNCHANGED vars
  BY <1>3 DEF Stop, Release, Dispose, vars
<1>4. CASE Tick
  BY <1>0, <1>4 DEF Tick
<1> QED
  BY <1>1, <1>2, <1>3, <1>4 DEF Next

LEMMA NextRenewals == TypeOK /\ Times /\ Renewals /\ [Next]_vars => Renewals'
<1> SUFFICES ASSUME TypeOK, Times, Renewals, [Next]_vars
             PROVE  Renewals'
  OBVIOUS
<1> USE DEF Renewals
<1>0. /\ now \in Nat /\ lease \in Nat /\ version \in Nat /\ count \in Nat
      /\ beats \in [1 .. MaxBeats -> Beats]
      /\ \A k \in 1 .. count : k \in 1 .. MaxBeats /\ beats[k] \in Beats
      /\ \A k \in 1 .. count : beats[k].at \in Nat /\ beats[k].seen \in Nat /\ beats[k].stamp \in Nat
  BY Plain DEF Beats
<1>1. CASE Beat
  <2> DEFINE b == Sent(now + Timeout)
  <2>1. b.renew = "sent" /\ ~CarriedOut(b.renew)
    BY DEF Sent, NoBeat, CarriedOut
  <2>2. /\ beats' = [beats EXCEPT ![count + 1] = b] /\ count' = count + 1
        /\ lease' = lease /\ version' = version /\ count + 1 \in 1 .. MaxBeats
    BY <1>0, <1>1, Constants DEF Beat
  <2> HIDE DEF b
  <2> QED
    BY <1>0, <2>1, <2>2 DEF CarriedOut
<1>2. CASE \E k \in 1 .. count : RenewRead(k)
  <2> PICK k \in 1 .. count : RenewRead(k)
    BY <1>2
  <2>1. /\ count' = count /\ lease' = lease /\ version' = version /\ lease # 0
        /\ beats'[k].stamp = now + Ttl /\ beats'[k].seen = version
        /\ beats'[k].at = beats[k].at /\ ~CarriedOut(beats'[k].renew)
        /\ \A j \in 1 .. count : j # k => beats'[j] = beats[j]
    BY ReadStep DEF RenewRead, CarriedOut
  <2>2. \A j \in 1 .. count : now + Ttl >= beats[j].at + Ttl
    BY <1>0, Constants DEF Times
  <2>3. ASSUME NEW i \in 1 .. count', beats'[i].renew = "read"
        PROVE  /\ beats'[i].seen <= version
               /\ beats'[i].stamp >= beats'[i].at + Ttl
               /\ beats'[i].seen = version =>
                    \A j \in 1 .. count : CarriedOut(beats[j].renew)
                                        => beats'[i].stamp >= beats[j].at + Ttl
    <3>1. CASE i = k
      BY <1>0, <2>1, <2>2, <3>1
    <3>2. CASE i # k
      <4>1. i \in 1 .. count /\ beats'[i] = beats[i]
        BY <2>1, <3>2
      <4> QED
        BY <2>3, <4>1
    <3> QED
      BY <3>1, <3>2
  <2>4. \A j \in 1 .. count : /\ beats'[j].at = beats[j].at
                              /\ CarriedOut(beats'[j].renew) => CarriedOut(beats[j].renew)
    BY <2>1
  <2> QED
    BY <2>1, <2>3, <2>4
<1>3. CASE \E k \in 1 .. count : RenewLand(k)
  <2> PICK k \in 1 .. count : RenewLand(k)
    BY <1>3
  <2>1. /\ count' = count /\ version' = version + 1
        /\ beats'[k].renew = "landed"
        /\ \A j \in 1 .. count : j # k => beats'[j] = beats[j]
    BY LandStep DEF RenewLand
  <2>2. ASSUME NEW j \in 1 .. count', beats'[j].renew = "read"
        PROVE  beats'[j] = beats[j] /\ beats[j].seen <= version /\ beats[j].stamp >= beats[j].at + Ttl
    BY <2>1, <2>2
  <2> QED
    BY <1>0, <2>1, <2>2
<1>4. CASE \E k \in 1 .. count : RenewSettle(k)
  <2> PICK k \in 1 .. count : RenewSettle(k)
    BY <1>4
  <2>1. /\ count' = count /\ version' = version /\ lease' = lease
        /\ beats'[k].renew # "read" /\ (CarriedOut(beats'[k].renew) => CarriedOut(beats[k].renew))
        /\ beats'[k].at = beats[k].at
        /\ \A j \in 1 .. count : j # k => beats'[j] = beats[j]
    BY SettleStep DEF RenewSettle, CarriedOut
  <2>2. \A j \in 1 .. count : /\ beats'[j].at = beats[j].at
                              /\ CarriedOut(beats'[j].renew) => CarriedOut(beats[j].renew)
                              /\ beats'[j].renew = "read" => beats'[j] = beats[j]
    BY <2>1
  <2> QED
    BY <2>1, <2>2
<1>5. CASE \E k \in 1 .. count : KeepLand(k) \/ KeepSettle(k) \/ Report(k)
  <2>1. /\ count' = count /\ version' = version /\ lease' = lease
        /\ \A j \in 1 .. count : /\ beats'[j].at = beats[j].at /\ beats'[j].renew = beats[j].renew
                                 /\ beats'[j].stamp = beats[j].stamp /\ beats'[j].seen = beats[j].seen
    BY <1>5, ExtensionOnly
  <2> QED
    BY <1>0, <2>1
<1>6. CASE Release
  BY <1>0, <1>6 DEF Release
<1>7. CASE Stop \/ Dispose \/ Tick \/ UNCHANGED vars
  BY <1>7 DEF Stop, Dispose, Tick, vars
<1> QED
  BY <1>1, <1>2, <1>3, <1>4, <1>5, <1>6, <1>7 DEF Next

LEMMA NextLeased == TypeOK /\ Renewals /\ Leased /\ [Next]_vars => Leased'
<1> SUFFICES ASSUME TypeOK, Renewals, Leased, [Next]_vars
             PROVE  Leased'
  OBVIOUS
<1> USE DEF Leased
<1>0. /\ stopped \in BOOLEAN /\ lease \in Nat /\ version \in Nat /\ count \in Nat
      /\ beats \in [1 .. MaxBeats -> Beats]
      /\ \A k \in 1 .. count : k \in 1 .. MaxBeats /\ beats[k] \in Beats
      /\ \A k \in 1 .. count : beats[k].at \in Nat /\ beats[k].stamp \in Nat
  BY Plain DEF Beats
<1>1. CASE Beat
  <2> DEFINE b == Sent(now + Timeout)
  <2>1. b.renew = "sent" /\ ~CarriedOut(b.renew)
    BY DEF Sent, NoBeat, CarriedOut
  <2>2. /\ beats' = [beats EXCEPT ![count + 1] = b] /\ count' = count + 1
        /\ lease' = lease /\ stopped' = stopped /\ count + 1 \in 1 .. MaxBeats
    BY <1>0, <1>1, Constants DEF Beat
  <2> HIDE DEF b
  <2> QED
    BY <1>0, <2>1, <2>2
<1>2. CASE \E k \in 1 .. count : RenewLand(k)
  <2> PICK k \in 1 .. count : RenewLand(k)
    BY <1>2
  <2>1. /\ count' = count /\ stopped' = stopped /\ lease' = beats[k].stamp
        /\ beats[k].renew = "read" /\ beats[k].seen = version
        /\ beats'[k].at = beats[k].at
        /\ \A j \in 1 .. count : j # k => beats'[j] = beats[j]
    BY LandStep DEF RenewLand, SameLock
  <2>2. /\ beats[k].stamp >= beats[k].at + Ttl
        /\ \A j \in 1 .. count : CarriedOut(beats[j].renew) => beats[k].stamp >= beats[j].at + Ttl
    BY <2>1 DEF Renewals
  <2>3. beats[k].stamp >= Held
    BY <1>0, <2>2, Constants
  <2> QED
    BY <1>0, <2>1, <2>2, <2>3
<1>3. CASE \E k \in 1 .. count :
             RenewRead(k) \/ RenewSettle(k) \/ KeepLand(k) \/ KeepSettle(k) \/ Report(k)
  <2>1. /\ count' = count /\ stopped' = stopped /\ lease' = lease
        /\ \A j \in 1 .. count : /\ beats'[j].at = beats[j].at
                                 /\ CarriedOut(beats'[j].renew) => CarriedOut(beats[j].renew)
    <3>1. CASE \E k \in 1 .. count : RenewRead(k)
      BY <3>1, ReadStep, RenewalOnly DEF RenewRead, CarriedOut
    <3>2. CASE \E k \in 1 .. count : RenewSettle(k)
      BY ZenonT(60), <3>2, SettleStep, RenewalOnly DEF RenewSettle, CarriedOut
    <3>3. CASE \E k \in 1 .. count : KeepLand(k) \/ KeepSettle(k) \/ Report(k)
      BY <3>3, ExtensionOnly
    <3> QED
      BY <1>3, <3>1, <3>2, <3>3
  <2> QED
    <3>1. ASSUME ~stopped, NEW j \in 1 .. count, CarriedOut(beats'[j].renew)
          PROVE  lease' >= beats'[j].at + Ttl
      <4>1. beats'[j].at = beats[j].at /\ (CarriedOut(beats'[j].renew) => CarriedOut(beats[j].renew))
        BY <2>1
      <4>2. CarriedOut(beats[j].renew)
        BY <3>1, <4>1
      <4>3. lease >= beats[j].at + Ttl
        BY <3>1, <4>2
      <4> QED
        BY <2>1, <4>1, <4>3
    <3>2. ~stopped' => lease' >= Held
      BY <2>1
    <3> QED
      BY <2>1, <3>1, <3>2 DEF CarriedOut
<1>4. CASE Stop \/ Release \/ Dispose \/ Tick \/ UNCHANGED vars
  BY <1>4 DEF Stop, Release, Dispose, Tick, vars
<1> QED
  BY <1>1, <1>2, <1>3, <1>4 DEF Next

LockInv == TypeOK /\ Extensions /\ Times /\ Renewals /\ Leased

LEMMA LockKept == Spec => []LockInv
<1>1. Init => LockInv
  <2>1. Init => Times /\ Renewals /\ Leased
    BY Constants, IntervalFits DEF Init, Times, Renewals, Leased
  <2> QED
    BY <2>1, InitTypes DEF LockInv
<1>2. LockInv /\ [Next]_vars => LockInv'
  BY NextTypes, NextTimes, NextRenewals, NextLeased DEF LockInv
<1> QED
  BY <1>1, <1>2, PTL DEF Spec

(* No step brings back a lock that has been released: a renewal that is    *)
(* still on its way was read from another version of it.                   *)
LEMMA StaysReleasedStep == LockInv /\ [Next]_vars => [lease = 0 => lease' = 0]_vars
<1> SUFFICES ASSUME LockInv, [Next]_vars, lease = 0
             PROVE  lease' = 0
  OBVIOUS
<1>1. CASE \E k \in 1 .. count : RenewLand(k)
  BY <1>1 DEF RenewLand, SameLock, LockInv, Renewals
<1>2. CASE Release
  BY <1>2 DEF Release
<1>3. CASE Beat \/ Stop \/ Dispose \/ Tick \/ UNCHANGED vars
  BY <1>3 DEF Beat, Stop, Dispose, Tick, vars
<1>4. CASE \E k \in 1 .. count :
             RenewRead(k) \/ RenewSettle(k) \/ KeepLand(k) \/ KeepSettle(k) \/ Report(k)
  BY <1>4 DEF RenewRead, RenewSettle, KeepLand, KeepSettle, Report
<1> QED
  BY <1>1, <1>2, <1>3, <1>4 DEF Next

(* A released lock stays released, whatever renewals are on their way. *)
THEOREM ReleasedForGood == Spec => StaysReleased
<1>1. LockInv /\ [Next]_vars => [lease = 0 => lease' = 0]_vars
  BY StaysReleasedStep
<1> QED
  BY <1>1, LockKept, PTL DEF Spec, StaysReleased

-----------------------------------------------------------------------------
(* The sandbox *)

(* A provider that counts down anew never grants more than a lifetime.     *)
Resets ==
  Provider = "reset" => intended = Timeout /\ deadline <= now + Timeout

(* What the extensions have brought, and what one that has been sent will  *)
(* bring: its target, from the tally as it was then.                       *)
Kept ==
  ~stopped =>
    /\ deadline >= Remaining
    /\ deadline - Remaining >= intended - Timeout
    /\ \A k \in 1 .. count :
         /\ CarriedOut(beats[k].keep) => deadline >= Remaining + beats[k].at
         /\ beats[k].keep = "sent"
              => deadline - Remaining >= beats[k].target - beats[k].delta - Timeout

LEMMA StillMore ==
  ASSUME NEW d \in Int, NEW e \in Int, e >= d, NEW r \in Int, NEW x \in Int
  PROVE  /\ d >= r => e >= r
         /\ d >= r + x => e >= r + x
         /\ d - r >= x => e - r >= x
  OBVIOUS

LEMMA NextResets == TypeOK /\ Resets /\ [Next]_vars => Resets'
<1> SUFFICES ASSUME TypeOK, Resets, [Next]_vars, Provider = "reset"
             PROVE  intended' = Timeout /\ deadline' <= now' + Timeout
  BY DEF Resets
<1>0. intended = Timeout /\ deadline <= now + Timeout /\ now \in Nat /\ deadline \in Nat /\ Timeout \in Nat
  BY Plain, Constants DEF Resets
<1>1. CASE \E k \in 1 .. count : KeepLand(k)
  BY <1>0, <1>1 DEF KeepLand
<1>2. CASE \E k \in 1 .. count : KeepSettle(k)
  BY <1>0, <1>2 DEF KeepSettle, Tally
<1>3. CASE Dispose \/ Tick
  BY <1>0, <1>3 DEF Dispose, Tick
<1>4. CASE Beat \/ Stop \/ Release \/ UNCHANGED vars
  BY <1>0, <1>4 DEF Beat, Stop, Release, vars
<1>5. CASE \E k \in 1 .. count : RenewRead(k) \/ RenewLand(k) \/ RenewSettle(k) \/ Report(k)
  BY <1>0, <1>5 DEF RenewRead, RenewLand, RenewSettle, Report
<1> QED
  BY <1>1, <1>2, <1>3, <1>4, <1>5 DEF Next

LEMMA NextKept ==
  TypeOK /\ Extensions /\ Times /\ Resets /\ Kept /\ [Next]_vars => Kept'
<1> SUFFICES ASSUME TypeOK, Extensions, Times, Resets, Kept, [Next]_vars
             PROVE  Kept'
  OBVIOUS
<1>0. /\ stopped \in BOOLEAN /\ now \in Nat /\ deadline \in Nat /\ intended \in Nat /\ count \in Nat
      /\ beats \in [1 .. MaxBeats -> Beats]
      /\ \A k \in 1 .. count :
           /\ k \in 1 .. MaxBeats /\ beats[k].at \in Nat /\ beats[k].delta \in Int
           /\ beats[k].target \in Nat /\ beats[k].target = beats[k].at + Timeout
           /\ beats[k].at <= now
  BY Plain DEF Beats, TypeOK, Times
<1>v. deadline \in Nat /\ intended \in Nat /\ Remaining \in Nat /\ Timeout \in Nat /\ Remaining <= Timeout
  BY <1>0, Constants
<1>1. CASE Beat
  <2> DEFINE b == Sent(now + Timeout)
  <2>1. /\ b.at = now /\ b.target = now + Timeout /\ b.delta = now + Timeout - intended
        /\ b.keep \in {"sent", "ok"} /\ (b.keep = "ok" => now + Timeout <= intended)
    <3> DEFINE e == Extends(now + Timeout)
               p == IF Provider = "extend" /\ e <= 0 THEN "ok" ELSE "sent"
    <3>1. b.at = now /\ b.target = now + Timeout /\ b.delta = e /\ b.keep = p
      BY DEF Sent, NoBeat
    <3>2. e = (now + Timeout) - intended
      BY DEF Extends
    <3>3. p \in {"sent", "ok"} /\ (p = "ok" => e <= 0)
      OBVIOUS
    <3> HIDE DEF b, e, p
    <3> QED
      BY <1>0, <3>1, <3>2, <3>3, Constants
  <2>2. /\ beats' = [beats EXCEPT ![count + 1] = b] /\ count' = count + 1
        /\ deadline' = deadline /\ intended' = intended /\ stopped' = stopped
        /\ count + 1 \in 1 .. MaxBeats /\ ~stopped
    BY <1>0, <1>1, Constants DEF Beat
  <2> HIDE DEF b
  <2>3. ASSUME NEW k \in 1 .. count'
        PROVE  /\ CarriedOut(beats'[k].keep) => deadline >= Remaining + beats'[k].at
               /\ beats'[k].keep = "sent"
                    => deadline - Remaining >= beats'[k].target - beats'[k].delta - Timeout
    <3>1. CASE k = count + 1
      <4>1. beats'[k] = b
        BY <1>0, <2>2, <3>1
      <4>2. deadline - Remaining >= intended - Timeout
        BY <2>2 DEF Kept
      <4>3. CarriedOut(b.keep) => deadline >= Remaining + b.at
        BY <1>0, <2>1, <4>2, Constants DEF CarriedOut
      <4>4. deadline - Remaining >= b.target - b.delta - Timeout
        BY <1>0, <2>1, <4>2, Constants
      <4> QED
        BY <4>1, <4>3, <4>4
    <3>2. CASE k # count + 1
      <4>1. k \in 1 .. count /\ beats'[k] = beats[k]
        BY <1>0, <2>2, <3>2
      <4> QED
        BY <2>2, <4>1 DEF Kept
    <3> QED
      BY <3>1, <3>2
  <2> QED
    BY <2>2, <2>3 DEF Kept, CarriedOut
<1>2. CASE \E k \in 1 .. count : KeepLand(k)
  <2> PICK k \in 1 .. count : KeepLand(k)
    BY <1>2
  <2>1. /\ beats[k].keep = "sent" /\ stopped' = stopped /\ count' = count /\ intended' = intended
        /\ deadline' = IF Provider = "reset" THEN now + Timeout ELSE deadline + beats[k].delta
    BY DEF KeepLand
  <2>2. /\ beats'[k].at = beats[k].at /\ beats'[k].keep = "landed"
        /\ \A j \in 1 .. count : j # k => beats'[j] = beats[j]
    BY KeepLandStep
  <2>3. deadline' \in Int /\ deadline' >= deadline
    <3>1. CASE Provider = "reset"
      BY <1>0, <2>1, <3>1, Constants DEF Resets
    <3>2. CASE Provider = "extend"
      BY <1>0, <2>1, <3>2 DEF Extensions
    <3> QED
      BY <3>1, <3>2, Constants
  <2>4. ASSUME ~stopped PROVE deadline' >= Remaining + beats[k].at
    <3>1. CASE Provider = "reset"
      BY <1>0, <2>1, <3>1, Constants
    <3>2. CASE Provider = "extend"
      <4> DEFINE x == beats[k].at
                 d == beats[k].delta
      <4>1. deadline - Remaining >= beats[k].target - d - Timeout
        BY <2>1, <2>4 DEF Kept
      <4>2. x \in Nat /\ d \in Int /\ beats[k].target = x + Timeout
        BY <1>0
      <4>3. deadline' = deadline + d
        BY <2>1, <3>2
      <4> HIDE DEF x, d
      <4>4. deadline + d >= Remaining + x
        BY <1>0, <4>1, <4>2, Constants
      <4> QED
        BY <4>3, <4>4 DEF x
    <3> QED
      BY <3>1, <3>2, Constants
  <2>5. ASSUME ~stopped, NEW j \in 1 .. count
        PROVE  /\ CarriedOut(beats'[j].keep) => deadline' >= Remaining + beats'[j].at
               /\ beats'[j].keep = "sent"
                    => deadline' - Remaining >= beats'[j].target - beats'[j].delta - Timeout
    <3>1. CASE j = k
      BY <2>2, <2>4, <2>5, <3>1
    <3>2. CASE j # k
      <4>1. /\ CarriedOut(beats[j].keep) => deadline >= Remaining + beats[j].at
            /\ beats[j].keep = "sent"
                 => deadline - Remaining >= beats[j].target - beats[j].delta - Timeout
        BY <2>5 DEF Kept
      <4>2. beats'[j] = beats[j]
        BY <2>2, <3>2
      <4> DEFINE x == beats[j].at
                 y == beats[j].target - beats[j].delta - Timeout
      <4>3. x \in Int /\ y \in Int
        BY <1>0, Constants
      <4> HIDE DEF x, y
      <4>4. (deadline >= Remaining + x => deadline' >= Remaining + x)
            /\ (deadline - Remaining >= y => deadline' - Remaining >= y)
        <5>1. deadline \in Int /\ deadline' \in Int /\ Remaining \in Int
          BY <1>v, <2>3
        <5> QED
          BY <2>3, <4>3, <5>1, StillMore
      <4> QED
        BY <4>1, <4>2, <4>4 DEF x, y
    <3> QED
      BY <3>1, <3>2
  <2>6. ASSUME ~stopped
        PROVE  deadline' >= Remaining /\ deadline' - Remaining >= intended - Timeout
    <3>1. deadline >= Remaining /\ deadline - Remaining >= intended - Timeout
      BY <2>6 DEF Kept
    <3> QED
      <4>1. deadline \in Int /\ deadline' \in Int /\ intended - Timeout \in Int /\ Remaining \in Int
        BY <1>v, <2>3
      <4> QED
        BY <2>3, <3>1, <4>1, StillMore
  <2> QED
    BY <2>1, <2>5, <2>6 DEF Kept, CarriedOut
<1>3. CASE \E k \in 1 .. count : KeepSettle(k)
  <2> PICK k \in 1 .. count : KeepSettle(k)
    BY <1>3
  <2> PICK phase \in {"ok", "failed"} :
             /\ beats[k].keep = IF phase = "failed" THEN "sent" ELSE "landed"
             /\ beats' = [beats EXCEPT ![k].keep = phase]
             /\ intended' = Tally(k, phase)
    BY DEF KeepSettle
  <2>1. stopped' = stopped /\ count' = count /\ deadline' = deadline
    BY DEF KeepSettle
  <2>2. /\ beats'[k].at = beats[k].at /\ beats'[k].keep = phase
        /\ \A j \in 1 .. count : j # k => beats'[j] = beats[j]
    BY KeepSettleStep
  <2>3. phase = "ok" => CarriedOut(beats[k].keep)
    BY DEF CarriedOut
  <2>4. CarriedOut(phase) <=> phase = "ok"
    BY DEF CarriedOut
  <2>5. ASSUME ~stopped PROVE deadline - Remaining >= intended' - Timeout
    <3>1. CASE intended' = intended
      BY <2>5, <3>1 DEF Kept
    <3>2. CASE intended' = beats[k].target /\ phase = "ok"
      <4> DEFINE x == beats[k].at
      <4>1. deadline >= Remaining + x
        BY <2>3, <2>5, <3>2 DEF Kept
      <4>2. x \in Nat /\ intended' = x + Timeout
        BY <1>0, <3>2
      <4> HIDE DEF x
      <4> QED
        BY <1>v, <4>1, <4>2
    <3> QED
      BY <3>1, <3>2 DEF Tally
  <2>6. ASSUME ~stopped, NEW j \in 1 .. count
        PROVE  /\ CarriedOut(beats'[j].keep) => deadline >= Remaining + beats'[j].at
               /\ beats'[j].keep = "sent"
                    => deadline - Remaining >= beats'[j].target - beats'[j].delta - Timeout
    <3>1. CASE j = k
      BY <2>2, <2>3, <2>4, <2>6, <3>1 DEF Kept
    <3>2. CASE j # k
      BY <2>2, <2>6, <3>2 DEF Kept
    <3> QED
      BY <3>1, <3>2
  <2> QED
    BY <2>1, <2>5, <2>6 DEF Kept, CarriedOut
<1>4. CASE \E k \in 1 .. count : RenewRead(k) \/ RenewLand(k) \/ RenewSettle(k)
  <2>1. /\ stopped' = stopped /\ count' = count /\ deadline' = deadline /\ intended' = intended
        /\ \A j \in 1 .. count : /\ beats'[j].at = beats[j].at /\ beats'[j].keep = beats[j].keep
                                 /\ beats'[j].target = beats[j].target /\ beats'[j].delta = beats[j].delta
    BY <1>4, RenewalOnly
  <2> QED
    BY <2>1 DEF Kept, CarriedOut
<1>5. CASE \E k \in 1 .. count : Report(k)
  <2> PICK k \in 1 .. count : Report(k)
    BY <1>5
  <2>1. stopped' = stopped /\ count' = count /\ deadline' = deadline /\ intended' = intended
    BY DEF Report
  <2>2. \A j \in 1 .. count : /\ beats'[j].at = beats[j].at /\ beats'[j].keep = beats[j].keep
                              /\ beats'[j].target = beats[j].target /\ beats'[j].delta = beats[j].delta
    BY ReportStep
  <2> QED
    BY <2>1, <2>2 DEF Kept, CarriedOut
<1>6. CASE Dispose
  BY <1>6 DEF Dispose, Kept
<1>7. CASE Stop \/ Release \/ Tick \/ UNCHANGED vars
  BY <1>7 DEF Stop, Release, Tick, vars, Kept
<1> QED
  BY <1>1, <1>2, <1>3, <1>4, <1>5, <1>6, <1>7 DEF Next

KeepInv == LockInv /\ Resets /\ Kept

LEMMA SandboxKept == Spec => []KeepInv
<1>1. Init => Resets /\ Kept
  BY Constants DEF Init, Resets, Kept
<1>2. TypeOK /\ Extensions /\ Times /\ Resets /\ Kept /\ [Next]_vars => Resets' /\ Kept'
  BY NextResets, NextKept
<1>3. KeepInv /\ [Next]_vars => Resets' /\ Kept'
  BY <1>2 DEF KeepInv, LockInv
<1>4. Spec => [](Resets /\ Kept)
  <2>1. LockInv /\ Resets /\ Kept /\ [Next]_vars => Resets' /\ Kept'
    BY <1>2 DEF LockInv
  <2> QED
    BY <1>1, <2>1, LockKept, PTL DEF Spec
<1> QED
  BY <1>4, LockKept, PTL DEF KeepInv

(* The adapter never counts on time that the provider has not granted.     *)
THEOREM TallyKept == Spec => []TallyIsGranted
<1>1. KeepInv => TallyIsGranted
  <2> SUFFICES ASSUME KeepInv, ~stopped PROVE intended - Timeout <= deadline - Remaining
    BY DEF TallyIsGranted
  <2>1. deadline - Remaining >= intended - Timeout /\ deadline \in Nat /\ intended \in Nat
    BY Plain DEF KeepInv, LockInv, Kept
  <2> QED
    BY <2>1, Constants
<1> QED
  BY <1>1, SandboxKept, PTL

-----------------------------------------------------------------------------
(* Time enough *)

(* While no call is late, a beat that is over has been carried out.        *)
OnTime ==
  ~late => \A k \in 1 .. count :
             now > beats[k].at + BeatDeadline => CarriedOut(beats[k].renew) /\ CarriedOut(beats[k].keep)

LEMMA NextOnTime == TypeOK /\ Times /\ OnTime /\ [Next]_vars => OnTime'
<1> SUFFICES ASSUME TypeOK, Times, OnTime, [Next]_vars
             PROVE  OnTime'
  OBVIOUS
<1>0. /\ now \in Nat /\ late \in BOOLEAN /\ count \in Nat /\ BeatDeadline \in Nat
      /\ beats \in [1 .. MaxBeats -> Beats]
      /\ \A k \in 1 .. count : k \in 1 .. MaxBeats /\ beats[k].at \in Nat
  BY Plain, IntervalFits DEF Beats
<1>1. CASE Beat
  <2> DEFINE b == Sent(now + Timeout)
  <2>1. b.at = now
    BY DEF Sent, NoBeat
  <2>2. /\ beats' = [beats EXCEPT ![count + 1] = b] /\ count' = count + 1
        /\ now' = now /\ late' = late /\ count + 1 \in 1 .. MaxBeats
    BY <1>0, <1>1, Constants DEF Beat
  <2> HIDE DEF b
  <2>3. ~(now > b.at + BeatDeadline)
    BY <1>0, <2>1
  <2>4. ASSUME ~late, NEW k \in 1 .. count', now > beats'[k].at + BeatDeadline
        PROVE  CarriedOut(beats'[k].renew) /\ CarriedOut(beats'[k].keep)
    <3>1. k # count + 1
      BY <1>0, <2>2, <2>3, <2>4
    <3>2. k \in 1 .. count /\ beats'[k] = beats[k]
      BY <1>0, <2>2, <3>1
    <3> QED
      BY <2>4, <3>2 DEF OnTime
  <2> QED
    BY <2>2, <2>4 DEF OnTime, CarriedOut, BeatDeadline, Interval
<1>2. ASSUME now' = now, late' = late, count' = count,
             \A j \in 1 .. count : /\ beats'[j].at = beats[j].at
                                   /\ CarriedOut(beats[j].renew) => CarriedOut(beats'[j].renew)
                                   /\ CarriedOut(beats[j].keep) => CarriedOut(beats'[j].keep)
      PROVE  OnTime'
  BY <1>2 DEF OnTime, CarriedOut, BeatDeadline, Interval
<1>3. CASE \E k \in 1 .. count : RenewRead(k)
  <2>1. PICK k \in 1 .. count : RenewRead(k)
    BY <1>3
  <2>2. /\ now' = now /\ late' = late /\ count' = count
        /\ \A j \in 1 .. count : beats'[j].at = beats[j].at /\ beats'[j].keep = beats[j].keep
    BY <2>1, RenewalOnly
  <2>3. ~CarriedOut(beats[k].renew) /\ \A j \in 1 .. count : j # k => beats'[j] = beats[j]
    BY <2>1, ReadStep DEF RenewRead, CarriedOut
  <2> QED
    BY <1>2, <2>2, <2>3
<1>4. CASE \E k \in 1 .. count : RenewLand(k)
  <2>1. PICK k \in 1 .. count : RenewLand(k)
    BY <1>4
  <2>2. /\ now' = now /\ late' = late /\ count' = count
        /\ \A j \in 1 .. count : beats'[j].at = beats[j].at /\ beats'[j].keep = beats[j].keep
    BY <2>1, RenewalOnly
  <2>3. ~CarriedOut(beats[k].renew) /\ \A j \in 1 .. count : j # k => beats'[j] = beats[j]
    BY <2>1, LandStep DEF RenewLand, CarriedOut
  <2> QED
    BY <1>2, <2>2, <2>3
<1>5. CASE \E k \in 1 .. count : RenewSettle(k)
  <2>1. PICK k \in 1 .. count : RenewSettle(k)
    BY <1>5
  <2>2. /\ now' = now /\ late' = late /\ count' = count
        /\ \A j \in 1 .. count : beats'[j].at = beats[j].at /\ beats'[j].keep = beats[j].keep
    BY <2>1, RenewalOnly
  <2>3. CarriedOut(beats[k].renew) => CarriedOut(beats'[k].renew)
    <3>1. CASE beats[k].renew = "landed" /\ beats' = [beats EXCEPT ![k].renew = "ok"]
      <4>1. beats'[k].renew # "failed"
        BY <1>0, <3>1 DEF Beats
      <4> QED
        BY <2>1, <4>1, SettleStep DEF CarriedOut
    <3>2. CASE beats[k].renew \in {"sent", "read"}
      BY <3>2 DEF CarriedOut
    <3> QED
      BY <2>1, <3>1, <3>2 DEF RenewSettle
  <2>4. \A j \in 1 .. count : j # k => beats'[j] = beats[j]
    BY <2>1, SettleStep
  <2> QED
    BY <1>2, <2>2, <2>3, <2>4
<1>6. CASE \E k \in 1 .. count : KeepLand(k)
  <2>1. PICK k \in 1 .. count : KeepLand(k)
    BY <1>6
  <2>2. /\ now' = now /\ late' = late /\ count' = count
        /\ \A j \in 1 .. count : beats'[j].at = beats[j].at /\ beats'[j].renew = beats[j].renew
    BY <2>1, ExtensionOnly
  <2>3. CarriedOut(beats'[k].keep) /\ \A j \in 1 .. count : j # k => beats'[j] = beats[j]
    BY <2>1, KeepLandStep DEF CarriedOut
  <2> QED
    BY <1>2, <2>2, <2>3
<1>7. CASE \E k \in 1 .. count : KeepSettle(k)
  <2>1. PICK k \in 1 .. count : KeepSettle(k)
    BY <1>7
  <2>2. /\ now' = now /\ late' = late /\ count' = count
        /\ \A j \in 1 .. count : beats'[j].at = beats[j].at /\ beats'[j].renew = beats[j].renew
    BY <2>1, ExtensionOnly
  <2>3. PICK phase \in {"ok", "failed"} :
                /\ beats[k].keep = IF phase = "failed" THEN "sent" ELSE "landed"
                /\ beats' = [beats EXCEPT ![k].keep = phase]
    BY <2>1 DEF KeepSettle
  <2>4. beats'[k].keep = phase /\ \A j \in 1 .. count : j # k => beats'[j] = beats[j]
    BY <2>3, KeepSettleStep
  <2>5. CarriedOut(beats[k].keep) => CarriedOut(beats'[k].keep)
    BY <2>3, <2>4 DEF CarriedOut
  <2> QED
    BY <1>2, <2>2, <2>4, <2>5
<1>8. CASE \E k \in 1 .. count : Report(k)
  <2>1. PICK k \in 1 .. count : Report(k)
    BY <1>8
  <2>2. /\ now' = now /\ late' = late /\ count' = count
        /\ \A j \in 1 .. count : beats'[j].at = beats[j].at /\ beats'[j].renew = beats[j].renew
    BY <2>1, ExtensionOnly
  <2>3. \A j \in 1 .. count : beats'[j].keep = beats[j].keep
    BY <2>1, ReportStep
  <2> QED
    BY <1>2, <2>2, <2>3
<1>9. CASE Tick
  <2>1. /\ now' = now + 1 /\ count' = count /\ beats' = beats
        /\ late' = (late \/ \E k \in 1 .. count : Overdue(k))
    BY <1>9 DEF Tick
  <2>2. ASSUME ~late', NEW k \in 1 .. count, now + 1 > beats[k].at + BeatDeadline
        PROVE  CarriedOut(beats[k].renew) /\ CarriedOut(beats[k].keep)
    <3>1. ~Overdue(k)
      BY <2>1, <2>2
    <3>2. now >= beats[k].at + BeatDeadline
      BY <1>0, <2>2
    <3> QED
      BY <3>1, <3>2 DEF Overdue
  <2> QED
    BY <2>1, <2>2 DEF OnTime, CarriedOut, BeatDeadline, Interval
<1>10. CASE Stop \/ Release \/ Dispose \/ UNCHANGED vars
  BY <1>2, <1>10 DEF Stop, Release, Dispose, vars
<1> QED
  BY <1>1, <1>3, <1>4, <1>5, <1>6, <1>7, <1>8, <1>9, <1>10 DEF Next

(* The beats are an interval apart, so that one of the last two has been   *)
(* carried out unless there has been none yet, or only one.                *)
LEMMA Enough ==
  ASSUME TypeOK, Times, OnTime, ~stopped, ~late,
         NEW left \in Nat, NEW life \in Nat, NEW expiry \in Nat,
         left <= life, expiry >= left,
         \A k \in 1 .. count : CarriedOut(beats[k].renew) /\ CarriedOut(beats[k].keep)
                               => expiry >= beats[k].at + life
  PROVE  now + left <= expiry + Interval + Floor
<1>0. /\ now \in Nat /\ due \in Nat /\ count \in Nat /\ Interval \in Nat \ {0} /\ Floor \in Nat
      /\ BeatDeadline = Floor /\ Interval >= Floor
  BY Plain, IntervalFits
<1>1. now <= due /\ due = (count + 1) * Interval
  BY DEF Times, TypeOK
<1>2. \A k \in 1 .. count : /\ beats[k].at = k * Interval /\ k * Interval <= now
                            /\ now > k * Interval + Floor => expiry >= k * Interval + life
  BY <1>0 DEF TypeOK, Times, OnTime
<1>3. CASE count = 0
  <2>1. now <= Interval
    BY <1>0, <1>1, <1>3
  <2> QED
    BY <1>0, <2>1
<1>4. CASE count >= 1
  <2> DEFINE a == count * Interval
  <2>1. a \in Nat /\ (count + 1) * Interval = a + Interval
    BY <1>0, NextDue
  <2>2. now <= a + Interval /\ a <= now /\ (now > a + Floor => expiry >= a + life)
    BY <1>0, <1>1, <1>2, <1>4, <2>1
  <2>3. CASE now > a + Floor
    <3> HIDE DEF a
    <3> QED
      BY <1>0, <2>1, <2>2, <2>3
  <2>4. CASE now <= a + Floor /\ count = 1
    <3>1. a = Interval
      BY <1>0, <2>4
    <3> QED
      BY <1>0, <2>4, <3>1
  <2>5. CASE now <= a + Floor /\ count >= 2
    <3> DEFINE b == (count - 1) * Interval
    <3>1. b \in Nat /\ a = b + Interval
      <4>1. count - 1 \in Nat /\ (count - 1) + 1 = count
        BY <1>0, <2>5
      <4>2. ((count - 1) + 1) * Interval = (count - 1) * Interval + Interval
        BY <1>0, <4>1, NextDue
      <4>3. (count - 1) * Interval \in Nat
        BY <1>0, <4>1
      <4> QED
        BY <4>1, <4>2, <4>3
    <3>2. now > b + Floor => expiry >= b + life
      BY <1>0, <1>2, <2>5
    <3>3. CASE now > b + Floor
      <4> HIDE DEF a, b
      <4> QED
        BY <1>0, <2>5, <3>1, <3>2, <3>3
    <3>4. CASE ~(now > b + Floor)
      <4>1. now = a /\ Interval = Floor
        <5> HIDE DEF a, b
        <5> QED
          BY <1>0, <2>1, <2>2, <3>1, <3>4
      <4>2. CASE count = 2
        <5>1. a = Interval + Interval
          BY <1>0, <4>2
        <5> HIDE DEF a, b
        <5> QED
          BY <1>0, <4>1, <5>1
      <4>3. CASE count >= 3
        <5> DEFINE c == (count - 2) * Interval
        <5>1. c \in Nat /\ b = c + Interval
          <6>1. count - 2 \in Nat /\ (count - 2) + 1 = count - 1
            BY <1>0, <4>3
          <6>2. ((count - 2) + 1) * Interval = (count - 2) * Interval + Interval
            BY <1>0, <6>1, NextDue
          <6>3. (count - 2) * Interval \in Nat
            BY <1>0, <6>1
          <6> QED
            BY <6>1, <6>2, <6>3
        <5>2. now > c + Floor => expiry >= c + life
          <6>1. count - 2 \in 1 .. count
            BY <1>0, <4>3
          <6> QED
            BY <1>2, <6>1
        <5> HIDE DEF a, b, c
        <5> QED
          BY <1>0, <3>1, <4>1, <5>1, <5>2
      <4> QED
        BY <1>0, <2>5, <4>2, <4>3
    <3> QED
      BY <3>3, <3>4
  <2> QED
    BY <1>0, <1>4, <2>1, <2>3, <2>4, <2>5
<1> QED
  BY <1>0, <1>3, <1>4

(* While every call of a beat is carried out in time, neither the lock nor *)
(* the sandbox loses more than a beat may cost it.                         *)
THEOREM Outlived == Spec => []OutlivesTheBeats
<1>1. Init => OnTime
  BY DEF Init, OnTime
<1>2. LockInv /\ OnTime /\ [Next]_vars => OnTime'
  BY NextOnTime DEF LockInv
<1>3. KeepInv /\ OnTime => OutlivesTheBeats
  <2> SUFFICES ASSUME KeepInv, OnTime, ~stopped, ~late
               PROVE  /\ now + Held <= lease + Wait(Ttl)
                      /\ now + Remaining <= deadline + Wait(Timeout)
    BY DEF OutlivesTheBeats
  <2>1. TypeOK /\ Times /\ Leased /\ Kept
    BY DEF KeepInv, LockInv
  <2>2. now \in Nat /\ lease \in Nat /\ deadline \in Nat
    BY <2>1, Plain
  <2>3. now + Held <= lease + Interval + Floor
    <3>1. lease >= Held /\ \A k \in 1 .. count : CarriedOut(beats[k].renew) => lease >= beats[k].at + Ttl
      BY <2>1 DEF Leased
    <3> QED
      BY <2>1, <2>2, <3>1, Enough, Constants
  <2>4. now + Remaining <= deadline + Interval + Floor
    <3>1. deadline >= Remaining /\ \A k \in 1 .. count :
                                     CarriedOut(beats[k].keep) => deadline >= beats[k].at + Remaining
      <4>1. \A k \in 1 .. count : beats[k].at + Remaining = Remaining + beats[k].at
        BY <2>1, Plain, Constants DEF Beats
      <4> QED
        BY <2>1, <4>1 DEF Kept
    <3> QED
      BY <2>1, <2>2, <3>1, Enough, Constants
  <2> QED
    BY <2>2, <2>3, <2>4, IntervalFits, Constants
<1> QED
  BY <1>1, <1>2, <1>3, LockKept, SandboxKept, PTL DEF Spec

-----------------------------------------------------------------------------
(* No more than a lifetime *)

Pending(phase) == phase \in {"sent", "landed"}

(* As long as no two extensions overlap, only that of the last beat may be *)
(* pending, and the tally is behind the deadline by it alone.              *)
Lifetimes ==
  Provider = "extend" /\ ~doubled =>
    /\ intended <= now + Timeout
    /\ \A k \in 1 .. count :
         /\ Pending(beats[k].keep) => k = count
         /\ beats[k].keep = "sent" => beats[k].delta = beats[k].target - intended
         /\ beats[k].keep = "landed" => deadline <= beats[k].target
    /\ (\A k \in 1 .. count : beats[k].keep # "landed") => deadline <= intended

LEMMA NextLifetimes == TypeOK /\ Times /\ Lifetimes /\ [Next]_vars => Lifetimes'
<1> SUFFICES ASSUME TypeOK, Times, Lifetimes, [Next]_vars, Provider = "extend", ~doubled'
             PROVE  /\ intended' <= now' + Timeout
                    /\ \A k \in 1 .. count' :
                         /\ Pending(beats'[k].keep) => k = count'
                         /\ beats'[k].keep = "sent" => beats'[k].delta = beats'[k].target - intended'
                         /\ beats'[k].keep = "landed" => deadline' <= beats'[k].target
                    /\ (\A k \in 1 .. count' : beats'[k].keep # "landed") => deadline' <= intended'
  BY DEF Lifetimes, Pending
<1>0. /\ now \in Nat /\ deadline \in Nat /\ intended \in Nat /\ count \in Nat /\ Timeout \in Nat
      /\ beats \in [1 .. MaxBeats -> Beats]
      /\ \A k \in 1 .. count : k \in 1 .. MaxBeats /\ beats[k].target \in Nat /\ beats[k].delta \in Int
      /\ \A k \in 1 .. count : beats[k].target <= now + Timeout
  <2>1. \A k \in 1 .. count : beats[k].at \in Nat /\ beats[k].at <= now /\ beats[k].target = beats[k].at + Timeout
    BY Plain DEF Beats, Times, TypeOK
  <2>2. /\ now \in Nat /\ deadline \in Nat /\ intended \in Nat /\ count \in Nat /\ Timeout \in Nat
        /\ beats \in [1 .. MaxBeats -> Beats]
        /\ \A k \in 1 .. count : k \in 1 .. MaxBeats /\ beats[k].target \in Nat /\ beats[k].delta \in Int
    BY Plain, Constants DEF Beats
  <2>3. \A k \in 1 .. count : beats[k].target <= now + Timeout
    BY <2>1, <2>2
  <2> QED
    BY <2>2, <2>3
<1>u. ASSUME ~doubled
      PROVE  /\ intended <= now + Timeout
             /\ \A k \in 1 .. count :
                  /\ Pending(beats[k].keep) => k = count
                  /\ beats[k].keep = "sent" => beats[k].delta = beats[k].target - intended
                  /\ beats[k].keep = "landed" => deadline <= beats[k].target
             /\ (\A k \in 1 .. count : beats[k].keep # "landed") => deadline <= intended
  BY <1>u DEF Lifetimes
<1>1. CASE Beat
  <2> DEFINE b == Sent(now + Timeout)
  <2>1. /\ b.target = now + Timeout /\ b.delta = (now + Timeout) - intended
        /\ b.keep \in {"sent", "ok"}
    <3> DEFINE e == Extends(now + Timeout)
               p == IF Provider = "extend" /\ e <= 0 THEN "ok" ELSE "sent"
    <3>1. b.target = now + Timeout /\ b.delta = e /\ b.keep = p
      BY DEF Sent, NoBeat
    <3>2. e = (now + Timeout) - intended
      BY DEF Extends
    <3>3. p \in {"sent", "ok"}
      OBVIOUS
    <3> HIDE DEF b, e, p
    <3> QED
      BY <3>1, <3>2, <3>3
  <2>2. /\ beats' = [beats EXCEPT ![count + 1] = b] /\ count' = count + 1 /\ now' = now
        /\ deadline' = deadline /\ intended' = intended /\ count + 1 \in 1 .. MaxBeats
    BY <1>0, <1>1, Constants DEF Beat
  <2>3. ~doubled /\ \A k \in 1 .. count : ~Pending(beats[k].keep)
    BY <1>1 DEF Beat, Pending
  <2> HIDE DEF b
  <2>4. beats'[count + 1] = b /\ \A k \in 1 .. count' : k # count + 1 => k \in 1 .. count /\ beats'[k] = beats[k]
    BY <1>0, <2>2
  <2>5. deadline <= intended /\ intended <= now + Timeout
    BY <1>u, <2>3 DEF Pending
  <2>6. ASSUME NEW k \in 1 .. count'
        PROVE  /\ Pending(beats'[k].keep) => k = count'
               /\ beats'[k].keep = "sent" => beats'[k].delta = beats'[k].target - intended'
               /\ beats'[k].keep # "landed"
    BY <2>1, <2>2, <2>3, <2>4 DEF Pending
  <2> QED
    BY <2>2, <2>5, <2>6
<1>2. CASE \E k \in 1 .. count : KeepLand(k)
  <2> PICK k \in 1 .. count : KeepLand(k)
    BY <1>2
  <2>1. /\ beats[k].keep = "sent" /\ count' = count /\ intended' = intended /\ now' = now
        /\ deadline' = deadline + beats[k].delta /\ ~doubled
    BY DEF KeepLand
  <2>2. /\ beats'[k].target = beats[k].target /\ beats'[k].keep = "landed"
        /\ \A j \in 1 .. count : j # k => beats'[j] = beats[j]
    BY KeepLandStep
  <2>3. k = count /\ \A j \in 1 .. count : j # k => ~Pending(beats[j].keep)
    BY <1>u, <2>1 DEF Pending
  <2>4. deadline' <= beats[k].target
    <3> DEFINE t == beats[k].target
               d == beats[k].delta
    <3>1. deadline <= intended /\ d = t - intended
      BY <1>u, <2>1, <2>3 DEF Pending
    <3>2. t \in Nat /\ d \in Int
      BY <1>0
    <3>3. deadline' = deadline + d
      BY <2>1
    <3> HIDE DEF t, d
    <3>4. deadline + d <= t
      BY <1>0, <3>1, <3>2
    <3> QED
      BY <3>3, <3>4 DEF t
  <2>5. intended <= now + Timeout
    BY <1>u, <2>1
  <2> QED
    BY <2>1, <2>2, <2>3, <2>4, <2>5 DEF Pending
<1>3. CASE \E k \in 1 .. count : KeepSettle(k)
  <2> PICK k \in 1 .. count : KeepSettle(k)
    BY <1>3
  <2> PICK phase \in {"ok", "failed"} :
             /\ beats[k].keep = IF phase = "failed" THEN "sent" ELSE "landed"
             /\ beats' = [beats EXCEPT ![k].keep = phase]
             /\ intended' = Tally(k, phase)
    BY DEF KeepSettle
  <2>1. count' = count /\ deadline' = deadline /\ now' = now /\ ~doubled
    BY DEF KeepSettle
  <2>2. /\ beats'[k].keep = phase /\ \A j \in 1 .. count : j # k => beats'[j] = beats[j]
    BY KeepSettleStep
  <2>3. k = count /\ \A j \in 1 .. count : j # k => ~Pending(beats[j].keep)
    BY <1>u, <2>1 DEF Pending
  <2>4. intended' <= now + Timeout /\ deadline <= intended'
    <3>1. CASE phase = "ok"
      BY <1>0, <1>u, <2>1, <3>1 DEF Tally
    <3>2. CASE phase = "failed"
      BY <1>u, <2>1, <2>3, <3>2 DEF Tally, Pending
    <3> QED
      BY <3>1, <3>2
  <2>5. \A j \in 1 .. count : ~Pending(beats'[j].keep)
    BY <2>2, <2>3 DEF Pending
  <2> QED
    BY <2>1, <2>4, <2>5 DEF Pending
<1>4. CASE \E k \in 1 .. count : RenewRead(k) \/ RenewLand(k) \/ RenewSettle(k)
  <2>1. /\ count' = count /\ deadline' = deadline /\ intended' = intended /\ now' = now /\ doubled' = doubled
        /\ \A j \in 1 .. count : /\ beats'[j].keep = beats[j].keep
                                 /\ beats'[j].target = beats[j].target /\ beats'[j].delta = beats[j].delta
    BY <1>4, RenewalOnly
  <2> QED
    BY <1>u, <2>1
<1>5. CASE \E k \in 1 .. count : Report(k)
  <2> PICK k \in 1 .. count : Report(k)
    BY <1>5
  <2>1. /\ count' = count /\ deadline' = deadline /\ intended' = intended /\ now' = now /\ doubled' = doubled
    BY DEF Report
  <2>2. \A j \in 1 .. count : /\ beats'[j].keep = beats[j].keep
                              /\ beats'[j].target = beats[j].target /\ beats'[j].delta = beats[j].delta
    BY ReportStep
  <2> QED
    BY <1>u, <2>1, <2>2
<1>6. CASE Dispose
  <2>1. /\ count' = count /\ deadline' = now /\ deadline > now /\ intended' = intended /\ now' = now
        /\ doubled' = doubled /\ beats' = beats
    BY <1>6 DEF Dispose
  <2>2. \A x \in Nat : deadline <= x => deadline' <= x
    BY <1>0, <2>1
  <2> QED
    BY <1>0, <1>u, <2>1, <2>2
<1>7. CASE Tick
  <2>1. /\ count' = count /\ deadline' = deadline /\ intended' = intended /\ now' = now + 1
        /\ doubled' = doubled /\ beats' = beats
    BY <1>7 DEF Tick
  <2>2. intended <= (now + 1) + Timeout
    BY <1>0, <1>u, <2>1
  <2> QED
    BY <1>u, <2>1, <2>2
<1>8. CASE Stop \/ Release \/ UNCHANGED vars
  BY <1>u, <1>8 DEF Stop, Release, vars
<1> QED
  BY <1>1, <1>2, <1>3, <1>4, <1>5, <1>6, <1>7, <1>8 DEF Next

(* A sandbox is not granted more than a lifetime from now, unless two      *)
(* extensions have overlapped.                                             *)
THEOREM LifetimeKept == Spec => []NoMoreThanALifetime
<1>1. Init => Lifetimes
  BY Constants DEF Init, Lifetimes
<1>2. LockInv /\ Lifetimes /\ [Next]_vars => Lifetimes'
  BY NextLifetimes DEF LockInv
<1>3. KeepInv /\ Lifetimes => NoMoreThanALifetime
  <2> SUFFICES ASSUME KeepInv, Lifetimes, ~doubled PROVE deadline <= now + Timeout
    BY DEF NoMoreThanALifetime
  <2>1. TypeOK /\ Times /\ Resets
    BY DEF KeepInv, LockInv
  <2>2. CASE Provider = "reset"
    BY <2>1, <2>2 DEF Resets
  <2>3. CASE Provider = "extend"
    <3>1. now \in Nat /\ deadline \in Nat /\ intended \in Nat /\ Timeout \in Nat
      BY <2>1, Plain, Constants
    <3>2. CASE \A k \in 1 .. count : beats[k].keep # "landed"
      BY <2>3, <3>1, <3>2 DEF Lifetimes
    <3>3. CASE \E k \in 1 .. count : beats[k].keep = "landed"
      <4> PICK k \in 1 .. count : beats[k].keep = "landed"
        BY <3>3
      <4>1. deadline <= beats[k].target
        BY <2>3 DEF Lifetimes
      <4> DEFINE x == beats[k].at
      <4>2. x \in Nat /\ x <= now /\ beats[k].target = x + Timeout
        BY <2>1, Plain DEF Beats, Times, TypeOK
      <4> HIDE DEF x
      <4> QED
        BY <3>1, <4>1, <4>2
    <3> QED
      BY <3>2, <3>3
  <2> QED
    BY <2>2, <2>3, Constants
<1> QED
  BY <1>1, <1>2, <1>3, LockKept, SandboxKept, PTL DEF Spec
=============================================================================
