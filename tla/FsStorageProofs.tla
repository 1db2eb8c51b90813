-------------------------- MODULE FsStorageProofs --------------------------
(***************************************************************************)
(* The puts of FsStorage are serialised, for any number of processes and   *)
(* puts, as long as no lock directory is removed under a running put.      *)
(***************************************************************************)
EXTENDS FsStorage, TLAPS

USE FsAssumption DEF FsAssumption

LEMMA FreshType == Fresh \in Calls
  BY DEF Fresh, Calls, PCs, Puts, Etags

LEMMA KnownType ==
  ASSUME st \in [Procs -> Calls], NEW p \in Procs, NEW cond
  PROVE  Known(p, cond) \in Calls
  BY FreshType DEF Known

LEMMA InitTypeOK == Init => TypeOK
<1> SUFFICES ASSUME Init PROVE TypeOK
  OBVIOUS
<1>1. st \in [Procs -> Calls]
  BY FreshType DEF Init
<1>2. dir \in Dirs /\ beats \in SUBSET Beats
  BY DEF Init, Dirs, NoDir
<1>3. file \in Puts /\ sidecar \in Puts /\ puts \in Puts
  BY DEF Init, Puts
<1>4. stolen \in BOOLEAN
  BY DEF Init
<1> QED
  BY <1>1, <1>2, <1>3, <1>4 DEF TypeOK

(* An etag is a token or a negated body. *)
LEMMA EtagForType ==
  ASSUME TypeOK, NEW body \in Puts
  PROVE  EtagFor(body) \in Etags
  BY DEF TypeOK, EtagFor, Puts, Etags

(* What a step does to the heartbeats under way, and to the directory when it
   is removed. *)
LEMMA BeatsType ==
  ASSUME TypeOK, NEW p \in Procs
  PROVE  /\ Beat(p) \in Beats
         /\ \A b \in Beats : Unlinked(b) \in Beats /\ [b EXCEPT !.at = "open"] \in Beats
  BY DEF TypeOK, Beat, Beats, Unlinked, Calls

LEMMA RemoveType ==
  ASSUME TypeOK, NEW p \in Procs, RemoveDir(p)
  PROVE  dir' \in Dirs /\ beats' \in SUBSET Beats /\ stolen' \in BOOLEAN
<1>1. dir \in Dirs /\ beats \in SUBSET Beats /\ stolen \in BOOLEAN
  BY DEF TypeOK
<1>2. CASE Removed(p)
  <2>1. dir' \in Dirs /\ stolen' \in BOOLEAN
    BY <1>2 DEF Removed, Dirs, NoDir
  <2>2. beats' \in SUBSET Beats
    BY <1>1, <1>2, BeatsType DEF Removed
  <2> QED
    BY <2>1, <2>2
<1>3. CASE RemoveFails
  <2>1. dir' \in Dirs /\ stolen' \in BOOLEAN
    <3>1. 0 \in Puts
      BY DEF Puts
    <3> QED
      BY <1>1, <1>3, <3>1 DEF RemoveFails, Dirs
  <2>2. beats' \in SUBSET Beats
    BY <1>1, <1>3, BeatsType DEF RemoveFails
  <2> QED
    BY <2>1, <2>2
<1> QED
  BY <1>2, <1>3 DEF RemoveDir

LEMMA NextTypeOK == TypeOK /\ [Next]_vars => TypeOK'
<1> SUFFICES ASSUME TypeOK, [Next]_vars
             PROVE  TypeOK'
  OBVIOUS
<1>0. /\ file \in Puts /\ sidecar \in Puts /\ dir \in Dirs /\ puts \in Puts
      /\ st \in [Procs -> Calls] /\ stolen \in BOOLEAN /\ 0 \in Puts /\ NoDir \in Dirs
      /\ beats \in SUBSET Beats
  BY DEF TypeOK, Puts, Dirs, NoDir
(* A step of p that leaves the files and the directory alone. *)
<1>1. ASSUME NEW p \in Procs, NEW pc \in PCs, Goto(p, pc)
      PROVE  st' \in [Procs -> Calls]
  BY <1>0, <1>1 DEF Goto, Calls
<1>2. ASSUME NEW p \in Procs, Return(p)
      PROVE  st' \in [Procs -> Calls]
  BY <1>0, <1>2, FreshType DEF Return
<1>10. ASSUME NEW b \in beats, MoveBeat(b)
       PROVE  TypeOK'
  <2>0. /\ b \in Beats /\ b.by \in Procs
        /\ [b EXCEPT !.at = "open"] \in Beats
        /\ b.put \in Puts /\ "checkBody" \in PCs
    BY <1>0 DEF Beats, PCs, Locked
  <2>1. CASE OpenBeat(b)
    BY <1>0, <2>0, <2>1 DEF OpenBeat, TypeOK, Dirs
  <2>2. CASE WriteBeat(b)
    <3>1. st' \in [Procs -> Calls]
      BY <1>0, <1>1, <2>0, <2>2 DEF WriteBeat
    <3> QED
      BY <1>0, <2>0, <2>2, <3>1 DEF WriteBeat, TypeOK, Dirs
  <2>3. CASE BeatFails(b)
    <3>1. st' \in [Procs -> Calls]
      BY <1>0, <1>2, <2>0, <2>3 DEF BeatFails
    <3> QED
      BY <1>0, <2>3, <3>1 DEF BeatFails, TypeOK
  <2> QED
    BY <1>10, <2>1, <2>2, <2>3 DEF MoveBeat
<1>3. ASSUME NEW p \in Procs, NEW cond \in {"none", "ifNoneMatch", "ifMatch"}, PutStart(p, cond)
      PROVE  TypeOK'
  <2>1. puts + 1 \in Puts
    BY <1>0, <1>3 DEF PutStart, Puts
  <2> DEFINE s == [Known(p, cond) EXCEPT !.pc = "mkdir", !.cond = cond, !.put = puts + 1]
  <2>2. s \in Calls
    BY <1>0, <2>1, KnownType DEF Calls, PCs
  <2>3. st' = [st EXCEPT ![p] = s]
    BY <1>3 DEF PutStart
  <2> HIDE DEF s
  <2> QED
    BY <1>0, <1>3, <2>1, <2>2, <2>3 DEF PutStart, TypeOK
<1>4. ASSUME NEW p \in Procs, Proceed(p)
      PROVE  TypeOK'
  <2>1. CASE Mkdir(p)
    <3>1. st' \in [Procs -> Calls]
      BY <1>1, <2>1 DEF Mkdir, PCs, Locked
    <3>2. dir' \in Dirs /\ beats' \in SUBSET Beats
      BY <1>0, <2>1, BeatsType DEF Mkdir, Dirs
    <3> QED
      BY <1>0, <2>1, <3>1, <3>2 DEF Mkdir, TypeOK
  <2>4. CASE Occupied(p)
    BY <1>0, <1>1, <2>4 DEF Occupied, TypeOK, PCs
  <2>5. CASE Stat(p)
    BY <1>0, <1>1, <2>5 DEF Stat, TypeOK, PCs
  <2>6. CASE Wait(p)
    BY <1>0, <1>1, <1>2, <2>6 DEF Wait, TryAgain, TypeOK, PCs
  <2>7. CASE Break(p)
    <3>1. st' \in [Procs -> Calls]
      BY <1>1, <1>2, <2>7 DEF Break, TryAgain, PCs
    <3> QED
      BY <1>0, <2>7, <3>1, RemoveType DEF Break, TypeOK
  <2>8. CASE CheckBody(p)
    <3>1. PICK next \in PCs : st' = [st EXCEPT ![p] = [@ EXCEPT !.pc = next, !.body = file]]
      <4> DEFINE n == CASE st[p].cond = "none" -> "sidecar"
                        [] st[p].cond = "ifNoneMatch" -> IF file = 0 THEN "sidecar" ELSE "unlockRead"
                        [] st[p].cond = "ifMatch" -> IF file = 0 THEN "unlockRead" ELSE "checkEtag"
      <4>1. st[p].cond \in {"none", "ifNoneMatch", "ifMatch"}
        BY <1>0 DEF Calls
      <4>2. n \in PCs
        BY <4>1 DEF PCs, Locked
      <4>3. st' = [st EXCEPT ![p] = [@ EXCEPT !.pc = n, !.body = file]]
        BY <2>8 DEF CheckBody
      <4> HIDE DEF n
      <4> QED
        BY <4>2, <4>3
    <3>2. [st[p] EXCEPT !.pc = next, !.body = file] \in Calls
      BY <1>0 DEF Calls
    <3> QED
      BY <1>0, <2>8, <3>1, <3>2 DEF CheckBody, TypeOK
  <2>9. CASE CheckEtag(p)
    BY <1>0, <1>1, <2>9 DEF CheckEtag, TypeOK, PCs, Locked
  <2>10. CASE WriteSidecar(p)
    BY <1>0, <1>1, <2>10 DEF WriteSidecar, TypeOK, PCs, Locked, Calls
  <2>11. CASE Rename(p)
    BY <1>0, <1>1, <2>11 DEF Rename, TypeOK, PCs, Locked, Calls
  <2>12. CASE UnlockRead(p)
    BY <1>0, <1>1, <1>2, <2>12 DEF UnlockRead, TypeOK, PCs, Locked
  <2>13. CASE UnlockRm(p)
    <3>1. st' \in [Procs -> Calls]
      BY <1>2, <2>13 DEF UnlockRm
    <3> QED
      BY <1>0, <2>13, <3>1, RemoveType DEF UnlockRm, TypeOK
  <2> QED
    BY <1>4, <1>10, <2>1, <2>4, <2>5, <2>6, <2>7, <2>8, <2>9, <2>10, <2>11, <2>12, <2>13
    DEF Proceed
<1>5. ASSUME NEW p \in Procs, Get(p)
      PROVE  TypeOK'
  <2>1. CASE GetBody(p)
    <3>1. [Fresh EXCEPT !.pc = "getEtag", !.body = file] \in Calls
      BY <1>0, FreshType DEF Calls, PCs
    <3> QED
      BY <1>0, <2>1, <3>1 DEF GetBody, TypeOK
  <2>2. CASE GetEtag(p)
    <3>1. st[p].body \in Puts
      BY <1>0 DEF Calls
    <3>2. [Fresh EXCEPT !.read = st[p].body, !.etag = EtagFor(st[p].body)] \in Calls
      BY <3>1, EtagForType, FreshType DEF Calls
    <3> QED
      BY <1>0, <2>2, <3>2 DEF GetEtag, TypeOK
  <2> QED
    BY <1>5, <2>1, <2>2 DEF Get
<1>6. ASSUME NEW p \in Procs, Delete(p)
      PROVE  TypeOK'
  <2>1. CASE DeleteFile(p)
    <3>1. [Fresh EXCEPT !.pc = "deleteSidecar"] \in Calls
      BY FreshType DEF Calls, PCs
    <3> QED
      BY <1>0, <2>1, <3>1 DEF DeleteFile, TypeOK
  <2>2. CASE DeleteSidecar(p)
    BY <1>0, <1>2, <2>2 DEF DeleteSidecar, TypeOK
  <2> QED
    BY <1>6, <2>1, <2>2 DEF Delete
<1>7. ASSUME NEW p \in Procs, PutFails(p) \/ Heartbeat(p) \/ Crash(p)
      PROVE  TypeOK'
  <2>1. CASE PutFails(p)
    BY <1>0, <1>1, <2>1 DEF PutFails, TypeOK, PCs, Locked
  <2>2. CASE Heartbeat(p)
    BY <1>0, <2>2, BeatsType DEF Heartbeat, TypeOK
  <2>3. CASE Crash(p)
    <3>1. [Fresh EXCEPT !.pc = "dead"] \in Calls
      BY FreshType DEF Calls, PCs
    <3> QED
      BY <1>0, <2>3, <3>1 DEF Crash, TypeOK
  <2> QED
    BY <1>7, <2>1, <2>2, <2>3
<1>8. CASE Stale
  BY <1>0, <1>8 DEF Stale, TypeOK, Dirs
<1>9. CASE UNCHANGED vars
  BY <1>9 DEF vars, TypeOK
<1> QED
  BY <1>3, <1>4, <1>5, <1>6, <1>7, <1>8, <1>9, <1>10 DEF Next

(***************************************************************************)
(* The variables keep their types (TypeOK).                                *)
(***************************************************************************)
THEOREM TypeCorrect == Spec => []TypeOK
  BY InitTypeOK, NextTypeOK, PTL DEF Spec

-----------------------------------------------------------------------------
(***************************************************************************)
(* The inductive invariant: the lock directory belongs to the put that is  *)
(* under the lock.                                                         *)
(***************************************************************************)
Owned == ~stolen => \A p \in Procs : st[p].pc \in Locked => dir.maker = p

IInv == TypeOK /\ Owned /\ PutsSerialised

Checked == {"checkEtag", "sidecar", "rename"}

(* A step of q that keeps file and directory, and either leaves q unlocked,
   or q was locked before and goes on with the body it has or reads. *)
LEMMA MovePreserves ==
  ASSUME IInv, NEW q \in Procs, NEW s \in Calls,
         st' = [st EXCEPT ![q] = s], stolen' = stolen, dir'.maker = dir.maker,
         file' \in {0, file} ,
         s.pc \in Locked => st[q].pc \in Locked,
         s.pc \in Checked => s.body = file \/ (st[q].pc \in Checked /\ s.body = st[q].body)
  PROVE  Owned' /\ PutsSerialised'
<1>1. st'[q] = s /\ \A p \in Procs : p # q => st'[p] = st[p]
  BY DEF IInv, TypeOK
<1>2. Owned'
  BY <1>1 DEF IInv, Owned
<1>3. PutsSerialised'
  BY <1>1 DEF IInv, PutsSerialised, Checked
<1> QED
  BY <1>2, <1>3

(* When nobody is under the lock, or only q, q may remove, make or change. *)
LEMMA AlonePreserves ==
  ASSUME IInv, NEW q \in Procs, NEW s \in Calls,
         st' = [st EXCEPT ![q] = s],
         ~stolen' => ~stolen /\ \A p \in Procs : p # q => st[p].pc \notin Locked,
         s.pc \in Locked => dir'.maker = q,
         s.pc \notin Checked
  PROVE  Owned' /\ PutsSerialised'
<1>1. st'[q] = s /\ \A p \in Procs : p # q => st'[p] = st[p]
  BY DEF IInv, TypeOK
<1>2. ASSUME ~stolen'
      PROVE  \A p \in Procs : p # q => st'[p].pc \notin Locked
  BY <1>1, <1>2
<1>3. Owned'
  BY <1>1, <1>2 DEF Owned
<1>4. PutsSerialised'
  BY <1>1, <1>2 DEF PutsSerialised, Checked, Locked
<1> QED
  BY <1>3, <1>4

(* A step that concerns heartbeats only. *)
LEMMA StillPreserves ==
  ASSUME IInv, st' = st, stolen' = stolen, file' = file, dir'.maker = dir.maker
  PROVE  Owned' /\ PutsSerialised'
  BY DEF IInv, Owned, PutsSerialised

(* Whoever removes the directory without a theft leaves nobody else locked;  *)
(* a remove that fails leaves the directory to its maker.                    *)
LEMMA RemovePreserves ==
  ASSUME IInv, NEW q \in Procs, NEW s \in Calls,
         st' = [st EXCEPT ![q] = s], RemoveDir(q), file' = file, s.pc \notin Locked
  PROVE  Owned' /\ PutsSerialised'
<1>0. Checked \subseteq Locked
  BY DEF Checked, Locked
<1>1. CASE Removed(q)
  <2>1. ASSUME ~stolen', NEW p \in Procs, p # q, st[p].pc \in Locked
        PROVE  FALSE
    <3>1. dir.maker = p
      BY <1>1, <2>1 DEF Removed, IInv, Owned
    <3> QED
      BY <1>1, <2>1, <3>1 DEF Removed, DirExists
  <2>2. ~stolen' => ~stolen
    BY <1>1 DEF Removed
  <2> QED
    BY <1>0, <2>1, <2>2, AlonePreserves
<1>2. CASE RemoveFails
  <2>1. stolen' = stolen /\ dir'.maker = dir.maker
    BY <1>2 DEF RemoveFails, IInv, TypeOK, Dirs
  <2> QED
    BY <1>0, <2>1, MovePreserves
<1> QED
  BY <1>1, <1>2 DEF RemoveDir

LEMMA InitIInv == Init => IInv
<1> SUFFICES ASSUME Init PROVE IInv
  OBVIOUS
<1>1. \A p \in Procs : st[p].pc = "idle"
  BY DEF Init, Fresh
<1> QED
  BY <1>1, InitTypeOK DEF IInv, Owned, PutsSerialised, Locked

LEMMA NextIInv == IInv /\ [Next]_vars => IInv'
<1> SUFFICES ASSUME IInv, [Next]_vars
             PROVE  Owned' /\ PutsSerialised'
  BY NextTypeOK DEF IInv
<1>0. TypeOK /\ file \in Puts /\ dir \in Dirs /\ st \in [Procs -> Calls] /\ Fresh \in Calls
  BY FreshType DEF IInv, TypeOK
(* Leaving the lock, or moving outside it. *)
<1>1. ASSUME NEW p \in Procs, Return(p), stolen' = stolen, dir'.maker = dir.maker,
             file' \in {0, file}
      PROVE  Owned' /\ PutsSerialised'
  <2>1. Fresh.pc = "idle"
    BY DEF Fresh
  <2> QED
    BY <1>0, <1>1, <2>1, MovePreserves DEF Return, Locked, Checked
<1>2. ASSUME NEW p \in Procs, NEW pc \in PCs, Goto(p, pc),
             stolen' = stolen, dir'.maker = dir.maker, file' = file,
             pc \in Locked => st[p].pc \in Locked, pc \in Checked => st[p].pc \in Checked
      PROVE  Owned' /\ PutsSerialised'
  <2> DEFINE s == [st[p] EXCEPT !.pc = pc]
  <2>1. s \in Calls /\ s.pc = pc /\ s.body = st[p].body
    BY <1>0 DEF Calls
  <2>2. st' = [st EXCEPT ![p] = s]
    BY <1>2 DEF Goto
  <2> HIDE DEF s
  <2> QED
    BY <1>2, <2>1, <2>2, MovePreserves
<1>10. ASSUME NEW b \in beats, MoveBeat(b)
       PROVE  Owned' /\ PutsSerialised'
  <2>1. b.by \in Procs
    BY DEF IInv, TypeOK, Beats
  <2>2. file' = file /\ stolen' = stolen /\ dir'.maker = dir.maker
    BY <1>0, <1>10 DEF MoveBeat, OpenBeat, WriteBeat, BeatFails, Dirs
  <2>3. \/ st' = st
        \/ st[b.by].pc = "beat" /\ Goto(b.by, "checkBody")
        \/ Return(b.by)
    BY <1>10 DEF MoveBeat, OpenBeat, WriteBeat, BeatFails, Awaited
  <2>4. CASE st' = st
    BY <2>2, <2>4, StillPreserves
  <2>5. CASE st[b.by].pc = "beat" /\ Goto(b.by, "checkBody")
    BY <1>2, <2>1, <2>2, <2>5 DEF PCs, Locked, Checked
  <2>6. CASE Return(b.by)
    BY <1>1, <2>1, <2>2, <2>6
  <2> QED
    BY <2>3, <2>4, <2>5, <2>6
<1>3. ASSUME NEW p \in Procs, NEW cond \in {"none", "ifNoneMatch", "ifMatch"}, PutStart(p, cond)
      PROVE  Owned' /\ PutsSerialised'
  <2> DEFINE s == [Known(p, cond) EXCEPT !.pc = "mkdir", !.cond = cond, !.put = puts + 1]
  <2>0. Known(p, cond) \in Calls
    BY <1>0, KnownType DEF IInv, TypeOK
  <2>1. st' = [st EXCEPT ![p] = s] /\ file' = file /\ dir' = dir /\ stolen' = stolen
    BY <1>3 DEF PutStart
  <2>2. s.pc = "mkdir"
    BY <2>0 DEF Calls
  <2>3. s \in Calls
    <3>1. puts + 1 \in Puts
      BY <1>0, <1>3 DEF PutStart, Puts, TypeOK
    <3> QED
      BY <1>0, <2>0, <3>1 DEF Calls, PCs
  <2> HIDE DEF s
  <2> QED
    BY <2>1, <2>2, <2>3, MovePreserves DEF Locked, Checked
<1>4. ASSUME NEW p \in Procs, Proceed(p)
      PROVE  Owned' /\ PutsSerialised'
  <2>1. CASE Mkdir(p)
    <3> DEFINE s == [st[p] EXCEPT !.pc = "beat"]
    <3>1. st' = [st EXCEPT ![p] = s] /\ stolen' = stolen /\ dir'.maker = p
      BY <2>1 DEF Mkdir, Goto
    <3>2. s \in Calls /\ s.pc = "beat"
      BY <1>0 DEF Calls, PCs, Locked
    <3>3. ~stolen => \A q \in Procs : st[q].pc \notin Locked
      BY <2>1 DEF Mkdir, DirExists, IInv, Owned
    <3> HIDE DEF s
    <3> QED
      BY <3>1, <3>2, <3>3, AlonePreserves DEF Checked
  <2>4. CASE Occupied(p)
    BY <1>2, <2>4 DEF Occupied, PCs, Locked, Checked
  <2>5. CASE Stat(p)
    BY <1>2, <2>5 DEF Stat, PCs, Locked, Checked
  <2>6. CASE Wait(p)
    BY <1>1, <1>2, <2>6 DEF Wait, TryAgain, PCs, Locked, Checked
  <2>7. CASE Break(p)
    <3>1. PICK s \in Calls : st' = [st EXCEPT ![p] = s] /\ s.pc \in {"idle", "mkdir"}
      <4>1. Fresh.pc = "idle"
        BY DEF Fresh
      <4>2. [st[p] EXCEPT !.pc = "mkdir"] \in Calls /\ [st[p] EXCEPT !.pc = "mkdir"].pc = "mkdir"
        BY <1>0 DEF Calls, PCs
      <4> QED
        BY <1>0, <2>7, <4>1, <4>2 DEF Break, TryAgain, Goto, Return
    <3> QED
      BY <2>7, <3>1, RemovePreserves DEF Break, Locked
  <2>8. CASE CheckBody(p)
    <3> DEFINE n == CASE st[p].cond = "none" -> "sidecar"
                      [] st[p].cond = "ifNoneMatch" -> IF file = 0 THEN "sidecar" ELSE "unlockRead"
                      [] st[p].cond = "ifMatch" -> IF file = 0 THEN "unlockRead" ELSE "checkEtag"
               s == [st[p] EXCEPT !.pc = n, !.body = file]
    <3>1. n \in PCs
      <4>1. st[p].cond \in {"none", "ifNoneMatch", "ifMatch"}
        BY <1>0 DEF Calls
      <4> QED
        BY <4>1 DEF PCs, Locked
    <3>2. st' = [st EXCEPT ![p] = s] /\ UNCHANGED <<file, dir, stolen>> /\ st[p].pc = "checkBody"
      BY <2>8 DEF CheckBody
    <3> HIDE DEF n
    <3>3. s \in Calls /\ s.body = file
      BY <1>0, <3>1 DEF Calls
    <3> HIDE DEF s
    <3> QED
      BY <3>2, <3>3, MovePreserves DEF Locked
  <2>9. CASE CheckEtag(p)
    BY <1>2, <2>9 DEF CheckEtag, PCs, Locked, Checked
  <2>10. CASE WriteSidecar(p)
    BY <1>2, <2>10 DEF WriteSidecar, PCs, Locked, Checked
  <2>11. CASE Rename(p)
    <3> DEFINE s == [st[p] EXCEPT !.pc = "unlockRead"]
    <3>1. st' = [st EXCEPT ![p] = s] /\ stolen' = stolen /\ dir' = dir /\ st[p].pc = "rename"
      BY <2>11 DEF Rename, Goto
    <3>2. s \in Calls /\ s.pc = "unlockRead"
      BY <1>0 DEF Calls, PCs, Locked
    <3>3. ~stolen => dir.maker = p /\ \A q \in Procs : q # p => st[q].pc \notin Locked
      BY <3>1 DEF IInv, Owned, Locked
    <3> HIDE DEF s
    <3>4. CASE stolen
      BY <3>1, <3>4 DEF Owned, PutsSerialised
    <3>5. CASE ~stolen
      BY <3>1, <3>2, <3>3, <3>5, AlonePreserves DEF Checked
    <3> QED
      BY <3>4, <3>5
  <2>12. CASE UnlockRead(p)
    BY <1>1, <1>2, <2>12 DEF UnlockRead, PCs, Locked, Checked
  <2>13. CASE UnlockRm(p)
    <3>1. Fresh.pc = "idle"
      BY DEF Fresh
    <3> QED
      BY <1>0, <2>13, <3>1, RemovePreserves DEF UnlockRm, Return, Locked
  <2> QED
    BY <1>4, <1>10, <2>1, <2>4, <2>5, <2>6, <2>7, <2>8, <2>9, <2>10, <2>11, <2>12, <2>13
    DEF Proceed
<1>5. ASSUME NEW p \in Procs, Get(p) \/ Delete(p)
      PROVE  Owned' /\ PutsSerialised'
  <2>1. CASE GetBody(p)
    <3>1. /\ [Fresh EXCEPT !.pc = "getEtag", !.body = file] \in Calls
          /\ [Fresh EXCEPT !.pc = "getEtag", !.body = file].pc = "getEtag"
      BY <1>0 DEF Calls, PCs
    <3> QED
      BY <2>1, <3>1, MovePreserves DEF GetBody, Locked, Checked
  <2>2. CASE GetEtag(p)
    <3> DEFINE s == [Fresh EXCEPT !.read = st[p].body, !.etag = EtagFor(st[p].body)]
    <3>1. st[p].body \in Puts
      BY <1>0 DEF Calls
    <3>2. s \in Calls
      BY <1>0, <3>1, EtagForType DEF Calls
    <3>3. s.pc = "idle"
      BY DEF Fresh
    <3>4. st' = [st EXCEPT ![p] = s] /\ UNCHANGED <<file, dir, stolen>>
      BY <2>2 DEF GetEtag
    <3> HIDE DEF s
    <3> QED
      BY <3>2, <3>3, <3>4, MovePreserves DEF Locked, Checked
  <2>3. CASE DeleteFile(p)
    <3> DEFINE s == [Fresh EXCEPT !.pc = "deleteSidecar"]
    <3>1. s \in Calls /\ s.pc = "deleteSidecar"
      BY <1>0 DEF Calls, PCs
    <3>2. st' = [st EXCEPT ![p] = s] /\ file' = 0 /\ UNCHANGED <<dir, stolen>>
      BY <2>3 DEF DeleteFile
    <3> HIDE DEF s
    <3> QED
      BY <3>1, <3>2, MovePreserves DEF Locked, Checked
  <2>4. CASE DeleteSidecar(p)
    BY <1>1, <2>4 DEF DeleteSidecar
  <2> QED
    BY <1>5, <2>1, <2>2, <2>3, <2>4 DEF Get, Delete
<1>6. ASSUME NEW p \in Procs, PutFails(p) \/ Heartbeat(p) \/ Crash(p)
      PROVE  Owned' /\ PutsSerialised'
  <2>1. CASE PutFails(p)
    BY <1>2, <2>1 DEF PutFails, PCs, Locked, Checked
  <2>2. CASE Heartbeat(p)
    BY <2>2, StillPreserves DEF Heartbeat
  <2>3. CASE Crash(p)
    <3> DEFINE s == [Fresh EXCEPT !.pc = "dead"]
    <3>1. s \in Calls /\ s.pc = "dead"
      BY <1>0 DEF Calls, PCs
    <3>2. st' = [st EXCEPT ![p] = s] /\ UNCHANGED <<file, dir, stolen>>
      BY <2>3 DEF Crash
    <3> HIDE DEF s
    <3> QED
      BY <3>1, <3>2, MovePreserves DEF Locked, Checked
  <2> QED
    BY <1>6, <2>1, <2>2, <2>3
<1>7. CASE Stale
  BY <1>0, <1>7 DEF Stale, Dirs, IInv, Owned, PutsSerialised
<1>8. CASE UNCHANGED vars
  BY <1>8 DEF vars, IInv, Owned, PutsSerialised
<1> QED
  BY <1>3, <1>4, <1>5, <1>6, <1>7, <1>8, <1>10 DEF Next

(***************************************************************************)
(* Whatever crashes, stalls or fails, and however many processes compete,  *)
(* no put changes the file between another's check and its rename unless   *)
(* a lock directory was removed under a running put (PutsSerialised).      *)
(***************************************************************************)
THEOREM Serialised == Spec => []PutsSerialised
<1>1. IInv => PutsSerialised
  BY DEF IInv
<1> QED
  BY <1>1, InitIInv, NextIInv, PTL DEF Spec

-----------------------------------------------------------------------------
(***************************************************************************)
(* What is left when all calls have returned.  As long as no directory was *)
(* stolen, the sidecar belongs to the body unless a call that will put     *)
(* that right is under way, or has died.                                   *)
(***************************************************************************)
Tended == \E p \in Procs : st[p].pc \in {"rename", "deleteSidecar", "dead"}

Settling ==
  ~stolen =>
    /\ \A p \in Procs : st[p].pc = "rename" => sidecar \in {0, st[p].put}
    /\ sidecar \in {0, file} \/ Tended

(* A step of q from a point where nobody waits for it, which leaves the      *)
(* files alone, or takes the sidecar away.                                 *)
LEMMA ElsewhereKeeps ==
  ASSUME Settling, TypeOK, NEW q \in Procs, NEW s \in Calls,
         st' = [st EXCEPT ![q] = s], stolen' = stolen,
         sidecar' \in {sidecar, 0}, file' = file,
         s.pc # "rename",
         st[q].pc \in {"rename", "deleteSidecar", "dead"} => s.pc = "dead"
  PROVE  Settling'
<1>1. st'[q] = s /\ \A p \in Procs : p # q => st'[p] = st[p]
  BY DEF TypeOK
<1>2. ASSUME ~stolen, NEW p \in Procs, st'[p].pc = "rename"
      PROVE  sidecar' \in {0, st'[p].put}
  BY <1>1, <1>2 DEF Settling
<1>3. Tended => Tended'
  BY <1>1 DEF Tended
<1> QED
  BY <1>2, <1>3 DEF Settling

LEMMA NextSettling == IInv /\ Settling /\ [Next]_vars => Settling'
<1> SUFFICES ASSUME IInv, Settling, [Next]_vars
             PROVE  Settling'
  OBVIOUS
<1>0. /\ TypeOK /\ file \in Puts /\ dir \in Dirs /\ st \in [Procs -> Calls]
      /\ Fresh \in Calls /\ Fresh.pc = "idle"
  BY FreshType DEF IInv, TypeOK, Fresh
<1>a. \A p \in Procs : ~stolen /\ st[p].pc \in Locked =>
        dir.maker = p /\ \A q \in Procs : q # p => st[q].pc \notin Locked
  BY DEF IInv, Owned
<1>1. ASSUME NEW p \in Procs, Return(p), UNCHANGED <<file, sidecar, stolen>>,
             st[p].pc \notin {"rename", "deleteSidecar", "dead"}
      PROVE  Settling'
  BY <1>0, <1>1, ElsewhereKeeps DEF Return
<1>2. ASSUME NEW p \in Procs, NEW pc \in PCs, Goto(p, pc), UNCHANGED <<file, stolen>>,
             sidecar' \in {sidecar, 0}, pc # "rename",
             st[p].pc \in {"rename", "deleteSidecar", "dead"} => pc = "dead"
      PROVE  Settling'
  <2> DEFINE s == [st[p] EXCEPT !.pc = pc]
  <2>1. s \in Calls /\ s.pc = pc
    BY <1>0 DEF Calls
  <2>2. st' = [st EXCEPT ![p] = s]
    BY <1>2 DEF Goto
  <2> HIDE DEF s
  <2> QED
    BY <1>0, <1>2, <2>1, <2>2, ElsewhereKeeps
<1>10. ASSUME NEW b \in beats, MoveBeat(b)
       PROVE  Settling'
  <2>1. b.by \in Procs
    BY <1>0 DEF TypeOK, Beats
  <2>2. UNCHANGED <<file, sidecar, stolen>>
    BY <1>10 DEF MoveBeat, OpenBeat, WriteBeat, BeatFails
  <2>3. \/ st' = st
        \/ st[b.by].pc = "beat" /\ (Goto(b.by, "checkBody") \/ Return(b.by))
    BY <1>10 DEF MoveBeat, OpenBeat, WriteBeat, BeatFails, Awaited
  <2>4. CASE st' = st
    BY <2>2, <2>4 DEF Settling, Tended
  <2>5. CASE st[b.by].pc = "beat" /\ (Goto(b.by, "checkBody") \/ Return(b.by))
    BY <1>1, <1>2, <2>1, <2>2, <2>5 DEF PCs, Locked
  <2> QED
    BY <2>3, <2>4, <2>5
(* A removed directory is nobody's, or was stolen.                         *)
<1>11. ASSUME NEW p \in Procs, RemoveDir(p), UNCHANGED <<file, sidecar>>,
              Return(p) \/ Goto(p, "mkdir"), st[p].pc \in {"break", "unlockRm"}
       PROVE  Settling'
  <2>1. stolen => stolen'
    BY <1>11 DEF RemoveDir, Removed, RemoveFails
  <2>2. CASE stolen'
    BY <2>2 DEF Settling
  <2>3. CASE ~stolen'
    <3>1. stolen' = stolen
      BY <1>0, <1>11, <2>1, <2>3 DEF RemoveDir, Removed, RemoveFails, TypeOK
    <3> QED
      BY <1>1, <1>2, <1>11, <3>1 DEF PCs
  <2> QED
    BY <2>2, <2>3
<1>3. ASSUME NEW p \in Procs, NEW cond \in {"none", "ifNoneMatch", "ifMatch"}, PutStart(p, cond)
      PROVE  Settling'
  <2> DEFINE s == [Known(p, cond) EXCEPT !.pc = "mkdir", !.cond = cond, !.put = puts + 1]
  <2>0. Known(p, cond) \in Calls
    BY <1>0, KnownType
  <2>1. /\ st' = [st EXCEPT ![p] = s] /\ UNCHANGED <<file, sidecar, dir, stolen>>
        /\ st[p].pc = "idle"
    BY <1>3 DEF PutStart
  <2>2. s.pc = "mkdir"
    BY <2>0 DEF Calls
  <2>3. s \in Calls
    <3>1. puts + 1 \in Puts
      BY <1>0, <1>3 DEF PutStart, Puts, TypeOK
    <3> QED
      BY <2>0, <3>1 DEF Calls, PCs
  <2> HIDE DEF s
  <2> QED
    BY <1>0, <2>1, <2>2, <2>3, ElsewhereKeeps
<1>4. ASSUME NEW p \in Procs, Proceed(p)
      PROVE  Settling'
  <2>1. CASE Mkdir(p)
    BY <1>0, <1>2, <2>1 DEF Mkdir, PCs, Locked
  <2>4. CASE Occupied(p)
    BY <1>2, <2>4 DEF Occupied, PCs
  <2>5. CASE Stat(p)
    BY <1>2, <2>5 DEF Stat, PCs
  <2>6. CASE Wait(p)
    BY <1>1, <1>2, <2>6 DEF Wait, TryAgain, PCs
  <2>7. CASE Break(p)
    BY <1>11, <2>7 DEF Break, TryAgain
  <2>8. CASE CheckBody(p)
    <3> DEFINE n == CASE st[p].cond = "none" -> "sidecar"
                      [] st[p].cond = "ifNoneMatch" -> IF file = 0 THEN "sidecar" ELSE "unlockRead"
                      [] st[p].cond = "ifMatch" -> IF file = 0 THEN "unlockRead" ELSE "checkEtag"
               s == [st[p] EXCEPT !.pc = n, !.body = file]
    <3>1. n \in {"sidecar", "unlockRead", "checkEtag"}
      <4>1. st[p].cond \in {"none", "ifNoneMatch", "ifMatch"}
        BY <1>0 DEF Calls
      <4> QED
        BY <4>1
    <3>2. /\ st' = [st EXCEPT ![p] = s] /\ UNCHANGED <<file, sidecar, dir, stolen>>
          /\ st[p].pc = "checkBody"
      BY <2>8 DEF CheckBody
    <3> HIDE DEF n
    <3>3. s \in Calls /\ s.pc = n
      BY <1>0, <3>1 DEF Calls, PCs, Locked
    <3> HIDE DEF s
    <3> QED
      BY <1>0, <3>1, <3>2, <3>3, ElsewhereKeeps
  <2>9. CASE CheckEtag(p)
    BY <1>2, <2>9 DEF CheckEtag, PCs, Locked
  <2>10. CASE WriteSidecar(p)
    <3>1. st' = [st EXCEPT ![p] = [@ EXCEPT !.pc = "rename"]] /\ st[p].pc = "sidecar"
      BY <2>10 DEF WriteSidecar, Goto
    <3>2. st'[p].pc = "rename" /\ st'[p].put = st[p].put /\ \A q \in Procs : q # p => st'[q] = st[q]
      BY <1>0, <3>1 DEF Calls
    <3>3. sidecar' = st[p].put /\ UNCHANGED <<file, dir, stolen>>
      BY <2>10 DEF WriteSidecar
    <3>4. ~stolen => \A q \in Procs : q # p => st[q].pc # "rename"
      BY <1>a, <3>1 DEF Locked
    <3> QED
      BY <3>2, <3>3, <3>4 DEF Settling, Tended
  <2>11. CASE Rename(p)
    <3>1. st' = [st EXCEPT ![p] = [@ EXCEPT !.pc = "unlockRead"]] /\ st[p].pc = "rename"
      BY <2>11 DEF Rename, Goto
    <3>2. st'[p].pc = "unlockRead" /\ \A q \in Procs : q # p => st'[q] = st[q]
      BY <1>0, <3>1 DEF Calls
    <3>3. file' = st[p].put /\ UNCHANGED <<sidecar, dir, stolen>>
      BY <2>11 DEF Rename
    <3> QED
      BY <3>1, <3>2, <3>3 DEF Settling
  <2>12. CASE UnlockRead(p)
    BY <1>1, <1>2, <2>12 DEF UnlockRead, PCs, Locked
  <2>13. CASE UnlockRm(p)
    BY <1>11, <2>13 DEF UnlockRm
  <2> QED
    BY <1>4, <1>10, <2>1, <2>4, <2>5, <2>6, <2>7, <2>8, <2>9, <2>10, <2>11, <2>12, <2>13
    DEF Proceed
<1>5. ASSUME NEW p \in Procs, Get(p) \/ Delete(p)
      PROVE  Settling'
  <2>1. CASE GetBody(p)
    <3> DEFINE s == [Fresh EXCEPT !.pc = "getEtag", !.body = file]
    <3>1. s \in Calls /\ s.pc = "getEtag"
      BY <1>0 DEF Calls, PCs
    <3>2. /\ st' = [st EXCEPT ![p] = s] /\ UNCHANGED <<file, sidecar, dir, stolen>>
          /\ st[p].pc = "idle"
      BY <2>1 DEF GetBody
    <3> HIDE DEF s
    <3> QED
      BY <1>0, <3>1, <3>2, ElsewhereKeeps
  <2>2. CASE GetEtag(p)
    <3> DEFINE s == [Fresh EXCEPT !.read = st[p].body, !.etag = EtagFor(st[p].body)]
    <3>1. st[p].body \in Puts
      BY <1>0 DEF Calls
    <3>2. s \in Calls
      BY <1>0, <3>1, EtagForType DEF Calls
    <3>3. s.pc = "idle"
      BY DEF Fresh
    <3>4. /\ st' = [st EXCEPT ![p] = s] /\ UNCHANGED <<file, sidecar, dir, stolen>>
          /\ st[p].pc = "getEtag"
      BY <2>2 DEF GetEtag
    <3> HIDE DEF s
    <3> QED
      BY <1>0, <3>2, <3>3, <3>4, ElsewhereKeeps
  <2>3. CASE DeleteFile(p)
    <3>1. st' = [st EXCEPT ![p] = [Fresh EXCEPT !.pc = "deleteSidecar"]] /\ UNCHANGED <<sidecar, dir, stolen>>
      BY <2>3 DEF DeleteFile
    <3>2. st'[p].pc = "deleteSidecar" /\ \A q \in Procs : q # p => st'[q] = st[q]
      BY <1>0, <3>1 DEF Calls
    <3> QED
      BY <3>1, <3>2 DEF Settling, Tended
  <2>4. CASE DeleteSidecar(p)
    <3>1. st' = [st EXCEPT ![p] = Fresh] /\ sidecar' = 0 /\ UNCHANGED <<file, dir, stolen>>
      BY <2>4 DEF DeleteSidecar, Return
    <3>2. st'[p].pc = "idle" /\ \A q \in Procs : q # p => st'[q] = st[q]
      BY <1>0, <3>1
    <3> QED
      BY <3>1, <3>2 DEF Settling
  <2> QED
    BY <1>5, <2>1, <2>2, <2>3, <2>4 DEF Get, Delete
<1>6. ASSUME NEW p \in Procs, PutFails(p) \/ Heartbeat(p) \/ Crash(p)
      PROVE  Settling'
  <2>1. CASE PutFails(p)
    BY <1>2, <2>1 DEF PutFails, PCs, Locked
  <2>2. CASE Heartbeat(p)
    BY <2>2 DEF Heartbeat, Settling, Tended
  <2>3. CASE Crash(p)
    <3> DEFINE s == [Fresh EXCEPT !.pc = "dead"]
    <3>1. s \in Calls /\ s.pc = "dead"
      BY <1>0 DEF Calls, PCs
    <3>2. st' = [st EXCEPT ![p] = s] /\ UNCHANGED <<file, sidecar, stolen>>
      BY <2>3 DEF Crash
    <3> HIDE DEF s
    <3> QED
      BY <1>0, <3>1, <3>2, ElsewhereKeeps
  <2> QED
    BY <1>6, <2>1, <2>2, <2>3
<1>7. CASE Stale
  BY <1>7 DEF Stale, Settling, Tended
<1>8. CASE UNCHANGED vars
  BY <1>8 DEF vars, Settling, Tended
<1> QED
  BY <1>3, <1>4, <1>5, <1>6, <1>7, <1>8, <1>10 DEF Next

LEMMA SettlingKept == Spec => [](IInv /\ Settling)
<1>1. Init => Settling
  BY DEF Init, Fresh, Settling
<1> QED
  BY <1>1, InitIInv, NextIInv, NextSettling, PTL DEF Spec

(***************************************************************************)
(* Once all calls have returned, however many puts, gets and deletes have  *)
(* overlapped, the sidecar is the body's or there is none (EtagSettled):   *)
(* the next reader gets body and etag of one put.                          *)
(***************************************************************************)
THEOREM Settled == Spec => []EtagSettled
<1>1. Settling => EtagSettled
  BY DEF Settling, Tended, EtagSettled, Quiet
<1> QED
  BY <1>1, SettlingKept, PTL
=============================================================================
