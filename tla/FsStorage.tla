----------------------------- MODULE FsStorage -----------------------------
(***************************************************************************)
(* One object of the local file storage (src/src/fs-storage.ts) and the    *)
(* processes of one machine that read, put and delete it.  The object is   *)
(* two files, its body and the sidecar with its etag; puts are serialised  *)
(* by a lock directory with a heartbeat file.  Each call to the file       *)
(* system is a step of its own.                                            *)
(***************************************************************************)
EXTENDS Integers, FiniteSets

CONSTANTS Procs,    \* processes, each with one call at a time
          NoProc,   \* the maker of no directory
          Faults,   \* what may go wrong: "crash", "stall" (no heartbeat for staleMs), "ioFail"
          Deletes,  \* TRUE when somebody deletes the object
          MaxWrite, \* bound on the number of puts
          MaxBeats  \* bound on the heartbeats under way when an interval begins another

ASSUME FsAssumption ==
  /\ NoProc \notin Procs
  /\ Faults \subseteq {"crash", "stall", "ioFail"}
  /\ Deletes \in BOOLEAN
  /\ MaxWrite \in Nat /\ MaxBeats \in Nat

VARIABLES file,    \* the put whose body the file holds; 0: no file
          sidecar, \* the put whose token the sidecar holds; 0: no sidecar
          dir,     \* the lock directory: who made it, the token in its heartbeat file, still fresh?
          beats,   \* writes of heartbeats that are under way
          puts,    \* puts begun so far
          st,      \* what each process is doing
          stolen   \* history: the lock directory of a running put was removed

vars == <<file, sidecar, dir, beats, puts, st, stolen>>

Puts == 0 .. MaxWrite

\* the token of a put is its number; 0 is a heartbeat file that is still empty
NoFile == -1

Dirs == [maker: Procs \cup {NoProc}, token: Puts \cup {NoFile}, fresh: BOOLEAN]

NoDir == [maker |-> NoProc, token |-> NoFile, fresh |-> FALSE]

\* a writeFile: not yet opened, opened (and emptied), opened and unlinked since
Beats == [by: Procs, put: Puts, at: {"sent", "open", "unlinked"}]

DirExists == dir.maker # NoProc

Locked == {"beat", "checkBody", "checkEtag", "sidecar", "rename", "unlockRead", "unlockRm"}

\* while the heartbeat timer of a put runs
Beating == {"checkBody", "checkEtag", "sidecar", "rename"}

PCs == {"idle", "getEtag", "mkdir", "stat", "break", "deleteSidecar", "dead"} \cup Locked

\* etags: a token is a put; the content hash of put b's body is -b
Etags == -MaxWrite .. MaxWrite

Calls == [pc: PCs,
          cond: {"none", "ifNoneMatch", "ifMatch"},
          put: Puts,      \* the put it is on
          body: Puts,     \* what it read from the file
          read: Puts,     \* the body and the etag its last get returned
          etag: Etags]

Fresh == [pc |-> "idle", cond |-> "none", put |-> 0, body |-> 0, read |-> 0, etag |-> 0]

Init ==
  /\ file = 0
  /\ sidecar = 0
  /\ dir = NoDir
  /\ beats = {}
  /\ puts = 0
  /\ st = [p \in Procs |-> Fresh]
  /\ stolen = FALSE

Goto(p, pc) == st' = [st EXCEPT ![p] = [@ EXCEPT !.pc = pc]]

\* the call returns or throws; a conditional put always follows a get of its own
Return(p) == st' = [st EXCEPT ![p] = Fresh]

(* etagFor: the token, or the hash of the body that was read. *)
EtagFor(body) == IF sidecar # 0 THEN sidecar ELSE -body

-----------------------------------------------------------------------------
(* getObjectWithMetadata and headObject: the body, then the etag *)

GetBody(p) ==
  /\ st[p].pc = "idle"
  /\ file # 0
  /\ st' = [st EXCEPT ![p] = [Fresh EXCEPT !.pc = "getEtag", !.body = file]]
  /\ UNCHANGED <<file, sidecar, dir, beats, puts, stolen>>

GetEtag(p) ==
  /\ st[p].pc = "getEtag"
  /\ st' = [st EXCEPT ![p] = [Fresh EXCEPT !.read = st[p].body, !.etag = EtagFor(st[p].body)]]
  /\ UNCHANGED <<file, sidecar, dir, beats, puts, stolen>>

-----------------------------------------------------------------------------
(* deleteObject takes no lock *)

DeleteFile(p) ==
  /\ Deletes
  /\ st[p].pc = "idle"
  /\ file' = 0
  /\ st' = [st EXCEPT ![p] = [Fresh EXCEPT !.pc = "deleteSidecar"]]
  /\ UNCHANGED <<sidecar, dir, beats, puts, stolen>>

DeleteSidecar(p) ==
  /\ st[p].pc = "deleteSidecar"
  /\ sidecar' = 0
  /\ Return(p)
  /\ UNCHANGED <<file, dir, beats, puts, stolen>>

-----------------------------------------------------------------------------
(* withKeyLock: taking the lock directory *)

\* only a put under ifMatch goes by what its caller has read
Known(p, cond) == IF cond = "ifMatch" THEN st[p] ELSE Fresh

PutStart(p, cond) ==
  /\ st[p].pc = "idle"
  /\ puts < MaxWrite
  /\ cond = "ifMatch" => st[p].etag # 0
  /\ puts' = puts + 1
  /\ st' = [st EXCEPT ![p] = [Known(p, cond) EXCEPT !.pc = "mkdir", !.cond = cond, !.put = puts + 1]]
  /\ UNCHANGED <<file, sidecar, dir, beats, stolen>>

Beat(p) == [by |-> p, put |-> st[p].put, at |-> "sent"]

(* MUTANT MkdirRecursive: mkdir succeeds when the directory is there. *)
MkdirRecursive(p) ==
  /\ st[p].pc = "mkdir"
  /\ dir' = [maker |-> p, token |-> NoFile, fresh |-> FALSE]
  /\ beats' = beats \cup {Beat(p)}
  /\ Goto(p, "beat")
  /\ UNCHANGED <<file, sidecar, puts, stolen>>

(* The directory is made, and the write of the first heartbeat begins. *)
Mkdir(p) ==
  /\ st[p].pc = "mkdir"
  /\ ~DirExists
  /\ dir' = [maker |-> p, token |-> NoFile, fresh |-> FALSE]
  /\ beats' = beats \cup {Beat(p)}
  /\ Goto(p, "beat")
  /\ UNCHANGED <<file, sidecar, puts, stolen>>

Occupied(p) ==
  /\ st[p].pc = "mkdir"
  /\ DirExists
  /\ Goto(p, "stat")
  /\ UNCHANGED <<file, sidecar, dir, beats, puts, stolen>>

(* MUTANT BreakableWithoutHeartbeat: a heartbeat that stopped is waited for. *)
BreakableWithoutHeartbeat == dir.token = NoFile

(* No heartbeat file, or one that has not been touched for staleMs. *)
Breakable == dir.token = NoFile \/ ~dir.fresh

Stat(p) ==
  /\ st[p].pc = "stat"
  /\ Breakable
  /\ Goto(p, "break")
  /\ UNCHANGED <<file, sidecar, dir, beats, puts, stolen>>

\* after a delay, unless the deadline of 60 s has passed
TryAgain(p) == Goto(p, "mkdir") \/ Return(p)

Wait(p) ==
  /\ st[p].pc = "stat"
  /\ ~Breakable
  /\ TryAgain(p)
  /\ UNCHANGED <<file, sidecar, dir, beats, puts, stolen>>

Unlinked(b) == IF b.at = "open" THEN [b EXCEPT !.at = "unlinked"] ELSE b

(* A recursive remove of whatever directory is there by now. *)
Removed(p) ==
  /\ dir' = NoDir
  /\ beats' = {Unlinked(b) : b \in beats}
  /\ stolen' = (stolen \/ (DirExists /\ dir.maker # p /\ st[dir.maker].pc \in Locked))

(* A heartbeat that is opened between the unlink and the rmdir makes the
   remove fail, which is ignored: the directory stays. *)
RemoveFails ==
  /\ DirExists
  /\ \E late \in beats :
       /\ late.at = "sent"
       /\ beats' = {Unlinked(b) : b \in beats \ {late}} \cup {[late EXCEPT !.at = "open"]}
  /\ dir' = [dir EXCEPT !.token = 0, !.fresh = TRUE]
  /\ UNCHANGED stolen

RemoveDir(p) == Removed(p) \/ RemoveFails

Break(p) ==
  /\ st[p].pc = "break"
  /\ RemoveDir(p)
  /\ TryAgain(p)
  /\ UNCHANGED <<file, sidecar, puts>>

-----------------------------------------------------------------------------
(* putObject under the lock *)

CheckBody(p) ==
  /\ st[p].pc = "checkBody"
  /\ LET next == CASE st[p].cond = "none" -> "sidecar"
                   [] st[p].cond = "ifNoneMatch" -> IF file = 0 THEN "sidecar" ELSE "unlockRead"
                   [] st[p].cond = "ifMatch" -> IF file = 0 THEN "unlockRead" ELSE "checkEtag"
     IN  st' = [st EXCEPT ![p] = [@ EXCEPT !.pc = next, !.body = file]]
  /\ UNCHANGED <<file, sidecar, dir, beats, puts, stolen>>

CheckEtag(p) ==
  /\ st[p].pc = "checkEtag"
  /\ Goto(p, IF EtagFor(st[p].body) = st[p].etag THEN "sidecar" ELSE "unlockRead")
  /\ UNCHANGED <<file, sidecar, dir, beats, puts, stolen>>

(* MUTANT WriteSidecarHash: the sidecar holds a content hash and no token. *)
WriteSidecarHash(p) ==
  /\ st[p].pc = "sidecar"
  /\ sidecar' = -st[p].put
  /\ Goto(p, "rename")
  /\ UNCHANGED <<file, dir, beats, puts, stolen>>

(* The temporary file, which only this put knows, and the sidecar. *)
WriteSidecar(p) ==
  /\ st[p].pc = "sidecar"
  /\ sidecar' = st[p].put
  /\ Goto(p, "rename")
  /\ UNCHANGED <<file, dir, beats, puts, stolen>>

(* MUTANT RenameForgotten: the temporary file stays where it is. *)
RenameForgotten(p) ==
  /\ st[p].pc = "rename"
  /\ Goto(p, "unlockRead")
  /\ UNCHANGED <<file, sidecar, dir, beats, puts, stolen>>

Rename(p) ==
  /\ st[p].pc = "rename"
  /\ file' = st[p].put
  /\ Goto(p, "unlockRead")
  /\ UNCHANGED <<sidecar, dir, beats, puts, stolen>>

(* The disk is full: the temporary file cannot be written, or the sidecar,
   which is empty then and counts as none. *)
PutFails(p) ==
  /\ "ioFail" \in Faults
  /\ st[p].pc = "sidecar"
  /\ sidecar' \in {sidecar, 0}
  /\ Goto(p, "unlockRead")
  /\ UNCHANGED <<file, dir, beats, puts, stolen>>

-----------------------------------------------------------------------------
(* withKeyLock: heartbeat and release *)

(* The interval begins a write that nobody awaits: it may still be under way
   when the put is over. *)
Heartbeat(p) ==
  /\ st[p].pc \in Beating
  /\ Cardinality(beats) < MaxBeats
  /\ beats' = beats \cup {Beat(p)}
  /\ UNCHANGED <<file, sidecar, dir, puts, st, stolen>>

\* the first heartbeat is awaited
Awaited(b) == st[b.by].pc = "beat" /\ st[b.by].put = b.put

(* The open creates the file, or empties it, in the directory that is there
   by then. *)
OpenBeat(b) ==
  /\ b.at = "sent"
  /\ DirExists
  /\ dir' = [dir EXCEPT !.token = 0, !.fresh = TRUE]
  /\ beats' = (beats \ {b}) \cup {[b EXCEPT !.at = "open"]}
  /\ UNCHANGED <<file, sidecar, puts, st, stolen>>

WriteBeat(b) ==
  /\ b.at # "sent"
  /\ dir' = IF b.at = "open" THEN [dir EXCEPT !.token = b.put, !.fresh = TRUE] ELSE dir
  /\ beats' = beats \ {b}
  /\ IF Awaited(b) THEN Goto(b.by, "checkBody") ELSE UNCHANGED st
  /\ UNCHANGED <<file, sidecar, puts, stolen>>

(* There is no directory, or the disk is full, also after the open: the put
   throws if it awaits the write, and leaves the directory as it is. *)
BeatFails(b) ==
  /\ \/ b.at = "sent" /\ ~DirExists
     \/ "ioFail" \in Faults
  /\ beats' = beats \ {b}
  /\ IF Awaited(b) THEN Return(b.by) ELSE UNCHANGED st
  /\ UNCHANGED <<file, sidecar, dir, puts, stolen>>

(* Nobody's heartbeat is in it, or the put's own. *)
MayRemove(p) == dir.token \in {NoFile, st[p].put}

UnlockRead(p) ==
  /\ st[p].pc = "unlockRead"
  /\ IF MayRemove(p) THEN Goto(p, "unlockRm") ELSE Return(p)
  /\ UNCHANGED <<file, sidecar, dir, beats, puts, stolen>>

UnlockRm(p) ==
  /\ st[p].pc = "unlockRm"
  /\ RemoveDir(p)
  /\ Return(p)
  /\ UNCHANGED <<file, sidecar, puts>>

-----------------------------------------------------------------------------
Crash(p) ==
  /\ "crash" \in Faults
  /\ st[p].pc \in PCs \ {"idle", "dead"}
  /\ st' = [st EXCEPT ![p] = [Fresh EXCEPT !.pc = "dead"]]
  /\ beats' = {b \in beats : b.by # p}
  /\ UNCHANGED <<file, sidecar, dir, puts, stolen>>

(* staleMs pass without a heartbeat: nobody's timer runs, or it is held up. *)
Stale ==
  /\ dir.fresh
  /\ "stall" \in Faults \/ \A p \in Procs : st[p].pc \notin Beating
  /\ dir' = [dir EXCEPT !.fresh = FALSE]
  /\ UNCHANGED <<file, sidecar, beats, puts, st, stolen>>

MoveBeat(b) == OpenBeat(b) \/ WriteBeat(b) \/ BeatFails(b)

Get(p) == GetBody(p) \/ GetEtag(p)

Delete(p) == DeleteFile(p) \/ DeleteSidecar(p)

\* what a put does of its own accord once it has begun
Proceed(p) ==
  \/ Mkdir(p) \/ Occupied(p) \/ Stat(p) \/ Wait(p) \/ Break(p)
  \/ \E b \in beats : b.by = p /\ Awaited(b) /\ MoveBeat(b)
  \/ CheckBody(p) \/ CheckEtag(p) \/ WriteSidecar(p) \/ Rename(p)
  \/ UnlockRead(p) \/ UnlockRm(p)

Next ==
  \/ \E p \in Procs :
       \/ \E cond \in {"none", "ifNoneMatch", "ifMatch"} : PutStart(p, cond)
       \/ Proceed(p) \/ Get(p) \/ Delete(p)
       \/ PutFails(p) \/ Heartbeat(p) \/ Crash(p)
  \/ \E b \in beats : ~Awaited(b) /\ MoveBeat(b)
  \/ Stale

(***************************************************************************)
(* A process that has not crashed goes on, and time passes.  Nobody is     *)
(* made to begin a call, no heartbeat of an interval is made to land, and   *)
(* no deadline is needed to end a call.                                    *)
(***************************************************************************)
Fairness == WF_vars(Stale) /\ \A p \in Procs : WF_vars(Proceed(p))

Spec == Init /\ [][Next]_vars /\ Fairness

-----------------------------------------------------------------------------
TypeOK ==
  /\ file \in Puts
  /\ sidecar \in Puts
  /\ dir \in Dirs
  /\ beats \in SUBSET Beats
  /\ puts \in Puts
  /\ st \in [Procs -> Calls]
  /\ stolen \in BOOLEAN

(***************************************************************************)
(* Conditional puts are serialised: from the moment a put has checked its  *)
(* condition until its body is in place, no other put changes the file;    *)
(* only a delete may.  It holds as long as no lock directory has been      *)
(* removed under a running put.                                            *)
(***************************************************************************)
PutsSerialised ==
  \A p \in Procs :
    st[p].pc \in {"checkEtag", "sidecar", "rename"} /\ ~stolen => file \in {0, st[p].body}

Quiet == ~stolen /\ \A p \in Procs : st[p].pc = "idle"

(***************************************************************************)
(* Once all calls have returned, without a theft or a crash, body and etag *)
(* belong together (a delete may have taken the sidecar of a later put,    *)
(* then the etag is the hash of the body).                                 *)
(***************************************************************************)
EtagSettled == Quiet => sidecar \in {0, file}

(***************************************************************************)
(* Every put ends, although the holder of the lock directory may crash at  *)
(* any point, and although a put may leave the directory behind when it is *)
(* over, with an empty heartbeat or somebody else's: the directory is found *)
(* to be stale and broken.                                                 *)
(***************************************************************************)
PutsEnd ==
  \A p \in Procs : st[p].pc = "mkdir" ~> st[p].pc \in {"idle", "dead"}

(***************************************************************************)
(* "The same CAS-based lock protocol used against S3 holds between         *)
(* processes on one machine" (src/src/fs-storage.ts:16): a put that        *)
(* succeeds under ifMatch replaces the body its caller was given with that *)
(* etag.                                                                   *)
(***************************************************************************)
SwapsWhatWasRead ==
  [][\A p \in Procs :
       st[p].pc = "rename" /\ file' # file /\ st'[p].pc = "unlockRead" /\ st[p].cond = "ifMatch"
         => file = st[p].read]_vars
=============================================================================
