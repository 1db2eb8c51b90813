----------------------- MODULE MountedSandboxProofs -----------------------
(***************************************************************************)
(* What is proved of MountedSandbox, for any paths and policies, any       *)
(* number of edits and of manifests: what a session commits, what a        *)
(* version tells, that image and tree agree and that an attach restores    *)
(* what was committed.                                                     *)
(***************************************************************************)
EXTENDS MountedSandbox, TLAPS

-----------------------------------------------------------------------------
(* Trees and what is done to them *)

Tree == Trees(MaxEdit)

LEMMA EmptyTree == Empty \in Tree /\ Nothing \in Contents
BY SandboxAssumption DEF Empty, Nothing, Absent, Foreign, Tree, Trees, Contents

LEMMA TreeOps ==
  ASSUME NEW t \in Tree, NEW u \in Tree, NEW q \in Policies
  PROVE  /\ Listing(t, q) \in Tree /\ Pack(t, q) \in Tree /\ Unpack(t, u, q) \in Tree
         /\ Diff(t, u) \in Changes
<1>1. Absent \in Foreign .. MaxEdit
  BY SandboxAssumption DEF Absent, Foreign
<1>2. Listing(t, q) \in Tree
  BY <1>1 DEF Listing, Tree, Trees
<1>3. Pack(t, q) \in Tree
  BY <1>1 DEF Pack, Tree, Trees
<1>4. Unpack(t, u, q) \in Tree
  BY <1>1 DEF Unpack, Tree, Trees
<1>5. Diff(t, u) \in Changes
  BY DEF Diff, Changes
<1> QED
  BY <1>2, <1>3, <1>4, <1>5

LEMMA TreeEdit ==
  ASSUME NEW t \in Tree, NEW p \in Paths, NEW n \in Foreign .. MaxEdit
  PROVE  /\ [t EXCEPT ![p] = n] \in Tree
         /\ \A r \in Paths : r # p => [t EXCEPT ![p] = n][r] = t[r]
BY DEF Tree, Trees

(* What Diff says leads from one listing to the other.                     *)
LEMMA DiffExplains ==
  ASSUME NEW t \in Tree, NEW u \in Tree
  PROVE  Explains(Diff(t, u), t, u)
<1>1. Apply(t, Diff(t, u), u) = u
  BY DEF Apply, Diff, Tree, Trees
<1>2. ASSUME NEW p \in Diff(t, u).added \cup Diff(t, u).modified \cup Diff(t, u).removed
      PROVE  t[p] # u[p]
  BY <1>2 DEF Diff
<1> QED
  BY <1>1, <1>2 DEF Explains

(* A tree as it comes out of Pack. *)
Clean(t, q) == \A p \in Paths : t[p] # Absent => Persists(q, p) /\ t[p] # Foreign

LEMMA PackClean ==
  ASSUME NEW t, NEW q
  PROVE  Clean(Pack(t, q), q)
BY DEF Clean, Pack

LEMMA EmptyClean ==
  ASSUME NEW q
  PROVE  Clean(Empty, q) /\ Pack(Empty, q) = Empty
BY DEF Clean, Pack, Empty, Absent

(* Packed again, it is the same; so it is when it has been unpacked before. *)
LEMMA PackAgain ==
  ASSUME NEW t, NEW a, NEW q, Clean(a, q), NEW p \in Paths
  PROVE  Pack(a, q)[p] = a[p] /\ Pack(Unpack(t, a, q), q)[p] = a[p]
<1>1. CASE a[p] = Absent
  BY <1>1 DEF Pack, Unpack, Members, Persists, Listed
<1>2. CASE a[p] # Absent
  <2>1. Persists(q, p) /\ a[p] # Foreign /\ p \in Members(a)
    BY <1>2 DEF Clean, Members
  <2> QED
    BY <1>2, <2>1 DEF Pack, Unpack
<1> QED
  BY <1>1, <1>2

(* What the two scripts of a save make of one tree differs at links, and   *)
(* at what only one of them leaves out.                                    *)
LEMMA ListedPacked ==
  ASSUME NEW t, NEW q, NEW p \in Paths
  PROVE  Tells(Listing(t, q), Pack(t, q), q, p)
BY DEF Tells, Listing, Pack, Persists

LEMMA SameAt ==
  ASSUME NEW t, NEW u, NEW q, NEW p \in Paths, t[p] = u[p]
  PROVE  Pack(t, q)[p] = Pack(u, q)[p] /\ Listing(t, q)[p] = Listing(u, q)[p]
BY DEF Listing, Pack

-----------------------------------------------------------------------------
(* Types *)

Hists == [work: Tree, due: Tree, popped: BOOLEAN, excused: BOOLEAN, stale: BOOLEAN,
          touched: SUBSET Paths, raced: SUBSET Paths]

Typed == TypeOK /\ hist \in Hists

LEMMA RestTypes == Rest \in Sessions /\ Calm \in Hists
BY EmptyTree, TreeAssumption, SandboxAssumption
   DEF Rest, Calm, Sessions, Hists, Tree, Modes, NoChanges, Changes

LEMMA MadeType ==
  ASSUME NEW f \in Formats, NEW q \in Policies, NEW r \in 0 .. MaxRev
  PROVE  Made(f, q, r) \in Manifests
BY EmptyTree DEF Made, Manifests, NoChanges, Changes, Tree, Formats

LEMMA Seen ==
  ASSUME Typed
  PROVE  /\ Visible \in Contents /\ Visible.files \in Tree /\ Visible.index \in Tree
         /\ box.dir \in Contents /\ box.loop \in Contents
BY DEF Typed, TypeOK, Visible, Boxes, Contents, Tree

LEMMA Showed ==
  ASSUME Typed, NEW v \in Contents, box' = Showing(v)
  PROVE  box' \in Boxes /\ Visible' = v /\ box'.mounted = box.mounted /\ box'.image = box.image
BY DEF Typed, TypeOK, Showing, Visible, Boxes

LEMMA Returned ==
  ASSUME Typed, Return
  PROVE  /\ ses' \in Sessions /\ ses'.pc = "idle" /\ ses'.attached = ses.attached
         /\ ses'.op = "none" /\ ses'.rev = 0
         /\ ses.attached => ses'.mode = ses.mode
BY RestTypes DEF Typed, TypeOK, Return, Rest, Sessions

LEMMA SettledType ==
  ASSUME Typed
  PROVE  /\ Settled \in Hists /\ Settled.raced = hist.raced
         /\ ses.attached => /\ Settled.work = hist.work /\ Settled.popped = hist.popped
                            /\ Settled.stale = hist.stale
         /\ ~ses.attached => ~Settled.popped
BY RestTypes, EmptyTree DEF Typed, TypeOK, Settled, Hists, Calm

LEMMA InitTyped == Init => Typed
<1> SUFFICES ASSUME Init PROVE Typed
  OBVIOUS
<1>1. manifest \in Manifests
  <2>1. PICK f \in Formats : manifest = Made(f, DefaultPolicy, 1)
    BY DEF Init
  <2> QED
    BY <2>1, MadeType, TreeAssumption, SandboxAssumption DEF Formats
<1>2. box \in Boxes
  BY EmptyTree DEF Init, Boxes
<1> QED
  BY <1>1, <1>2, RestTypes, SandboxAssumption DEF Init, Typed, TypeOK

LEMMA NextTyped == Typed /\ [Next]_vars => Typed'
<1> SUFFICES ASSUME Typed, [Next]_vars PROVE Typed'
  OBVIOUS
<1>0. /\ manifest \in Manifests /\ box \in Boxes /\ ses \in Sessions /\ hist \in Hists
      /\ edits \in 0 .. MaxEdit
  BY DEF Typed, TypeOK
<1>m. /\ manifest.tree \in Contents /\ manifest.image \in Contents
      /\ manifest.tree.files \in Tree /\ manifest.tree.index \in Tree
      /\ manifest.policy \in Policies
      /\ manifest.rev \in 0 .. MaxRev
  BY <1>0 DEF Manifests, Contents, Tree
<1>a. ASSUME box' \in Boxes, NEW mode \in Modes, Begin(mode)
      PROVE  Typed'
  <2>1. Visible'.files \in Tree
    BY <1>a DEF Visible, Boxes, Contents, Tree
  <2>2. ses' \in Sessions
    BY <1>a, RestTypes DEF Begin, Sessions
  <2> DEFINE w == Visible'.files
             stale == Visible'.index # manifest.listed
  <2>3. hist' = [Calm EXCEPT !.work = w, !.raced = hist.raced, !.stale = stale]
        /\ hist.raced \in SUBSET Paths
    BY <1>0, <1>a DEF Begin, Hists
  <2>4. w \in Tree /\ stale \in BOOLEAN
    BY <2>1
  <2> HIDE DEF w, stale
  <2>5. hist' \in Hists
    BY <2>3, <2>4, RestTypes DEF Hists
  <2> QED
    BY <1>0, <1>a, <2>2, <2>5 DEF Begin, Typed, TypeOK
<1>1. CASE AttachDirectory
  <2>1. Unpacked \in Contents
    BY <1>m, Seen, TreeOps DEF Unpacked, Contents, Tree
  <2>2. box' \in Boxes
    BY <1>0, <1>1, <2>1 DEF AttachDirectory, Boxes
  <2> QED
    BY <1>1, <1>a, <2>2 DEF AttachDirectory, Modes
<1>2. CASE AttachLoop
  <2>1. box' \in Boxes
    BY <1>0, <1>m, <1>2 DEF AttachLoop, Boxes
  <2> QED
    BY <1>2, <1>a, <2>1 DEF AttachLoop, Modes
<1>3. CASE AttachFails
  <2> DEFINE d == [files |-> Unpack(box.dir.files, Empty, manifest.policy), index |-> Empty]
  <2>1. d \in Contents
    BY <1>0, <1>m, EmptyTree, TreeOps DEF Contents, Boxes, Tree
  <2>2. box' = [box EXCEPT !.dir = d]
    BY <1>3 DEF AttachFails
  <2> HIDE DEF d
  <2> QED
    BY <1>0, <1>3, <2>1, <2>2 DEF AttachFails, Typed, TypeOK, Boxes
<1>4. ASSUME NEW p \in Paths, Write(p) \/ Remove(p) \/ Link(p)
      PROVE  Typed'
  <2>1. PICK n \in Foreign .. MaxEdit : Change(p, n)
    <3>1. Absent \in Foreign .. MaxEdit /\ Foreign \in Foreign .. MaxEdit
      BY SandboxAssumption DEF Absent, Foreign
    <3>2. CASE Write(p)
      <4>1. edits + 1 \in Foreign .. MaxEdit
        BY <1>0, <3>2, SandboxAssumption DEF Write, Change, Foreign
      <4> QED
        BY <3>2, <4>1 DEF Write
    <3> QED
      BY <1>4, <3>1, <3>2 DEF Remove, Link
  <2> DEFINE v == [Visible EXCEPT !.files[p] = n]
             w == [hist.work EXCEPT ![p] = n]
             t == IF ses.pc = "idle" THEN hist.touched ELSE hist.touched \cup {p}
  <2>2. v \in Contents
    BY Seen, TreeEdit DEF Contents, Tree
  <2>3. w \in Tree /\ t \in SUBSET Paths
    BY <1>0, TreeEdit DEF Hists
  <2>4. box' = Showing(v) /\ hist' = [hist EXCEPT !.work = w, !.touched = t]
    BY <1>0, <2>1 DEF Change, Hists
  <2> HIDE DEF v, w, t
  <2>5. box' \in Boxes
    BY <2>2, <2>4, Showed
  <2>6. hist' \in Hists
    BY <1>0, <2>3, <2>4 DEF Hists
  <2>7. edits' \in 0 .. MaxEdit
    BY <1>0, <2>1, SandboxAssumption DEF Change
  <2> QED
    BY <1>0, <2>1, <2>5, <2>6, <2>7 DEF Change, Typed, TypeOK
<1>5. ASSUME NEW q \in Policies, NEW c \in {"process", "command"}, SaveStart(c, q)
      PROVE  Typed'
  <2> DEFINE l == Listing(Visible.files, q)
             d == Diff(Visible.index, l)
             how == ModeFor(c)
             v == [Visible EXCEPT !.index = l]
  <2>1. l \in Tree /\ d \in Changes
    BY Seen, TreeOps
  <2>2. how \in Modes
    BY <1>0 DEF ModeFor, MountMode, Modes, Sessions
  <2>3. v \in Contents
    BY <2>1, Seen DEF Contents, Tree
  <2>4. /\ ses' = [ses EXCEPT !.pc = "pack", !.op = "save", !.caller = c, !.how = how,
                              !.policy = q, !.rev = manifest.rev, !.listed = l, !.changes = d]
        /\ box' = Showing(v) /\ hist' = [hist EXCEPT !.touched = {}]
    BY <1>5 DEF SaveStart, Relisted
  <2> HIDE DEF l, d, how, v
  <2>5. ses' \in Sessions
    BY <1>0, <1>m, <2>1, <2>2, <2>4 DEF Sessions, Tree
  <2>6. box' \in Boxes /\ hist' \in Hists
    BY <1>0, <2>3, <2>4, Showed DEF Hists
  <2> QED
    BY <1>0, <1>5, <2>5, <2>6 DEF SaveStart, Typed, TypeOK
<1>6. ASSUME NEW q \in Policies, CheckpointStart(q)
      PROVE  Typed'
  <2>1. ses' \in Sessions
    BY <1>0, <1>m, <1>6 DEF CheckpointStart, Sessions
  <2>2. hist' \in Hists
    BY <1>0, <1>6 DEF CheckpointStart, Hists
  <2> QED
    BY <1>0, <1>6, <2>1, <2>2 DEF CheckpointStart, Typed, TypeOK
<1>7. CASE PackBundle
  <2> DEFINE k == [files |-> Pack(Visible.files, ses.policy), index |-> Visible.index]
             d == Pack(hist.work, ses.policy)
             p == IF ses.op = "save" /\ ses.how = "loopExt4" THEN "unmount" ELSE "commit"
  <2>1. k \in Contents /\ d \in Tree
    BY <1>0, Seen, TreeOps DEF Contents, Tree, Sessions, Hists
  <2>2. /\ ses' = [ses EXCEPT !.pc = p, !.packed = k]
        /\ hist' = [hist EXCEPT !.due = d, !.excused = hist.popped]
        /\ p \in {"unmount", "commit"}
    BY <1>7 DEF PackBundle
  <2> HIDE DEF k, d, p
  <2>3. ses' \in Sessions
    BY <1>0, <2>1, <2>2 DEF Sessions
  <2>4. hist' \in Hists
    BY <1>0, <2>1, <2>2 DEF Hists
  <2> QED
    BY <1>0, <1>7, <2>3, <2>4 DEF PackBundle, Typed, TypeOK
<1>8. CASE Unmount
  <2>1. box' \in Boxes
    BY <1>0, <1>8, EmptyTree DEF Unmount, Bare, Boxes
  <2>2. ses' \in Sessions
    BY <1>0, <1>8, Returned, Seen DEF Unmount, Sessions
  <2>3. Popped(FALSE) \in BOOLEAN /\ ses.attached \in BOOLEAN
    BY <1>0 DEF Popped, Hists, Boxes, Sessions
  <2>4. hist' \in Hists
    BY <1>0, <1>8, <2>3, SettledType DEF Unmount, Hists
  <2> QED
    BY <1>0, <1>8, <2>1, <2>2, <2>4 DEF Unmount, Typed, TypeOK
<1>9. CASE SaveCommit
  <2> DEFINE f == IF KeepsExt4 THEN "ext4" ELSE "tree"
             i == IF RefreshesImage THEN ses.unmounted ELSE manifest.image
             h == manifest.hasImage \/ RefreshesImage
             r == IF RefreshesImage THEN hist.touched ELSE Settled.raced
  <2>1. f \in Formats /\ i \in Contents /\ h \in BOOLEAN /\ r \in SUBSET Paths
    BY <1>0, <1>m, SettledType DEF Formats, Sessions, Manifests, RefreshesImage, Hists
  <2>2. /\ manifest' = [manifest EXCEPT !.format = f, !.tree = ses.packed, !.image = i, !.hasImage = h,
                                        !.listed = ses.listed, !.changes = ses.changes,
                                        !.policy = ses.policy, !.rev = manifest.rev + 1]
        /\ hist' = [Settled EXCEPT !.stale = FALSE, !.raced = r]
    BY <1>0, <1>9, SettledType DEF SaveCommit, Manifests, Hists
  <2> HIDE DEF f, i, h, r
  <2>3. manifest.rev + 1 \in 0 .. MaxRev
    BY <1>m, <1>9, SandboxAssumption DEF SaveCommit
  <2>4. manifest' \in Manifests
    BY <1>0, <2>1, <2>2, <2>3 DEF Manifests, Sessions
  <2>5. hist' \in Hists
    BY <2>1, <2>2, SettledType DEF Hists
  <2>6. box' \in Boxes
    BY <1>0, <1>9 DEF SaveCommit, Boxes
  <2> QED
    BY <1>0, <1>9, <2>4, <2>5, <2>6, Returned DEF SaveCommit, Typed, TypeOK
<1>10. CASE CheckpointCommit
  <2>1. manifest.rev + 1 \in 0 .. MaxRev
    BY <1>m, <1>10, SandboxAssumption DEF CheckpointCommit
  <2>2. manifest' \in Manifests
    BY <1>0, <1>10, <2>1 DEF CheckpointCommit, Checkpointed, Manifests, Sessions, Formats
  <2> QED
    BY <1>0, <1>10, <2>2, Returned, SettledType DEF CheckpointCommit, Typed, TypeOK
<1>11. CASE OperationFails
  <2>1. (Settled.stale \/ (ses.attached /\ ses.op = "save")) \in BOOLEAN
    BY <1>0, SettledType DEF Hists, Sessions
  <2>2. hist' \in Hists
    BY <1>11, <2>1, SettledType DEF OperationFails, Hists
  <2> QED
    BY <1>0, <1>11, <2>2, Returned DEF OperationFails, Typed, TypeOK
<1>12. ASSUME NEW c \in {"process", "command"}, End(c)
       PROVE  Typed'
  <2>1. Detached(c) \in Boxes
    BY <1>0, EmptyTree DEF Detached, Bare, Boxes
  <2>2. box' \in Boxes
    BY <1>0, <1>12, <2>1 DEF End
  <2>3. ses' \in Sessions
    BY <1>0, <1>12, RestTypes DEF End, Sessions
  <2>4. Popped(box'.mounted) \in BOOLEAN
    BY <1>0, <2>2 DEF Popped, Hists, Boxes, Sessions
  <2>5. hist' \in Hists
    BY <1>0, <1>12, <2>4, RestTypes DEF End, Hists
  <2> QED
    BY <1>0, <1>12, <2>2, <2>3, <2>5 DEF End, Typed, TypeOK
<1>13. CASE Elsewhere
  <2>1. manifest.rev + 1 \in 0 .. MaxRev
    BY <1>m, <1>13, SandboxAssumption DEF Elsewhere
  <2>2. manifest' \in Manifests
    <3>1. CASE manifest' = [manifest EXCEPT !.format = "tree", !.rev = @ + 1]
      BY <1>0, <2>1, <3>1 DEF Manifests, Formats
    <3>2. ASSUME NEW f \in Formats, manifest' = Made(f, DefaultPolicy, manifest.rev + 1)
          PROVE  manifest' \in Manifests
      BY <2>1, <3>2, MadeType, TreeAssumption
    <3> QED
      BY <1>13, <3>1, <3>2 DEF Elsewhere
  <2>3. hist' \in Hists
    BY <1>0, <1>13 DEF Elsewhere, Hists, Sessions
  <2> QED
    BY <1>0, <1>13, <2>2, <2>3 DEF Elsewhere, Typed, TypeOK
<1>14. CASE UNCHANGED vars
  BY <1>0, <1>14 DEF vars, Typed, TypeOK
<1>15. ASSUME NEW q \in UserPolicies \cup {manifest.policy},
              ProcessSave(q) \/ CommandSave(q) \/ CheckpointStart(q)
       PROVE  Typed'
  <2>1. q \in Policies
    BY <1>m, SandboxAssumption
  <2> QED
    BY <1>5, <1>6, <1>15, <2>1 DEF ProcessSave, CommandSave
<1> QED
  BY <1>1, <1>2, <1>3, <1>4, <1>7, <1>8, <1>9, <1>10, <1>11, <1>12, <1>13, <1>14, <1>15
     DEF Next, ProcessEnd, CommandEnd

(* Every variable keeps its type.                                          *)
THEOREM TypesKept == Spec => []TypeOK
BY InitTyped, NextTyped, PTL DEF Spec, Typed

-----------------------------------------------------------------------------
(* What a session commits *)

Mine == ses.attached \/ ses.pc # "idle"

(* A directory session has nothing mounted, a popped one no more.  The save *)
(* of a process goes by the mode the process remembers.                     *)
Mounts ==
  /\ Mine /\ ses.mode = "directoryBundle" => ~box.mounted
  /\ Mine /\ hist.popped => ~box.mounted /\ ses.mode = "loopExt4"
  /\ ses.pc # "idle" => ses.op \in {"save", "checkpoint"}
  /\ ses.pc # "idle" /\ ses.op = "save" /\ ses.caller = "process" => ses.how = ses.mode
  /\ ses.pc = "unmount" => ses.op = "save" /\ ses.how = "loopExt4"

LEMMA NextMounts == Typed /\ Mounts /\ [Next]_vars => Mounts'
<1> SUFFICES ASSUME Typed, Mounts, [Next]_vars PROVE Mounts'
  OBVIOUS
<1>0. /\ manifest \in Manifests /\ box \in Boxes /\ ses \in Sessions /\ hist \in Hists
  BY DEF Typed, TypeOK
<1> USE DEF Mounts, Mine
<1>1. CASE AttachDirectory
  BY <1>0, <1>1, RestTypes DEF AttachDirectory, Free, Begin, Rest, Calm, Boxes
<1>2. CASE AttachLoop
  BY <1>0, <1>2, RestTypes DEF AttachLoop, Free, Begin, Rest, Calm, Boxes
<1>3. CASE AttachFails
  BY <1>0, <1>3 DEF AttachFails, Free, Boxes
<1>4. ASSUME NEW p \in Paths, NEW n, Change(p, n)
      PROVE  Mounts'
  <2>1. box'.mounted = box.mounted
    BY <1>0, <1>4 DEF Change, Showing, Boxes
  <2>2. hist'.popped = hist.popped
    BY <1>0, <1>4 DEF Change, Hists
  <2> QED
    BY <1>4, <2>1, <2>2 DEF Change
<1>5. ASSUME NEW q, NEW c \in {"process", "command"}, SaveStart(c, q)
      PROVE  Mounts'
  <2>1. box'.mounted = box.mounted
    BY <1>0, <1>5 DEF SaveStart, Relisted, Showing, Boxes
  <2>2. hist'.popped = hist.popped
    BY <1>0, <1>5 DEF SaveStart, Hists
  <2>3. /\ ses'.pc = "pack" /\ ses'.op = "save" /\ ses'.caller = c /\ ses'.how = ModeFor(c)
        /\ ses'.attached = ses.attached /\ ses'.mode = ses.mode /\ ses.attached
    BY <1>0, <1>5 DEF SaveStart, Sessions
  <2> QED
    BY <2>1, <2>2, <2>3 DEF ModeFor
<1>6. ASSUME NEW q, CheckpointStart(q)
      PROVE  Mounts'
  BY <1>0, <1>6 DEF CheckpointStart, Sessions, Hists
<1>7. CASE PackBundle
  BY <1>0, <1>7 DEF PackBundle, Sessions, Hists
<1>8. CASE Unmount
  <2>1. box'.mounted = FALSE /\ box.mounted
    BY <1>0, <1>8 DEF Unmount, Bare, Boxes
  <2>2. ses.mode = "loopExt4"
    BY <1>0, <1>8, <2>1 DEF Unmount, Sessions, Modes
  <2>3. \/ ses' = [ses EXCEPT !.pc = "commit", !.unmounted = box.loop]
        \/ Return /\ hist' = [Settled EXCEPT !.popped = Popped(FALSE), !.stale = ses.attached]
    BY <1>8 DEF Unmount
  <2>4. CASE ses' = [ses EXCEPT !.pc = "commit", !.unmounted = box.loop]
    BY <1>0, <1>8, <2>1, <2>2, <2>4 DEF Unmount, Sessions
  <2>5. CASE Return
    BY <2>1, <2>2, <2>5, Returned
  <2> QED
    BY <2>3, <2>4, <2>5
<1>9. ASSUME Return, box'.mounted = box.mounted, ses.attached => hist'.popped = hist.popped
      PROVE  Mounts'
  BY <1>9, Returned
<1>10. CASE SaveCommit
  <2>1. box'.mounted = box.mounted
    BY <1>0, <1>10 DEF SaveCommit, Boxes
  <2>2. ses.attached => hist'.popped = hist.popped
    BY <1>10, SettledType DEF SaveCommit, Hists
  <2> QED
    BY <1>9, <1>10, <2>1, <2>2 DEF SaveCommit
<1>11. CASE CheckpointCommit
  BY <1>9, <1>11, SettledType DEF CheckpointCommit
<1>12. CASE OperationFails
  <2>1. ses.attached => hist'.popped = hist.popped
    BY <1>12, SettledType DEF OperationFails, Hists
  <2> QED
    BY <1>9, <1>12, <2>1 DEF OperationFails
<1>13. ASSUME NEW c \in {"process", "command"}, End(c)
       PROVE  Mounts'
  <2>1. box' = box \/ box'.mounted = FALSE
    BY <1>0, <1>13 DEF End, Detached, Bare, Boxes
  <2>2. CASE ses.pc = "idle"
    BY <1>13, <2>2, RestTypes DEF End, Rest
  <2>3. CASE ses.pc # "idle"
    <3>1. /\ ses' = [ses EXCEPT !.attached = FALSE] /\ ses.attached
          /\ hist' = [hist EXCEPT !.popped = Popped(box'.mounted)]
      BY <1>13, <2>3 DEF End
    <3>2. hist'.popped = (hist.popped \/ (box.mounted /\ ~box'.mounted))
      BY <1>0, <3>1 DEF Popped, Hists
    <3>3. box.mounted => ses.mode = "loopExt4"
      BY <1>0, <3>1 DEF Sessions, Modes
    <3> QED
      BY <1>0, <2>1, <2>3, <3>1, <3>2, <3>3 DEF Sessions
  <2> QED
    BY <2>2, <2>3
<1>14. CASE Elsewhere
  BY <1>0, <1>14 DEF Elsewhere, Hists
<1>15. CASE UNCHANGED vars
  BY <1>15 DEF vars
<1> QED
  BY <1>1, <1>2, <1>3, <1>4, <1>5, <1>6, <1>7, <1>8, <1>10, <1>11, <1>12, <1>13, <1>14, <1>15
     DEF Next, Write, Remove, Link, ProcessSave, CommandSave, ProcessEnd, CommandEnd

(* The files are the session's work until they are popped; what has been   *)
(* packed is the work, or it was popped before, and then no process saves  *)
(* it.                                                                     *)
Works ==
  /\ (ses.attached \/ ses.pc = "pack") /\ ~hist.popped => hist.work = Visible.files
  /\ ses.pc \in {"unmount", "commit"} =>
       /\ ses.packed.files = hist.due \/ hist.excused
       /\ hist.excused /\ ses.op = "save" /\ ses.caller = "process"
            => ses.pc = "unmount" /\ ~box.mounted

LEMMA NextWorks == Typed /\ Mounts /\ Works /\ [Next]_vars => Works'
<1> SUFFICES ASSUME Typed, Mounts, Works, [Next]_vars PROVE Works'
  OBVIOUS
<1>0. /\ manifest \in Manifests /\ box \in Boxes /\ ses \in Sessions /\ hist \in Hists
  BY DEF Typed, TypeOK
<1> USE DEF Works
<1>1. ASSUME NEW m \in Modes, Begin(m)
      PROVE  Works'
  <2> DEFINE w == Visible'.files
  <2>1. ses'.pc = "idle"
    BY <1>1, RestTypes DEF Begin, Rest, Sessions
  <2>2. hist'.work = w
    BY <1>1, RestTypes DEF Begin, Hists
  <2> QED
    BY <2>1, <2>2
<1>3. CASE AttachFails
  BY <1>3 DEF AttachFails, Free
<1>4. ASSUME NEW p \in Paths, NEW n \in Int, Change(p, n)
      PROVE  Works'
  <2> DEFINE v == [Visible EXCEPT !.files[p] = n]
  <2>1. v.files = [Visible.files EXCEPT ![p] = n]
    BY Seen DEF Contents
  <2>2. box' = Showing(v) /\ ses.attached /\ ses' = ses
    BY <1>4 DEF Change
  <2>3. Visible' = v /\ box'.mounted = box.mounted
    BY <1>0, <2>2 DEF Showing, Visible, Boxes
  <2> HIDE DEF v
  <2>4. /\ hist'.work = [hist.work EXCEPT ![p] = n] /\ hist'.popped = hist.popped
        /\ hist'.due = hist.due /\ hist'.excused = hist.excused
    BY <1>0, <1>4 DEF Change, Hists
  <2> QED
    BY <2>1, <2>2, <2>3, <2>4
<1>5. ASSUME NEW q, NEW c \in {"process", "command"}, SaveStart(c, q)
      PROVE  Works'
  <2> DEFINE l == Listing(Visible.files, q)
             v == [Visible EXCEPT !.index = l]
  <2>1. v.files = Visible.files
    BY Seen DEF Contents
  <2>2. box' = Showing(v) /\ ses.attached
    BY <1>5 DEF SaveStart, Relisted
  <2> HIDE DEF l, v
  <2>3. Visible' = v
    BY <1>0, <2>2 DEF Showing, Visible, Boxes
  <2>4. hist'.work = hist.work /\ hist'.popped = hist.popped /\ ses'.pc = "pack"
    BY <1>0, <1>5 DEF SaveStart, Hists, Sessions
  <2> QED
    BY <2>1, <2>2, <2>3, <2>4
<1>6. ASSUME NEW q, CheckpointStart(q)
      PROVE  Works'
  BY <1>0, <1>6 DEF CheckpointStart, Sessions, Hists, Visible
<1>7. CASE PackBundle
  <2> DEFINE k == [files |-> Pack(Visible.files, ses.policy), index |-> Visible.index]
             d == Pack(hist.work, ses.policy)
             p == IF ses.op = "save" /\ ses.how = "loopExt4" THEN "unmount" ELSE "commit"
  <2>1. /\ ses' = [ses EXCEPT !.pc = p, !.packed = k] /\ ses.pc = "pack"
        /\ hist' = [hist EXCEPT !.due = d, !.excused = hist.popped]
        /\ Visible' = Visible /\ box' = box
    BY <1>7 DEF PackBundle, Visible
  <2>2. k.files = d \/ hist.popped
    BY <2>1
  <2>3. hist.popped /\ ses.op = "save" /\ ses.caller = "process" => p = "unmount" /\ ~box.mounted
    BY <2>1 DEF Mounts, Mine
  <2> HIDE DEF k, d, p
  <2>4. /\ ses'.packed = k /\ ses'.pc = p /\ hist'.due = d /\ hist'.excused = hist.popped
        /\ hist'.work = hist.work /\ hist'.popped = hist.popped /\ ses'.op = ses.op
        /\ ses'.caller = ses.caller /\ ses'.attached = ses.attached
    BY <1>0, <2>1 DEF Sessions, Hists
  <2> QED
    BY <2>1, <2>2, <2>3, <2>4
<1>8. CASE Unmount
  <2>1. box.mounted /\ ses.pc = "unmount"
    BY <1>8 DEF Unmount
  <2>2. hist'.popped = (hist.popped \/ ses.attached)
    <3>1. Popped(FALSE) = (hist.popped \/ ses.attached)
      BY <2>1, <1>0 DEF Popped, Sessions, Hists
    <3> QED
      BY <1>0, <1>8, <3>1, SettledType DEF Unmount, Hists
  <2>3. CASE ses' = [ses EXCEPT !.pc = "commit", !.unmounted = box.loop] /\
             hist' = [hist EXCEPT !.popped = Popped(FALSE)]
    BY <1>0, <2>1, <2>2, <2>3 DEF Sessions, Hists
  <2>4. CASE Return
    BY <2>2, <2>4, Returned
  <2> QED
    BY <1>8, <2>3, <2>4 DEF Unmount
<1>9. ASSUME Return, Visible' = Visible, ses.attached => hist'.popped = hist.popped /\ hist'.work = hist.work
      PROVE  Works'
  BY <1>9, Returned
<1>10. CASE SaveCommit
  <2>1. Visible' = Visible
    BY <1>0, <1>10 DEF SaveCommit, Boxes, Visible
  <2>2. ses.attached => hist'.popped = hist.popped /\ hist'.work = hist.work
    BY <1>10, SettledType DEF SaveCommit, Hists
  <2> QED
    BY <1>9, <1>10, <2>1, <2>2 DEF SaveCommit
<1>11. CASE CheckpointCommit
  BY <1>9, <1>11, SettledType DEF CheckpointCommit, Visible
<1>12. CASE OperationFails
  <2>1. ses.attached => hist'.popped = hist.popped /\ hist'.work = hist.work
    BY <1>12, SettledType DEF OperationFails, Hists
  <2> QED
    BY <1>9, <1>12, <2>1 DEF OperationFails, Visible
<1>13. ASSUME NEW c \in {"process", "command"}, End(c)
       PROVE  Works'
  <2>1. CASE ses.pc = "idle"
    BY <1>13, <2>1, RestTypes DEF End, Rest
  <2>2. CASE ses.pc # "idle"
    <3>1. /\ ses' = [ses EXCEPT !.attached = FALSE] /\ ses.attached
          /\ hist' = [hist EXCEPT !.popped = Popped(box'.mounted)]
      BY <1>13, <2>2 DEF End
    <3>2. /\ hist'.popped = (hist.popped \/ (box.mounted /\ ~box'.mounted))
          /\ hist'.work = hist.work /\ hist'.due = hist.due /\ hist'.excused = hist.excused
      BY <1>0, <3>1 DEF Popped, Hists
    <3>3. box' = box \/ (box'.mounted = FALSE /\ box'.dir = box.dir)
      BY <1>0, <1>13 DEF End, Detached, Bare, Boxes
    <3>4. Visible' = Visible \/ (box.mounted /\ ~box'.mounted)
      BY <1>0, <3>3 DEF Visible, Boxes
    <3>5. ~box.mounted => ~box'.mounted
      BY <3>3
    <3>6. /\ ses'.pc = ses.pc /\ ses'.packed = ses.packed /\ ses'.op = ses.op
          /\ ses'.caller = ses.caller
      BY <1>0, <3>1 DEF Sessions
    <3> QED
      BY <3>1, <3>2, <3>4, <3>5, <3>6
  <2> QED
    BY <2>1, <2>2
<1>14. CASE Elsewhere
  BY <1>0, <1>14 DEF Elsewhere, Hists, Visible
<1>15. CASE UNCHANGED vars
  BY <1>15 DEF vars, Visible
<1>16. ASSUME NEW p \in Paths, Write(p) \/ Remove(p) \/ Link(p)
       PROVE  Works'
  <2>1. edits + 1 \in Int /\ Absent \in Int /\ Foreign \in Int
    BY DEF Typed, TypeOK, Absent, Foreign
  <2> QED
    BY <1>4, <1>16, <2>1 DEF Write, Remove, Link
<1> QED
  BY <1>1, <1>3, <1>5, <1>6, <1>7, <1>8, <1>10, <1>11, <1>12, <1>13, <1>14, <1>15, <1>16
     DEF Next, AttachDirectory, AttachLoop, Modes, ProcessSave, CommandSave, ProcessEnd, CommandEnd

LEMMA InitWorks == Init => Mounts /\ Works
<1> SUFFICES ASSUME Init PROVE Mounts /\ Works
  OBVIOUS
<1>1. ~ses.attached /\ ses.pc = "idle"
  BY RestTypes DEF Init, Rest
<1> QED
  BY <1>1 DEF Mounts, Mine, Works

(* What a session commits is its work.                                     *)
THEOREM WorkCommitted == Spec => CommitsTheWork
<1>1. Spec => [](Typed /\ Mounts /\ Works)
  BY InitTyped, NextTyped, InitWorks, NextMounts, NextWorks, PTL DEF Spec
<1>2. Typed /\ Mounts /\ Works /\ Commits
        => \/ ses.packed.files = hist.due
           \/ hist.excused /\ (ses.op = "checkpoint" \/ ses.caller = "command")
  <2> SUFFICES ASSUME Typed, Mounts, Works, Commits
               PROVE  \/ ses.packed.files = hist.due
                      \/ hist.excused /\ (ses.op = "checkpoint" \/ ses.caller = "command")
    OBVIOUS
  <2>1. ses.pc = "commit" /\ ses.caller \in {"process", "command"}
    BY DEF Commits, Typed, TypeOK, Sessions
  <2>2. ses.op \in {"save", "checkpoint"}
    BY <2>1 DEF Mounts
  <2> QED
    BY <2>1, <2>2 DEF Works
<1>3. Typed /\ Mounts /\ Works =>
        [Commits => \/ ses.packed.files = hist.due
                    \/ hist.excused /\ (ses.op = "checkpoint" \/ ses.caller = "command")]_vars
  BY <1>2
<1> QED
  BY <1>1, <1>3, PTL DEF CommitsTheWork

-----------------------------------------------------------------------------
(* What is committed can be attached *)

(* A tree in the store, and one on its way there, comes out of Pack under  *)
(* the policy that goes with it.                                           *)
Packs ==
  /\ Clean(manifest.tree.files, manifest.policy)
  /\ ses.pc \in {"unmount", "commit"} => Clean(ses.packed.files, ses.policy)

LEMMA NextPacks == Typed /\ Packs /\ [Next]_vars => Packs'
<1> SUFFICES ASSUME Typed, Packs, [Next]_vars PROVE Packs'
  OBVIOUS
<1>0. /\ manifest \in Manifests /\ box \in Boxes /\ ses \in Sessions /\ hist \in Hists
  BY DEF Typed, TypeOK
<1> USE DEF Packs
<1>1. ASSUME manifest' = manifest, ses' = ses \/ ses'.pc \in {"idle", "pack"}
      PROVE  Packs'
  BY <1>1
<1>2. CASE AttachDirectory \/ AttachLoop \/ AttachFails
  BY <1>1, <1>2, RestTypes DEF AttachDirectory, AttachLoop, AttachFails, Begin, Rest, Sessions
<1>3. ASSUME NEW p, Write(p) \/ Remove(p) \/ Link(p)
      PROVE  Packs'
  BY <1>1, <1>3 DEF Write, Remove, Link, Change
<1>4. ASSUME NEW q, ProcessSave(q) \/ CommandSave(q) \/ CheckpointStart(q)
      PROVE  Packs'
  <2>1. manifest' = manifest /\ ses'.pc = "pack"
    BY <1>0, <1>4 DEF ProcessSave, CommandSave, SaveStart, CheckpointStart, Sessions
  <2> QED
    BY <1>1, <2>1
<1>5. CASE PackBundle
  <2> DEFINE k == [files |-> Pack(Visible.files, ses.policy), index |-> Visible.index]
             r == IF ses.op = "save" /\ ses.how = "loopExt4" THEN "unmount" ELSE "commit"
  <2>1. ses' = [ses EXCEPT !.pc = r, !.packed = k] /\ manifest' = manifest
    BY <1>5 DEF PackBundle
  <2>2. Clean(k.files, ses.policy)
    BY PackClean
  <2> HIDE DEF k, r
  <2>3. ses'.packed = k /\ ses'.policy = ses.policy
    BY <1>0, <2>1 DEF Sessions
  <2> QED
    BY <2>1, <2>2, <2>3
<1>6. CASE Unmount
  BY <1>0, <1>1, <1>6, Returned DEF Unmount, Sessions
<1>7. CASE SaveCommit \/ CheckpointCommit
  <2>1. manifest'.tree = ses.packed /\ manifest'.policy = ses.policy /\ ses.pc = "commit"
    BY <1>0, <1>7 DEF SaveCommit, CheckpointCommit, Checkpointed, Manifests
  <2>2. ses'.pc = "idle"
    BY <1>7, Returned DEF SaveCommit, CheckpointCommit
  <2> QED
    BY <2>1, <2>2
<1>8. CASE OperationFails
  BY <1>1, <1>8, Returned DEF OperationFails
<1>9. ASSUME NEW c, End(c)
      PROVE  Packs'
  BY <1>0, <1>9, RestTypes DEF End, Rest, Sessions
<1>10. CASE Elsewhere
  <2>1. CASE manifest' = [manifest EXCEPT !.format = "tree", !.rev = @ + 1]
    BY <1>0, <1>10, <2>1 DEF Elsewhere, Manifests
  <2>2. ASSUME NEW f \in Formats, manifest' = Made(f, DefaultPolicy, manifest.rev + 1)
        PROVE  Packs'
    BY <1>10, <2>2, EmptyClean DEF Elsewhere, Made, Nothing
  <2> QED
    BY <1>10, <2>1, <2>2 DEF Elsewhere
<1>11. CASE UNCHANGED vars
  BY <1>11 DEF vars
<1> QED
  BY <1>2, <1>3, <1>4, <1>5, <1>6, <1>7, <1>8, <1>9, <1>10, <1>11 DEF Next, ProcessEnd, CommandEnd

LEMMA PacksKept == Spec => [](Typed /\ Packs)
<1>1. Init => Packs
  <2> SUFFICES ASSUME Init PROVE Packs
    OBVIOUS
  <2>1. ses.pc = "idle"
    BY DEF Init, Rest
  <2>2. PICK f \in Formats : manifest = Made(f, DefaultPolicy, 1)
    BY DEF Init
  <2> QED
    BY <2>1, <2>2, EmptyClean DEF Packs, Made, Nothing
<1> QED
  BY <1>1, InitTyped, NextTyped, NextPacks, PTL DEF Spec

(* No tree is committed that the next attach refuses, but for its size and *)
(* the names in it.                                                        *)
THEOREM CommittedAttachable == Spec => []Attachable
<1>1. Typed /\ Packs => Attachable
  <2> SUFFICES ASSUME Packs PROVE Foreign \notin {manifest.tree.files[p] : p \in Paths}
    BY DEF Attachable, Accepts
  <2> QED
    BY DEF Packs, Clean, Absent, Foreign
<1> QED
  BY <1>1, PacksKept, PTL

-----------------------------------------------------------------------------
(* Images *)

Agree(files, packed, q, but) == \A p \in Paths \ but : Pack(files, q)[p] = packed[p]

(* The image in the store, the one about to be uploaded and the one about  *)
(* to be unmounted hold the files of their tree.                           *)
Images ==
  /\ manifest.format = "ext4"
       => Agree(manifest.image.files, manifest.tree.files, manifest.policy, hist.raced)
  /\ ses.pc = "unmount" /\ box.mounted
       => Agree(box.loop.files, ses.packed.files, ses.policy, hist.touched)
  /\ ses.pc = "commit" /\ ses.op = "save" /\ ses.how = "loopExt4"
       => Agree(ses.unmounted.files, ses.packed.files, ses.policy, hist.touched)

LEMMA NextImages == Typed /\ Mounts /\ Images /\ [Next]_vars => Images'
<1> SUFFICES ASSUME Typed, Mounts, Images, [Next]_vars PROVE Images'
  OBVIOUS
<1>0. /\ manifest \in Manifests /\ box \in Boxes /\ ses \in Sessions /\ hist \in Hists
  BY DEF Typed, TypeOK
<1> USE DEF Images
<1>1. ASSUME manifest' = manifest, hist'.raced = hist.raced, ses'.pc \in {"idle", "pack"}
      PROVE  Images'
  BY <1>1
<1>2. CASE AttachDirectory \/ AttachLoop
  <2>1. PICK m \in Modes : Begin(m)
    BY <1>2 DEF AttachDirectory, AttachLoop, Modes
  <2> DEFINE w == Visible'.files
             t == Visible'.index # manifest.listed
  <2>2. hist' = [Calm EXCEPT !.work = w, !.raced = hist.raced, !.stale = t]
    BY <2>1 DEF Begin
  <2> HIDE DEF w, t
  <2>3. hist'.raced = hist.raced
    BY <2>2, RestTypes DEF Hists
  <2>4. ses'.pc = "idle"
    BY <2>1, RestTypes DEF Begin, Rest, Sessions
  <2> QED
    BY <1>1, <2>1, <2>3, <2>4 DEF Begin
<1>3. CASE AttachFails
  BY <1>1, <1>3 DEF AttachFails, Free
<1>4. ASSUME NEW p \in Paths, NEW n \in Int, Change(p, n)
      PROVE  Images'
  <2> DEFINE v == [Visible EXCEPT !.files[p] = n]
  <2>1. v.files = [Visible.files EXCEPT ![p] = n]
    BY Seen DEF Contents
  <2>2. box' = Showing(v) /\ ses' = ses /\ manifest' = manifest
    BY <1>4 DEF Change
  <2>3. box.mounted => box'.loop = v /\ Visible = box.loop
    BY <1>0, <2>2 DEF Showing, Visible, Boxes
  <2>4. box'.mounted = box.mounted
    BY <1>0, <2>2 DEF Showing, Boxes
  <2> HIDE DEF v
  <2>5. /\ hist'.raced = hist.raced
        /\ hist'.touched = IF ses.pc = "idle" THEN hist.touched ELSE hist.touched \cup {p}
    BY <1>0, <1>4 DEF Change, Hists
  <2>6. ASSUME ses.pc = "unmount", box.mounted
        PROVE  Agree(v.files, ses.packed.files, ses.policy, hist'.touched)
    <3>1. ASSUME NEW r \in Paths, r \notin hist'.touched
          PROVE  Pack(v.files, ses.policy)[r] = ses.packed.files[r]
      <4>1. r # p /\ r \notin hist.touched
        BY <2>5, <2>6, <3>1
      <4>2. v.files[r] = box.loop.files[r]
        BY <2>1, <2>3, <2>6, <3>1, <4>1, Seen DEF Tree, Trees
      <4>3. Pack(v.files, ses.policy)[r] = Pack(box.loop.files, ses.policy)[r]
        BY <3>1, <4>2, SameAt
      <4> QED
        BY <2>6, <3>1, <4>1, <4>3 DEF Agree
    <3> QED
      BY <3>1 DEF Agree
  <2>7. ASSUME ses.pc = "commit", ses.op = "save", ses.how = "loopExt4"
        PROVE  Agree(ses.unmounted.files, ses.packed.files, ses.policy, hist'.touched)
    BY <2>5, <2>7 DEF Agree
  <2> QED
    BY <2>2, <2>3, <2>4, <2>5, <2>6, <2>7
<1>5. ASSUME NEW q, ProcessSave(q) \/ CommandSave(q) \/ CheckpointStart(q)
      PROVE  Images'
  <2>1. manifest' = manifest /\ ses'.pc = "pack" /\ hist'.raced = hist.raced
    BY <1>0, <1>5 DEF ProcessSave, CommandSave, SaveStart, CheckpointStart, Sessions, Hists
  <2> QED
    BY <1>1, <2>1
<1>6. CASE PackBundle
  <2> DEFINE k == [files |-> Pack(Visible.files, ses.policy), index |-> Visible.index]
             r == IF ses.op = "save" /\ ses.how = "loopExt4" THEN "unmount" ELSE "commit"
             d == Pack(hist.work, ses.policy)
  <2>1. /\ ses' = [ses EXCEPT !.pc = r, !.packed = k] /\ manifest' = manifest /\ box' = box
        /\ hist' = [hist EXCEPT !.due = d, !.excused = hist.popped]
    BY <1>6 DEF PackBundle
  <2>2. box.mounted => Agree(box.loop.files, k.files, ses.policy, hist.touched)
    BY DEF Agree, Visible
  <2>3. ~(r = "commit" /\ ses.op = "save" /\ ses.how = "loopExt4")
    OBVIOUS
  <2> HIDE DEF k, r, d
  <2>4. /\ ses'.packed = k /\ ses'.policy = ses.policy /\ ses'.pc = r /\ ses'.op = ses.op
        /\ ses'.how = ses.how /\ hist'.touched = hist.touched /\ hist'.raced = hist.raced
    BY <1>0, <2>1 DEF Sessions, Hists
  <2> QED
    BY <2>1, <2>2, <2>3, <2>4
<1>7. CASE Unmount
  <2>1. ses.pc = "unmount" /\ box.mounted /\ manifest' = manifest /\ box'.mounted = FALSE
    BY <1>0, <1>7 DEF Unmount, Bare, Boxes
  <2>2. hist'.raced = hist.raced
    BY <1>0, <1>7, SettledType DEF Unmount, Hists
  <2>3. CASE ses' = [ses EXCEPT !.pc = "commit", !.unmounted = box.loop] /\
             hist' = [hist EXCEPT !.popped = Popped(FALSE)]
    <3>1. /\ ses'.unmounted = box.loop /\ ses'.packed = ses.packed /\ ses'.policy = ses.policy
          /\ ses'.pc = "commit" /\ hist'.touched = hist.touched
      BY <1>0, <2>3 DEF Sessions, Hists
    <3> QED
      BY <2>1, <2>2, <3>1
  <2>4. CASE Return
    BY <1>1, <2>1, <2>2, <2>4, Returned
  <2> QED
    BY <1>7, <2>3, <2>4 DEF Unmount
<1>8. CASE SaveCommit
  <2> DEFINE f == IF KeepsExt4 THEN "ext4" ELSE "tree"
             i == IF RefreshesImage THEN ses.unmounted ELSE manifest.image
             h == manifest.hasImage \/ RefreshesImage
             r == IF RefreshesImage THEN hist.touched ELSE Settled.raced
  <2>1. /\ manifest' = [manifest EXCEPT !.format = f, !.tree = ses.packed, !.image = i, !.hasImage = h,
                                        !.listed = ses.listed, !.changes = ses.changes,
                                        !.policy = ses.policy, !.rev = manifest.rev + 1]
        /\ hist' = [Settled EXCEPT !.stale = FALSE, !.raced = r]
    BY <1>0, <1>8, SettledType DEF SaveCommit, Manifests, Hists
  <2>2. f = "ext4" => i = ses.unmounted /\ r = hist.touched /\ ses.how = "loopExt4"
    BY DEF KeepsExt4, RefreshesImage
  <2> HIDE DEF f, i, h, r
  <2>3. /\ manifest'.format = f /\ manifest'.image = i /\ manifest'.tree = ses.packed
        /\ manifest'.policy = ses.policy /\ hist'.raced = r
    BY <1>0, <2>1, SettledType DEF Manifests, Hists
  <2>4. ses'.pc = "idle" /\ ses.pc = "commit" /\ ses.op = "save"
    BY <1>8, Returned DEF SaveCommit
  <2> QED
    BY <2>2, <2>3, <2>4
<1>9. CASE CheckpointCommit
  <2>1. manifest'.format = "tree"
    BY <1>0, <1>9 DEF CheckpointCommit, Checkpointed, Manifests
  <2>2. ses'.pc = "idle"
    BY <1>9, Returned DEF CheckpointCommit
  <2> QED
    BY <2>1, <2>2
<1>10. CASE OperationFails
  <2>1. hist'.raced = hist.raced
    BY <1>10, SettledType DEF OperationFails, Hists
  <2> QED
    BY <1>1, <1>10, <2>1, Returned DEF OperationFails
<1>11. ASSUME NEW c, End(c)
       PROVE  Images'
  <2>1. CASE ses.pc = "idle"
    <3>1. ses'.pc = "idle" /\ hist'.raced = hist.raced
      BY <1>11, <2>1, RestTypes DEF End, Rest, Hists
    <3> QED
      BY <1>1, <1>11, <3>1 DEF End
  <2>2. CASE ses.pc # "idle"
    <3>1. ses' = [ses EXCEPT !.attached = FALSE] /\ hist' = [hist EXCEPT !.popped = Popped(box'.mounted)]
          /\ manifest' = manifest
      BY <1>11, <2>2 DEF End
    <3>2. box' = box \/ box'.mounted = FALSE
      BY <1>0, <1>11 DEF End, Detached, Bare, Boxes
    <3>3. /\ hist'.raced = hist.raced /\ hist'.touched = hist.touched /\ ses'.pc = ses.pc
          /\ ses'.op = ses.op /\ ses'.how = ses.how /\ ses'.packed = ses.packed
          /\ ses'.unmounted = ses.unmounted /\ ses'.policy = ses.policy
      BY <1>0, <3>1 DEF Sessions, Hists
    <3> QED
      BY <3>1, <3>2, <3>3
  <2> QED
    BY <2>1, <2>2
<1>12. CASE Elsewhere
  <2>1. ses' = ses /\ box' = box /\ hist'.touched = hist.touched
    BY <1>0, <1>12 DEF Elsewhere, Hists
  <2>2. CASE manifest' = [manifest EXCEPT !.format = "tree", !.rev = @ + 1]
    <3>1. manifest'.format = "tree"
      BY <1>0, <2>2 DEF Manifests
    <3> QED
      BY <2>1, <3>1
  <2>3. ASSUME NEW f \in Formats, manifest' = Made(f, DefaultPolicy, manifest.rev + 1)
        PROVE  Images'
    <3>1. /\ manifest'.image.files = Empty /\ manifest'.tree.files = Empty
          /\ manifest'.policy = DefaultPolicy
      BY <2>3 DEF Made, Nothing
    <3> QED
      BY <2>1, <3>1, EmptyClean DEF Agree
  <2> QED
    BY <1>12, <2>2, <2>3 DEF Elsewhere
<1>13. CASE UNCHANGED vars
  BY <1>13 DEF vars
<1>14. ASSUME NEW p \in Paths, Write(p) \/ Remove(p) \/ Link(p)
       PROVE  Images'
  <2>1. edits + 1 \in Int /\ Absent \in Int /\ Foreign \in Int
    BY DEF Typed, TypeOK, Absent, Foreign
  <2> QED
    BY <1>4, <1>14, <2>1 DEF Write, Remove, Link
<1> QED
  BY <1>2, <1>3, <1>5, <1>6, <1>7, <1>8, <1>9, <1>10, <1>11, <1>12, <1>13, <1>14
     DEF Next, ProcessEnd, CommandEnd

LEMMA ImagesKept == Spec => [](Typed /\ Mounts /\ Images)
<1>1. Init => Images
  <2> SUFFICES ASSUME Init PROVE Images
    OBVIOUS
  <2>1. ses.pc = "idle"
    BY DEF Init, Rest
  <2>2. PICK f \in Formats : manifest = Made(f, DefaultPolicy, 1)
    BY DEF Init
  <2> QED
    BY <2>1, <2>2, EmptyClean DEF Images, Agree, Made, Nothing
<1> QED
  BY <1>1, InitTyped, NextTyped, InitWorks, NextMounts, NextImages, PTL DEF Spec

(* The image of an ext4 context holds the files of its tree.               *)
THEOREM ImagesMatch == Spec => []ImageMatchesTree
<1>1. Images => ImageMatchesTree
  BY DEF Images, Agree, ImageMatchesTree
<1> QED
  BY <1>1, ImagesKept, PTL

(* A session starts from the committed files and nothing else.             *)
THEOREM AttachesExactly == Spec => AttachExact
<1> DEFINE Exact == \A p \in Paths \ hist.raced :
                      Pack(Visible'.files, manifest.policy)[p] = manifest.tree.files[p]
<1>1. ASSUME Typed, Packs, Images, ~ses.attached, ses'.attached, Next
      PROVE  Exact
  <2>0. /\ manifest \in Manifests /\ box \in Boxes /\ ses \in Sessions
    BY <1>1 DEF Typed, TypeOK
  <2>1. CASE AttachDirectory
    <3>1. Visible' = Unpacked
      BY <2>0, <2>1 DEF AttachDirectory, Free, Visible, Boxes
    <3> QED
      BY <1>1, <3>1, PackAgain DEF Unpacked, Packs
  <2>2. CASE AttachLoop
    <3>1. Visible' = IF manifest.format = "tree" THEN manifest.tree ELSE manifest.image
      BY <2>0, <2>2 DEF AttachLoop, Visible, Boxes
    <3>2. manifest.format \in {"tree", "ext4"}
      BY <2>0 DEF Manifests, Formats
    <3>3. CASE manifest.format = "tree"
      <4>1. Visible'.files = manifest.tree.files
        BY <3>1, <3>3
      <4>2. Clean(manifest.tree.files, manifest.policy)
        BY <1>1 DEF Packs
      <4>3. ASSUME NEW p \in Paths
            PROVE  Pack(manifest.tree.files, manifest.policy)[p] = manifest.tree.files[p]
        BY <4>2, PackAgain
      <4> QED
        BY <4>1, <4>3
    <3>4. CASE manifest.format = "ext4"
      <4>1. Visible'.files = manifest.image.files
        BY <3>1, <3>4
      <4> QED
        BY <1>1, <3>4, <4>1 DEF Images, Agree
    <3> QED
      BY <3>2, <3>3, <3>4
  <2>3. ~AttachDirectory /\ ~AttachLoop => FALSE
    <3> SUFFICES ASSUME ~AttachDirectory, ~AttachLoop PROVE FALSE
      OBVIOUS
    <3>1. \A p, n : ~Change(p, n)
      BY <1>1 DEF Change
    <3>2. \A q, c : ~SaveStart(c, q) /\ ~CheckpointStart(q) /\ ~End(c)
      BY <1>1 DEF SaveStart, CheckpointStart, End
    <3>3. ~Return
      BY <1>1, Returned
    <3>4. ~PackBundle
      BY <1>1, <2>0 DEF PackBundle, Sessions
    <3>5. ~Unmount
      BY <1>1, <2>0, <3>3 DEF Unmount, Sessions
    <3>6. ~SaveCommit /\ ~CheckpointCommit /\ ~OperationFails
      BY <3>3 DEF SaveCommit, CheckpointCommit, OperationFails
    <3>7. ~AttachFails /\ ~Elsewhere
      BY <1>1 DEF AttachFails, Elsewhere
    <3> QED
      BY <1>1, <3>1, <3>2, <3>4, <3>5, <3>6, <3>7
         DEF Next, Write, Remove, Link, ProcessSave, CommandSave, ProcessEnd, CommandEnd
  <2> QED
    BY <2>1, <2>2, <2>3
<1>2. Typed /\ Packs /\ Images /\ [Next]_vars => [~ses.attached /\ ses'.attached => Exact]_vars
  BY <1>1
<1>3. Typed /\ Packs /\ Images /\ [Next]_vars =>
        [~ses.attached /\ ses'.attached
           => \A p \in Paths \ hist.raced :
                Pack(Visible'.files, manifest.policy)[p] = manifest.tree.files[p]]_vars
  BY <1>2
<1> QED
  BY <1>3, PacksKept, ImagesKept, PTL DEF Spec, AttachExact

-----------------------------------------------------------------------------
(* Versions *)

(* The listing in the sandbox is that of the latest version, and of a save  *)
(* under way its own; what a save has listed is what it packs, and the      *)
(* changes are those from the latest version, as long as nothing was popped *)
(* and nobody else has committed.                                           *)
Listings ==
  /\ ses.attached /\ ~hist.popped /\ ~hist.stale /\ (ses.pc = "idle" \/ ses.op = "checkpoint")
       => Visible.index = manifest.listed
  /\ ses.attached /\ ~hist.popped /\ ses.pc # "idle" /\ ses.op = "save"
       => Visible.index = ses.listed

Agreed ==
  /\ ses.pc = "pack" /\ ses.op = "save" /\ ~hist.popped
       => \A p \in Paths \ hist.touched : ses.listed[p] = Listing(Visible.files, ses.policy)[p]
  /\ ses.pc \in {"unmount", "commit"} /\ ses.op = "save" /\ ~hist.excused
       => \A p \in Paths \ hist.touched : Tells(ses.listed, ses.packed.files, ses.policy, p)

Told ==
  /\ ses.rev <= manifest.rev
  /\ ses.pc # "idle" /\ ses.op = "save" /\ ~hist.stale /\ ses.rev = manifest.rev
     /\ ~(IF ses.pc = "pack" THEN hist.popped ELSE hist.excused)
       => ses.changes = Diff(manifest.listed, ses.listed)

Versions == Listings /\ Agreed /\ Told

LEMMA NextVersions == Typed /\ Mounts /\ Versions /\ [Next]_vars => Versions'
<1> SUFFICES ASSUME Typed, Mounts, Versions, [Next]_vars PROVE Versions'
  OBVIOUS
<1>0. /\ manifest \in Manifests /\ box \in Boxes /\ ses \in Sessions /\ hist \in Hists
      /\ manifest.rev \in Nat /\ ses.rev \in Nat
  BY DEF Typed, TypeOK, Manifests, Sessions
<1> USE DEF Versions, Listings, Agreed, Told
<1>1. ASSUME NEW m \in Modes, Begin(m)
      PROVE  Versions'
  <2> DEFINE w == Visible'.files
             t == Visible'.index # manifest.listed
  <2>1. hist' = [Calm EXCEPT !.work = w, !.raced = hist.raced, !.stale = t] /\ manifest' = manifest
    BY <1>1 DEF Begin
  <2>2. ~t => Visible'.index = manifest.listed
    OBVIOUS
  <2> HIDE DEF w, t
  <2>3. hist'.stale = t
    BY <2>1, RestTypes DEF Hists
  <2>4. ses'.pc = "idle" /\ ses'.rev = 0
    BY <1>1, RestTypes DEF Begin, Rest, Sessions
  <2> QED
    BY <1>0, <2>1, <2>2, <2>3, <2>4
<1>2. CASE AttachFails
  BY <1>2 DEF AttachFails, Free
<1>3. ASSUME NEW p \in Paths, NEW n \in Int, Change(p, n)
      PROVE  Versions'
  <2> DEFINE v == [Visible EXCEPT !.files[p] = n]
  <2>1. v.files = [Visible.files EXCEPT ![p] = n] /\ v.index = Visible.index
    BY Seen DEF Contents
  <2>2. box' = Showing(v) /\ ses' = ses /\ manifest' = manifest
    BY <1>3 DEF Change
  <2>3. Visible' = v
    BY <1>0, <2>2 DEF Showing, Visible, Boxes
  <2> HIDE DEF v
  <2>4. /\ hist'.popped = hist.popped /\ hist'.stale = hist.stale /\ hist'.excused = hist.excused
        /\ hist'.touched = IF ses.pc = "idle" THEN hist.touched ELSE hist.touched \cup {p}
    BY <1>0, <1>3 DEF Change, Hists
  <2>5. ASSUME ses.pc = "pack", ses.op = "save", ~hist.popped, NEW r \in Paths, r \notin hist'.touched
        PROVE  ses.listed[r] = Listing(v.files, ses.policy)[r]
    <3>1. r # p /\ r \notin hist.touched
      BY <2>4, <2>5
    <3>2. v.files[r] = Visible.files[r]
      BY <2>1, <3>1, Seen DEF Tree, Trees
    <3>3. Listing(v.files, ses.policy)[r] = Listing(Visible.files, ses.policy)[r]
      BY <2>5, <3>2 DEF Listing
    <3> QED
      BY <2>5, <3>1, <3>3
  <2>6. Agreed'
    BY <2>2, <2>3, <2>4, <2>5
  <2> QED
    BY <2>1, <2>2, <2>3, <2>4, <2>6
<1>4. ASSUME NEW q, NEW c, SaveStart(c, q)
      PROVE  Versions'
  <2> DEFINE l == Listing(Visible.files, q)
             d == Diff(Visible.index, l)
             how == ModeFor(c)
             v == [Visible EXCEPT !.index = l]
  <2>1. /\ ses' = [ses EXCEPT !.pc = "pack", !.op = "save", !.caller = c, !.how = how,
                              !.policy = q, !.rev = manifest.rev, !.listed = l, !.changes = d]
        /\ box' = Showing(v) /\ hist' = [hist EXCEPT !.touched = {}] /\ manifest' = manifest
        /\ ses.attached /\ ses.pc = "idle"
    BY <1>4 DEF SaveStart, Relisted
  <2>2. v.index = l /\ v.files = Visible.files
    BY Seen DEF Contents
  <2> HIDE DEF how, v
  <2>3. Visible' = v
    BY <1>0, <2>1 DEF Showing, Visible, Boxes
  <2>4. ~hist.popped /\ ~hist.stale => d = Diff(manifest.listed, l)
    BY <2>1
  <2>5. \A p \in Paths : l[p] = Listing(v.files, q)[p]
    BY <2>2
  <2> HIDE DEF l, d
  <2>6. /\ ses'.pc = "pack" /\ ses'.op = "save" /\ ses'.policy = q /\ ses'.rev = manifest.rev
        /\ ses'.listed = l /\ ses'.changes = d
        /\ hist'.popped = hist.popped /\ hist'.stale = hist.stale
    BY <1>0, <2>1 DEF Sessions, Hists
  <2> QED
    BY <1>0, <2>1, <2>2, <2>3, <2>4, <2>5, <2>6
<1>5. ASSUME NEW q, CheckpointStart(q)
      PROVE  Versions'
  <2>1. /\ ses'.pc = "pack" /\ ses'.op = "checkpoint" /\ ses'.rev = manifest.rev
        /\ ses'.attached = ses.attached /\ ses.pc = "idle" /\ manifest' = manifest
        /\ hist'.popped = hist.popped /\ hist'.stale = hist.stale /\ Visible' = Visible
    BY <1>0, <1>5 DEF CheckpointStart, Sessions, Hists, Visible
  <2> QED
    BY <1>0, <2>1
<1>6. CASE PackBundle
  <2> DEFINE k == [files |-> Pack(Visible.files, ses.policy), index |-> Visible.index]
             r == IF ses.op = "save" /\ ses.how = "loopExt4" THEN "unmount" ELSE "commit"
             d == Pack(hist.work, ses.policy)
  <2>1. /\ ses' = [ses EXCEPT !.pc = r, !.packed = k] /\ manifest' = manifest /\ Visible' = Visible
        /\ hist' = [hist EXCEPT !.due = d, !.excused = hist.popped] /\ ses.pc = "pack"
        /\ r \in {"unmount", "commit"}
    BY <1>6 DEF PackBundle, Visible
  <2>2. ASSUME ses.op = "save", ~hist.popped, NEW p \in Paths, p \notin hist.touched
        PROVE  Tells(ses.listed, k.files, ses.policy, p)
    <3>1. ses.listed[p] = Listing(Visible.files, ses.policy)[p]
      BY <2>1, <2>2 DEF Agreed
    <3>2. Tells(Listing(Visible.files, ses.policy), k.files, ses.policy, p)
      BY ListedPacked
    <3> QED
      BY <3>1, <3>2 DEF Tells
  <2> HIDE DEF k, r, d
  <2>3. /\ ses'.packed = k /\ ses'.pc = r /\ ses'.op = ses.op /\ ses'.policy = ses.policy
        /\ ses'.listed = ses.listed /\ ses'.changes = ses.changes /\ ses'.rev = ses.rev
        /\ ses'.attached = ses.attached
        /\ hist'.touched = hist.touched /\ hist'.stale = hist.stale
        /\ hist'.popped = hist.popped /\ hist'.excused = hist.popped
    BY <1>0, <2>1 DEF Sessions, Hists
  <2>4. Agreed'
    BY <2>1, <2>2, <2>3
  <2> QED
    BY <2>1, <2>3, <2>4
<1>7. CASE Unmount
  <2>1. /\ ses.pc = "unmount" /\ ses.op = "save" /\ manifest' = manifest /\ box.mounted
    BY <1>7 DEF Unmount, Mounts
  <2>2. hist'.popped = (hist.popped \/ ses.attached)
    <3>1. Popped(FALSE) = (hist.popped \/ ses.attached)
      BY <2>1, <1>0 DEF Popped, Sessions, Hists
    <3> QED
      BY <1>0, <1>7, <3>1, SettledType DEF Unmount, Hists
  <2>3. CASE ses' = [ses EXCEPT !.pc = "commit", !.unmounted = box.loop] /\
             hist' = [hist EXCEPT !.popped = Popped(FALSE)]
    <3>1. /\ ses'.packed = ses.packed /\ ses'.pc = "commit" /\ ses'.op = ses.op
          /\ ses'.listed = ses.listed /\ ses'.changes = ses.changes /\ ses'.rev = ses.rev
          /\ ses'.policy = ses.policy
          /\ ses'.attached = ses.attached /\ hist'.touched = hist.touched
          /\ hist'.stale = hist.stale /\ hist'.excused = hist.excused
      BY <1>0, <2>3 DEF Sessions, Hists
    <3> QED
      BY <2>1, <2>2, <3>1
  <2>4. CASE Return
    <3>1. ses'.pc = "idle" /\ ses'.rev = 0 /\ ses'.attached = ses.attached
      BY <2>4, Returned
    <3>2. ses'.attached => hist'.popped
      BY <2>2, <3>1
    <3> QED
      BY <1>0, <2>1, <3>1, <3>2
  <2> QED
    BY <1>7, <2>3, <2>4 DEF Unmount
<1>8. CASE SaveCommit
  <2> DEFINE f == IF KeepsExt4 THEN "ext4" ELSE "tree"
             i == IF RefreshesImage THEN ses.unmounted ELSE manifest.image
             h == manifest.hasImage \/ RefreshesImage
             r == IF RefreshesImage THEN hist.touched ELSE Settled.raced
  <2>1. /\ manifest' = [manifest EXCEPT !.format = f, !.tree = ses.packed, !.image = i, !.hasImage = h,
                                        !.listed = ses.listed, !.changes = ses.changes,
                                        !.policy = ses.policy, !.rev = manifest.rev + 1]
        /\ hist' = [Settled EXCEPT !.stale = FALSE, !.raced = r]
        /\ Return /\ ses.pc = "commit" /\ ses.op = "save"
    BY <1>0, <1>8, SettledType DEF SaveCommit, Manifests, Hists
  <2> HIDE DEF f, i, h, r
  <2>2. Visible' = Visible
    BY <1>0, <1>8 DEF SaveCommit, Boxes, Visible
  <2>3. /\ manifest'.listed = ses.listed /\ manifest'.rev = manifest.rev + 1
        /\ ses.attached => hist'.popped = hist.popped
    BY <1>0, <2>1, SettledType DEF Manifests, Hists
  <2>4. ses'.pc = "idle" /\ ses'.rev = 0 /\ ses'.attached = ses.attached
    BY <2>1, Returned
  <2> QED
    BY <1>0, <2>1, <2>2, <2>3, <2>4
<1>9. CASE CheckpointCommit
  <2>1. /\ manifest'.listed = manifest.listed /\ manifest'.rev = manifest.rev + 1
        /\ ses.pc = "commit" /\ ses.op = "checkpoint" /\ Visible' = Visible
        /\ ses.attached => hist'.popped = hist.popped /\ hist'.stale = hist.stale
    BY <1>0, <1>9, SettledType DEF CheckpointCommit, Checkpointed, Manifests, Visible
  <2>2. ses'.pc = "idle" /\ ses'.rev = 0 /\ ses'.attached = ses.attached
    BY <1>9, Returned DEF CheckpointCommit
  <2> QED
    BY <1>0, <2>1, <2>2
<1>10. CASE OperationFails
  <2> DEFINE t == Settled.stale \/ (ses.attached /\ ses.op = "save")
  <2>1. hist' = [Settled EXCEPT !.stale = t] /\ manifest' = manifest /\ box' = box /\ Return
        /\ ses.pc # "idle"
    BY <1>10, SettledType DEF OperationFails, Hists
  <2>2. ses.attached /\ ~t => ~hist.stale /\ ses.op # "save"
    BY SettledType
  <2> HIDE DEF t
  <2>3. hist'.stale = t /\ (ses.attached => hist'.popped = hist.popped) /\ Visible' = Visible
    BY <2>1, SettledType DEF Hists, Visible
  <2>4. ses'.pc = "idle" /\ ses'.rev = 0 /\ ses'.attached = ses.attached
    BY <2>1, Returned
  <2>5. ses.op = "save" \/ ses.op = "checkpoint"
    BY <2>1 DEF Mounts
  <2> QED
    BY <1>0, <2>1, <2>2, <2>3, <2>4, <2>5
<1>11. ASSUME NEW c, End(c)
       PROVE  Versions'
  <2>1. CASE ses.pc = "idle"
    <3>1. ses'.pc = "idle" /\ ses'.rev = 0 /\ ~ses'.attached /\ manifest' = manifest
      BY <1>11, <2>1, RestTypes DEF End, Rest
    <3> QED
      BY <1>0, <3>1
  <2>2. CASE ses.pc # "idle"
    <3>1. ses' = [ses EXCEPT !.attached = FALSE] /\ hist' = [hist EXCEPT !.popped = Popped(box'.mounted)]
          /\ manifest' = manifest /\ ses.attached
      BY <1>11, <2>2 DEF End
    <3>2. /\ hist'.popped = (hist.popped \/ (box.mounted /\ ~box'.mounted))
          /\ hist'.excused = hist.excused /\ hist'.stale = hist.stale /\ hist'.touched = hist.touched
      BY <1>0, <3>1 DEF Popped, Hists
    <3>3. box' = box \/ (box'.mounted = FALSE /\ box'.dir = box.dir)
      BY <1>0, <1>11 DEF End, Detached, Bare, Boxes
    <3>4. Visible' = Visible \/ (box.mounted /\ ~box'.mounted)
      BY <1>0, <3>3 DEF Visible, Boxes
    <3>5. /\ ses'.pc = ses.pc /\ ses'.op = ses.op /\ ses'.packed = ses.packed /\ ~ses'.attached
          /\ ses'.policy = ses.policy /\ ses'.listed = ses.listed /\ ses'.rev = ses.rev
          /\ ses'.changes = ses.changes
      BY <1>0, <3>1 DEF Sessions
    <3>6. Agreed'
      BY <3>2, <3>4, <3>5
    <3> QED
      BY <3>1, <3>2, <3>5, <3>6
  <2> QED
    BY <2>1, <2>2
<1>12. CASE Elsewhere
  <2>1. /\ ses' = ses /\ Visible' = Visible
        /\ hist'.touched = hist.touched /\ hist'.popped = hist.popped
        /\ hist'.excused = hist.excused /\ hist'.stale = (hist.stale \/ ses.attached)
    BY <1>0, <1>12 DEF Elsewhere, Hists, Visible
  <2>2. manifest'.rev = manifest.rev + 1
    <3>1. CASE manifest' = [manifest EXCEPT !.format = "tree", !.rev = @ + 1]
      BY <1>0, <3>1 DEF Manifests
    <3>2. ASSUME NEW f \in Formats, manifest' = Made(f, DefaultPolicy, manifest.rev + 1)
          PROVE  manifest'.rev = manifest.rev + 1
      BY <3>2 DEF Made
    <3> QED
      BY <1>12, <3>1, <3>2 DEF Elsewhere
  <2> QED
    <3>1. Listings'
      BY <2>1
    <3>2. Agreed'
      BY <2>1
    <3>3. Told'
      BY <1>0, <2>1, <2>2
    <3> QED
      BY <3>1, <3>2, <3>3
<1>13. CASE UNCHANGED vars
  BY <1>13 DEF vars, Visible
<1>14. ASSUME NEW p \in Paths, Write(p) \/ Remove(p) \/ Link(p)
       PROVE  Versions'
  <2>1. edits + 1 \in Int /\ Absent \in Int /\ Foreign \in Int
    BY DEF Typed, TypeOK, Absent, Foreign
  <2> QED
    BY <1>3, <1>14, <2>1 DEF Write, Remove, Link
<1> QED
  BY <1>1, <1>2, <1>4, <1>5, <1>6, <1>7, <1>8, <1>9, <1>10, <1>11, <1>12, <1>13, <1>14
     DEF Next, AttachDirectory, AttachLoop, Modes, ProcessSave, CommandSave, ProcessEnd, CommandEnd

LEMMA VersionsKept == Spec => [](Typed /\ Mounts /\ Versions)
<1>1. Init => Versions
  <2> SUFFICES ASSUME Init PROVE Versions
    OBVIOUS
  <2>1. ses.pc = "idle" /\ ~ses.attached /\ ses.rev = 0
    BY DEF Init, Rest
  <2>2. PICK f \in Formats : manifest = Made(f, DefaultPolicy, 1)
    BY DEF Init
  <2> QED
    BY <2>1, <2>2 DEF Versions, Listings, Agreed, Told, Made
<1> QED
  BY <1>1, InitTyped, NextTyped, InitWorks, NextMounts, NextVersions, PTL DEF Spec

(* A version lists the files of its tree, but for links and for the files  *)
(* of excluded directories, and its changes are those that lead from the   *)
(* version before it to its own.                                           *)
THEOREM VersionsTrue == Spec => VersionTrue
<1> DEFINE True == /\ \A p \in Paths \ hist.touched : Tells(ses.listed, ses.packed.files, ses.policy, p)
                   /\ ~hist.stale => Explains(manifest'.changes, manifest.listed, manifest'.listed)
<1>1. ASSUME Typed, Mounts, Versions, Next, Commits, ses.op = "save", ~hist.excused
      PROVE  True
  <2>0. /\ manifest \in Manifests /\ ses \in Sessions
        /\ manifest.listed \in Tree /\ ses.listed \in Tree
    BY <1>1 DEF Typed, TypeOK, Manifests, Sessions, Tree
  <2>1. ses.pc = "commit" /\ manifest' # manifest /\ ses'.pc = "idle"
    BY <1>1 DEF Commits
  <2>2. SaveCommit
    <3>1. ~(AttachDirectory \/ AttachLoop \/ AttachFails) /\ \A p, n : ~Change(p, n)
      BY <2>1 DEF AttachDirectory, AttachLoop, AttachFails, Begin, Change
    <3>2. \A q, c : ~SaveStart(c, q) /\ ~CheckpointStart(q) /\ ~End(c)
      BY <2>1 DEF SaveStart, CheckpointStart, End
    <3>3. ~PackBundle /\ ~Unmount /\ ~OperationFails /\ ~CheckpointCommit
      BY <1>1, <2>1 DEF PackBundle, Unmount, OperationFails, CheckpointCommit
    <3>4. ~Elsewhere
      BY <2>1 DEF Elsewhere
    <3> QED
      BY <1>1, <3>1, <3>2, <3>3, <3>4
         DEF Next, Write, Remove, Link, ProcessSave, CommandSave, ProcessEnd, CommandEnd
  <2>3. manifest'.listed = ses.listed /\ manifest'.changes = ses.changes /\ ses.rev = manifest.rev
    BY <2>0, <2>2 DEF SaveCommit, Manifests
  <2>4. ~hist.stale => ses.changes = Diff(manifest.listed, ses.listed)
    BY <1>1, <2>1, <2>3 DEF Versions, Told
  <2>5. Explains(Diff(manifest.listed, ses.listed), manifest.listed, ses.listed)
    BY <2>0, DiffExplains
  <2>6. \A p \in Paths \ hist.touched : Tells(ses.listed, ses.packed.files, ses.policy, p)
    BY <1>1, <2>1 DEF Versions, Agreed
  <2> QED
    BY <2>3, <2>4, <2>5, <2>6
<1>2. Typed /\ Mounts /\ Versions /\ [Next]_vars =>
        [Commits /\ ses.op = "save" /\ ~hist.excused
           => /\ \A p \in Paths \ hist.touched :
                   Tells(ses.listed, ses.packed.files, ses.policy, p)
              /\ ~hist.stale => Explains(manifest'.changes, manifest.listed, manifest'.listed)]_vars
  BY <1>1
<1> QED
  BY <1>2, VersionsKept, PTL DEF Spec, VersionTrue
=============================================================================
