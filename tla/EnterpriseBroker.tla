-------------------------- MODULE EnterpriseBroker --------------------------
(***************************************************************************)
(* The broker in front of the SDK (src/src/enterprise.ts): calls run side  *)
(* by side, and each is put to the policy and to the quota, entered in the *)
(* audit trail, carried out and entered again.  Policy engine, quota       *)
(* manager and audit sink may throw; a write of the sink that throws may   *)
(* have landed.  What the SDK does is cut down to what a call leaves       *)
(* behind: contexts, locks, sessions and sandboxes.                        *)
(***************************************************************************)
EXTENDS Integers, Sequences

CONSTANTS Calls,         \* calls of the broker, each made once
          Contexts,
          Actors,
          RolesOf,       \* actor.roles
          Names,         \* names of runtimes that callers ask for
          Provisioners,  \* those with a provisioner
          Ids,           \* names and adapter ids: what request.runtime can be
          IdOf,          \* the id of an adapter provisioned under that name, "e2b:<sandboxId>"
          AllowedRuntimes, \* of StaticQuotaManager; {} when it has no list
          Requests,      \* what callers ask for
          None

Actions == {"context.create", "context.read", "context.run", "context.start",
            "context.save", "context.end"}

Asks == [action: Actions, actor: Actors, disabled: BOOLEAN,
         owner: Actors \cup {None},             \* of a personal scope
         classification: {"internal", "restricted"},
         runtime: Names \cup {None},
         size: {"fits", "exceeds", "unparsable"}, \* against maxContextSizeBytes
         claims: BOOLEAN,                       \* passes a requestedSizeBytes that fits
         force: BOOLEAN,                        \* force, forceUnlock
         createIfMissing: BOOLEAN,
         adapter: Ids \cup {None}]               \* the id of the runtimeAdapter it passes

ASSUME BrokerAssumption ==
  /\ RolesOf \in [Actors -> SUBSET {"admin", "restricted-context"}]
  /\ Provisioners \subseteq Names /\ Names \subseteq Ids /\ IdOf \in [Names -> Ids]
  /\ AllowedRuntimes \subseteq Ids
  /\ Requests \subseteq Asks
  /\ \A r \in Requests : r.action \in {"context.run", "context.start"} => r.runtime \in Names
  /\ None \notin Calls \cup Actors \cup Ids

VARIABLES call,    \* the calls
          trail,   \* the audit events of each call, in the order they were written
          context, \* the contexts and their locks
          sandbox  \* the sandbox a call has provisioned
vars == <<call, trail, context, sandbox>>

Outcomes == {"allow", "deny", "success", "failure"}

CallType ==
  [pc: {"idle", "enforce", "act", "attach", "running", "answered"} \cup Outcomes,
   ask: Requests, context: Contexts,
   session: Calls \cup {None},   \* of a save or an end: the start it comes from
   answer: {"none", "ok", "error"},
   touched: BOOLEAN,             \* history: it has changed something outside the trail
   done: BOOLEAN,                \* history: the SDK has returned its result
   lost: BOOLEAN,                \* history: a write of its record was reported failed
   kept: BOOLEAN]                \* history: its lock could not be given back

New(r, k) ==
  [pc |-> "idle", ask |-> r, context |-> k, session |-> None, answer |-> "none",
   touched |-> FALSE, done |-> FALSE, lost |-> FALSE, kept |-> FALSE]

Init ==
  /\ call \in [Calls -> {New(r, k) : r \in Requests, k \in Contexts}]
  /\ trail = [c \in Calls |-> <<>>]
  /\ context = [k \in Contexts |-> [exists |-> FALSE, lock |-> None]]
  /\ sandbox = [c \in Calls |-> "none"]

Ask(c) == call[c].ask
LockOf(c) == context[call[c].context].lock
Recorded(c, outcome) == \E i \in 1 .. Len(trail[c]) : trail[c][i] = outcome

Goes(c, pc) == call' = [call EXCEPT ![c].pc = pc]

(* MUTANT GoesOn: the call goes on when it has answered. *)
GoesOn(c, answer) == call' = [call EXCEPT ![c].answer = answer]

Answers(c, answer) == call' = [call EXCEPT ![c].pc = "answered", ![c].answer = answer]

-----------------------------------------------------------------------------
(* MUTANT EndIsAdmin: ending a session takes the admin role. *)
EndIsAdmin(c) ==
  /\ ~Ask(c).disabled
  /\ Ask(c).action = "context.end" => "admin" \in RolesOf[Ask(c).actor]

(* DefaultEnterprisePolicy; the scope of a request that names none is the   *)
(* actor's own.                                                             *)
Authorized(c) ==
  LET r == Ask(c)
  IN  /\ ~r.disabled
      /\ r.owner \in {None, r.actor} \/ "admin" \in RolesOf[r.actor]
      /\ r.classification = "restricted" => "restricted-context" \in RolesOf[r.actor]

\* session.runtimeId: a caller may give one name and pass the adapter of another
AdapterOf(s) == IF Ask(s).adapter = None THEN IdOf[Ask(s).runtime] ELSE Ask(s).adapter

(* request: saves and ends go by the id of the session's adapter, the others *)
(* by the name the caller gives.                                             *)
RuntimeOf(c) ==
  IF call[c].session = None THEN Ask(c).runtime ELSE AdapterOf(call[c].session)

\* the size that counts is the one that is passed along, if there is one
SizeCounts(c) ==
  \/ Ask(c).action = "context.create" /\ ~Ask(c).claims
  \/ Ask(c).action \in {"context.run", "context.start"} /\ Ask(c).createIfMissing

(* StaticQuotaManager *)
QuotaAvailable(c) ==
  /\ ~(SizeCounts(c) /\ Ask(c).size = "exceeds")
  /\ AllowedRuntimes # {} /\ RuntimeOf(c) # None => RuntimeOf(c) \in AllowedRuntimes

-----------------------------------------------------------------------------
(* The call comes in.  A session is one that a start has handed out; a size *)
(* that cannot be parsed throws before anybody is asked.                    *)
Submit(c, s) ==
  LET refused == SizeCounts(c) /\ Ask(c).size = "unparsable"
  IN  /\ call[c].pc = "idle"
      /\ IF Ask(c).action \in {"context.save", "context.end"}
         THEN /\ s \in Calls \ {c} /\ Ask(s).action = "context.start"
              /\ call[s].answer = "ok"
         ELSE s = None
      /\ call' = [call EXCEPT ![c].session = s,
                              ![c].context = IF s = None THEN @ ELSE call[s].context,
                              ![c].pc = IF refused THEN "answered" ELSE "enforce",
                              ![c].answer = IF refused THEN "error" ELSE @]
      /\ UNCHANGED <<trail, context, sandbox>>

(* enforce: policy and quota look at nothing but the request. *)
Enforce(c) ==
  /\ call[c].pc = "enforce"
  /\ \/ Goes(c, IF Authorized(c) /\ QuotaAvailable(c) THEN "allow" ELSE "deny")
     \/ Goes(c, "failure")
  /\ UNCHANGED <<trail, context, sandbox>>

(* MUTANT AfterBestEffort: a record that cannot be written is let go. *)
AfterBestEffort(outcome, written) ==
  CASE outcome = "allow" -> "act" [] outcome = "success" -> "ok" [] OTHER -> "error"

(* What follows a record, which is written inside of the try block of the    *)
(* operation or outside of it.                                               *)
After(outcome, written) ==
  CASE outcome = "allow" /\ written -> "act"
    [] outcome = "success" /\ written -> "ok"
    [] outcome = "success" /\ ~written -> "failure"
    [] OTHER -> "error"

(* record *)
Record(c, landed, written) ==
  LET next == After(call[c].pc, written)
  IN  /\ call[c].pc \in Outcomes
      /\ written => landed
      /\ trail' = IF landed THEN [trail EXCEPT ![c] = Append(@, call[c].pc)] ELSE trail
      /\ call' = [call EXCEPT ![c].pc = IF next \in {"ok", "error"} THEN "answered" ELSE next,
                              ![c].answer = IF next \in {"ok", "error"} THEN next ELSE @,
                              ![c].lost = @ \/ ~written]
      /\ UNCHANGED <<context, sandbox>>

-----------------------------------------------------------------------------
\* the operation is done, its record comes next
Done(c) == call' = [call EXCEPT ![c].pc = "success", ![c].done = TRUE, ![c].touched = TRUE]

(* MUTANT ErrorSwallowed: a failure is taken for a result. *)
ErrorSwallowed(c, touched) ==
  call' = [call EXCEPT ![c].pc = "success", ![c].touched = @ \/ touched]

\* it throws; what it has changed by then stays
Throws(c, touched) == call' = [call EXCEPT ![c].pc = "failure", ![c].touched = @ \/ touched]

At(c, action) == call[c].pc = "act" /\ Ask(c).action = action

Made(k) == [context EXCEPT ![k].exists = TRUE]

(* create: an answer may be lost after the manifest is there. *)
Create(c) ==
  LET k == call[c].context
  IN  /\ At(c, "context.create")
      /\ \/ /\ ~context[k].exists \/ Ask(c).force
            /\ context' = Made(k)
            /\ Done(c) \/ Throws(c, TRUE)
         \/ context' = context /\ Throws(c, FALSE)
      /\ UNCHANGED <<trail, sandbox>>

(* status and manifest answer without another record. *)
Read(c) ==
  /\ At(c, "context.read")
  /\ Answers(c, "ok") \/ Answers(c, "error")
  /\ UNCHANGED <<trail, context, sandbox>>

(* runtimeFor *)
Provision(c) ==
  LET given == Ask(c).action = "context.start" /\ Ask(c).adapter # None
  IN  /\ call[c].pc = "act" /\ Ask(c).action \in {"context.run", "context.start"}
      /\ \/ given /\ Goes(c, "attach") /\ sandbox' = sandbox
         \/ /\ ~given /\ Ask(c).runtime \in Provisioners
            /\ sandbox' = [sandbox EXCEPT ![c] = "live"]
            /\ call' = [call EXCEPT ![c].pc = "attach", ![c].touched = TRUE]
         \/ ~given /\ Throws(c, FALSE) /\ sandbox' = sandbox
      /\ UNCHANGED <<trail, context>>

(* MUTANT GivesNothingBack: the lock stays where it is. *)
GivesNothingBack(c, k) == [k EXCEPT !.lock = c]

(* The lock is given back. *)
Released(c, k) == [k EXCEPT !.lock = None]

(* startContextSession: what fails gives the lock back that it got, if it can. *)
Attach(c) ==
  LET k == call[c].context
      makes == Ask(c).createIfMissing /\ ~context[k].exists
      there == IF makes THEN Made(k) ELSE context
      locked == [there EXCEPT ![k].lock = c]
  IN  /\ call[c].pc = "attach"
      /\ \/ /\ there[k].exists /\ there[k].lock = None
            /\ \/ /\ context' = locked
                  /\ IF Ask(c).action = "context.start" THEN Done(c)
                     ELSE call' = [call EXCEPT ![c].pc = "running", ![c].touched = TRUE]
               \/ /\ context' = [locked EXCEPT ![k] = Released(c, locked[k])]
                  /\ Throws(c, TRUE)
               \/ /\ context' = locked
                  /\ call' = [call EXCEPT ![c].pc = "failure", ![c].touched = TRUE,
                                          ![c].kept = TRUE]
         \/ context' = context /\ Throws(c, FALSE)
         \/ makes /\ context' = there /\ Throws(c, TRUE)
      /\ UNCHANGED <<trail, sandbox>>

(* The rest of runWithContext: fn and the last save fail or do not, the      *)
(* detach may keep the lock, the sandbox is destroyed.                       *)
RunEnds(c) ==
  LET k == call[c].context
  IN  /\ call[c].pc = "running"
      /\ \E kept, ok \in BOOLEAN :
           /\ context' = IF ~kept /\ context[k].lock = c
                         THEN [context EXCEPT ![k] = Released(c, @)] ELSE context
           /\ call' = [call EXCEPT ![c].pc = IF ok THEN "success" ELSE "failure",
                                   ![c].done = ok, ![c].kept = kept]
      /\ sandbox' = [sandbox EXCEPT ![c] = "gone"]
      /\ UNCHANGED trail

Save(c) ==
  /\ At(c, "context.save")
  /\ \/ LockOf(c) \in {call[c].session, None} /\ Done(c)
     \/ Throws(c, TRUE)
  /\ UNCHANGED <<trail, context, sandbox>>

(* A detach whose script or whose request fails leaves the lock. *)
End(c) ==
  LET k == call[c].context
  IN  /\ At(c, "context.end")
      /\ \/ /\ context[k].lock \in {call[c].session, None} \/ Ask(c).force
            /\ context' = [context EXCEPT ![k].lock = None]
            /\ Done(c)
         \/ context' = context /\ Throws(c, TRUE)
      /\ UNCHANGED <<trail, sandbox>>

(* No heartbeat keeps the lock of a session that a start has handed out. *)
Lapse(k) ==
  /\ context[k].lock \in Calls /\ Ask(context[k].lock).action = "context.start"
  /\ context' = [context EXCEPT ![k].lock = None]
  /\ UNCHANGED <<call, trail, sandbox>>

Next ==
  \/ \E c \in Calls :
       \/ \E s \in Calls \cup {None} : Submit(c, s)
       \/ Enforce(c)
       \/ \E landed, written \in BOOLEAN : Record(c, landed, written)
       \/ Create(c) \/ Read(c) \/ Provision(c) \/ Attach(c) \/ RunEnds(c)
       \/ Save(c) \/ End(c)
  \/ \E k \in Contexts : Lapse(k)

Spec == Init /\ [][Next]_vars

-----------------------------------------------------------------------------
TypeOK ==
  /\ call \in [Calls -> CallType]
  /\ trail \in [Calls -> Seq(Outcomes)]
  /\ context \in [Contexts -> [exists: BOOLEAN, lock: Calls \cup {None}]]
  /\ sandbox \in [Calls -> {"none", "live", "gone"}]
  /\ \A c \in Calls : call[c].pc = "answered" <=> call[c].answer # "none"

(***************************************************************************)
(* What the trail says of a call is what became of it.  Nothing is         *)
(* created, started, saved or ended, and no sandbox is paid for, before    *)
(* the trail says that it was allowed; a call that is denied has changed   *)
(* nothing, one that succeeded is done, and one that is done is entered as *)
(* failed only when its entry as a success was reported failed.  That one  *)
(* lies in the trail twice if the sink had taken it.                       *)
(***************************************************************************)
TrailTrue ==
  \A c \in Calls :
    /\ call[c].touched => Recorded(c, "allow")
    /\ Recorded(c, "deny") => ~call[c].touched /\ ~Recorded(c, "allow")
    /\ Recorded(c, "success") => call[c].done
    /\ Recorded(c, "failure") /\ call[c].done => call[c].lost

(***************************************************************************)
(* The caller hears what the trail says: a change is confirmed only when   *)
(* its success is entered, and an error without an entry of a denial or a  *)
(* failure means that a write of the sink failed, that the request could   *)
(* not be read, or that a read threw after it was allowed.                 *)
(***************************************************************************)
AnswersTrue ==
  \A c \in Calls :
    /\ call[c].answer = "ok" /\ Ask(c).action # "context.read"
         => trail[c] = <<"allow", "success">> /\ call[c].done
    /\ call[c].answer = "error"
         => \/ Recorded(c, "deny") \/ Recorded(c, "failure") \/ call[c].lost
            \/ trail[c] = <<>> /\ Ask(c).size = "unparsable"
            \/ trail[c] = <<"allow">> /\ Ask(c).action = "context.read"

\* a start that handed its session out, or that could not enter that it had done so
Started(c) == Ask(c).action = "context.start" /\ (call[c].answer = "ok" \/ call[c].lost)

(***************************************************************************)
(* What a call leaves open is in somebody's hands.  A context is locked by *)
(* a session that its caller knows of or by a call that is under way, and  *)
(* a sandbox that outlives its call is that of such a session.  The        *)
(* exceptions are three: the start whose success could not be entered,     *)
(* which throws with the session open (enterprise.ts:222); a lock that     *)
(* could not be given back; and the sandbox of a call that could not       *)
(* attach it, which nobody destroys (context.ts:557, enterprise.ts:210).   *)
(***************************************************************************)
NothingStranded ==
  /\ \A k \in Contexts :
       LET c == context[k].lock
       IN  c # None /\ call[c].pc = "answered" => call[c].kept \/ Started(c)
  /\ \A c \in Calls :
       sandbox[c] = "live" /\ call[c].pc = "answered" => Started(c) \/ ~call[c].done

\* the same actor on the same terms
Alike(r, s) ==
  /\ r.actor = s.actor /\ r.disabled = s.disabled
  /\ r.owner = s.owner /\ r.classification = s.classification

(***************************************************************************)
(* Who was let start a session is let end it, on the same terms.  But for  *)
(* the list of runtimes: it is held against names where a start is asked   *)
(* for and against ids of adapters where an end is (enterprise.ts:269,     *)
(* 408), so that a session of a runtime allowed by name may not be ended.  *)
(***************************************************************************)
StartersMayEnd ==
  \A c \in Calls :
    LET s == call[c].session
    IN  Recorded(c, "deny") /\ s # None /\ Alike(Ask(c), Ask(s))
          => /\ AdapterOf(s) # Ask(s).runtime
             /\ AdapterOf(s) \notin AllowedRuntimes
=============================================================================
