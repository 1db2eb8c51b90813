---------------------- MODULE EnterpriseBrokerProofs ----------------------
(***************************************************************************)
(* The trail of EnterpriseBroker is true, the callers hear what it says    *)
(* and nothing is stranded but what cannot be helped, for any number of    *)
(* calls, any requests, and any policy and quota of the two kinds.         *)
(***************************************************************************)
EXTENDS EnterpriseBroker, SequenceTheorems, TLAPS

USE BrokerAssumption

-----------------------------------------------------------------------------
(* Types *)

LEMMA NewType ==
  ASSUME NEW r \in Requests, NEW k \in Contexts
  PROVE  New(r, k) \in CallType
  BY DEF New, CallType, Outcomes

LEMMA AskType ==
  ASSUME call \in [Calls -> CallType], NEW c \in Calls
  PROVE  call[c] \in CallType /\ Ask(c) \in Asks /\ Ask(c) \in Requests
  BY DEF CallType, Ask, BrokerAssumption

LEMMA Moved ==
  ASSUME call \in [Calls -> CallType], NEW c \in Calls, NEW x \in CallType,
         call' = [call EXCEPT ![c] = x]
  PROVE  /\ call' \in [Calls -> CallType] /\ call'[c] = x
         /\ \A d \in Calls : d # c => call'[d] = call[d]
  OBVIOUS

(* What the trail and the rest of a call have to do with each other.       *)
Story(x, t) ==
  /\ x.pc \in {"idle", "enforce", "allow", "deny"}
       => t = <<>> /\ ~x.touched /\ ~x.done /\ ~x.lost /\ ~x.kept
  /\ x.pc \in {"act", "attach", "running"} => t = <<"allow">> /\ ~x.done /\ ~x.lost /\ ~x.kept
  /\ x.pc = "success" => t = <<"allow">> /\ x.done /\ ~x.lost
  /\ x.pc = "failure" =>
       \/ t = <<>> /\ ~x.touched /\ ~x.done
       \/ t = <<"allow">> /\ ~x.done
       \/ t \in {<<"allow">>, <<"allow", "success">>} /\ x.done /\ x.lost
  /\ x.answer = "ok" =>
       \/ t = <<"allow", "success">> /\ x.done
       \/ t = <<"allow">> /\ ~x.done /\ x.ask.action = "context.read"
  /\ x.answer = "error" =>
       \/ t = <<>> /\ ~x.touched /\ ~x.done /\ (x.lost \/ x.ask.size = "unparsable")
       \/ t = <<"allow">> /\ ~x.done /\ (x.lost \/ x.ask.action = "context.read")
       \/ t \in {<<"deny">>, <<"failure">>} /\ ~x.touched /\ ~x.done
       \/ t = <<"allow", "failure">> /\ ~x.done
       \/ /\ t \in {<<"allow">>, <<"allow", "success">>, <<"allow", "failure">>,
                    <<"allow", "success", "failure">>}
          /\ x.done /\ x.lost
  /\ x.pc = "answered" <=> x.answer # "none"

(* Who may hold a lock. *)
Holds(x) ==
  x.kept \/ x.pc = "running" \/ (x.ask.action = "context.start" /\ x.done)

(* Whose sandbox may be alive. *)
Pays(x) ==
  /\ x.ask.action \in {"context.run", "context.start"}
  /\ x.done => x.ask.action = "context.start"

Types ==
  /\ call \in [Calls -> CallType]
  /\ trail \in [Calls -> Seq(Outcomes)]
  /\ context \in [Contexts -> [exists: BOOLEAN, lock: Calls \cup {None}]]
  /\ sandbox \in [Calls -> {"none", "live", "gone"}]

Stories == \A c \in Calls : Story(call[c], trail[c])

Holders ==
  \A k \in Contexts :
    LET c == context[k].lock IN c # None => call[c].context = k /\ Holds(call[c])

Payers == \A c \in Calls : sandbox[c] = "live" => Pays(call[c])

BrokerInv == Types /\ Stories /\ Holders /\ Payers

LEMMA InitBroker == Init => BrokerInv
<1> SUFFICES ASSUME Init PROVE BrokerInv
  OBVIOUS
<1>1. ASSUME NEW c \in Calls PROVE \E r \in Requests, k \in Contexts : call[c] = New(r, k)
  <2>1. call[c] \in {New(r, k) : r \in Requests, k \in Contexts}
    BY DEF Init
  <2> QED
    BY <2>1
<1>2. call \in [Calls -> CallType]
  BY NewType DEF Init
<1>3. Types
  BY <1>2 DEF Init, Types
<1>4. \A r \in Requests, k \in Contexts : Story(New(r, k), <<>>)
  BY DEF Story, New
<1>5. Stories
  <2>1. ASSUME NEW c \in Calls PROVE Story(call[c], trail[c])
    <3>1. PICK r \in Requests, k \in Contexts : call[c] = New(r, k)
      BY <1>1
    <3>2. trail[c] = <<>>
      BY DEF Init
    <3> QED
      BY <1>4, <3>1, <3>2
  <2> QED
    BY <2>1 DEF Stories
<1>6. Holders /\ Payers
  BY DEF Holders, Payers, Init
<1> QED
  BY <1>3, <1>5, <1>6 DEF BrokerInv

(* A step of c: the locks it moves are its own, or are given back.         *)
LEMMA StepOf ==
  ASSUME BrokerInv, NEW c \in Calls, NEW x \in CallType, call' = [call EXCEPT ![c] = x],
         trail' \in [Calls -> Seq(Outcomes)], \A d \in Calls : d # c => trail'[d] = trail[d],
         Story(x, trail'[c]),
         context' \in [Contexts -> [exists: BOOLEAN, lock: Calls \cup {None}]],
         \A k \in Contexts : context'[k].lock \in {context[k].lock, None, c},
         \A k \in Contexts : context'[k].lock = c => x.context = k /\ Holds(x),
         sandbox' \in [Calls -> {"none", "live", "gone"}],
         \A d \in Calls : d # c => sandbox'[d] = sandbox[d],
         sandbox'[c] = "live" => Pays(x)
  PROVE  BrokerInv'
<1>0. Types /\ Stories /\ Holders /\ Payers
  BY DEF BrokerInv
<1>1. /\ call' \in [Calls -> CallType] /\ call'[c] = x
      /\ \A d \in Calls : d # c => call'[d] = call[d]
  BY <1>0, Moved DEF Types
<1>2. Types'
  BY <1>1 DEF Types
<1>3. Stories'
  <2>1. ASSUME NEW d \in Calls PROVE Story(call'[d], trail'[d])
    BY <1>0, <1>1 DEF Stories
  <2> QED
    BY <2>1 DEF Stories, Story
<1>4. Holders'
  <2>1. ASSUME NEW k \in Contexts, context'[k].lock # None
        PROVE  call'[context'[k].lock].context = k /\ Holds(call'[context'[k].lock])
    <3>1. CASE context'[k].lock = c
      BY <1>1, <3>1
    <3>2. CASE context'[k].lock # c
      <4> DEFINE d == context[k].lock
      <4>1. context'[k].lock = d /\ d # None /\ d # c
        BY <2>1, <3>2
      <4>2. d \in Calls /\ call[d].context = k /\ Holds(call[d])
        BY <1>0, <4>1 DEF Types, Holders
      <4> HIDE DEF d
      <4>3. call'[d].context = k /\ Holds(call'[d])
        BY <1>1, <4>1, <4>2
      <4> QED
        BY <4>1, <4>3
    <3> QED
      BY <3>1, <3>2
  <2> QED
    BY <2>1 DEF Holders, Holds
<1>5. Payers'
  <2>1. ASSUME NEW d \in Calls, sandbox'[d] = "live" PROVE Pays(call'[d])
    BY <1>0, <1>1, <2>1 DEF Payers
  <2> QED
    BY <2>1 DEF Payers, Pays
<1> QED
  BY <1>2, <1>3, <1>4, <1>5 DEF BrokerInv

(* A step of c that leaves the locks and the sandboxes alone.              *)
LEMMA Alone ==
  ASSUME BrokerInv, NEW c \in Calls, NEW x \in CallType, call' = [call EXCEPT ![c] = x],
         trail' \in [Calls -> Seq(Outcomes)], \A d \in Calls : d # c => trail'[d] = trail[d],
         Story(x, trail'[c]),
         context' = context, sandbox' = sandbox,
         Holds(call[c]) => x.context = call[c].context /\ Holds(x),
         Pays(call[c]) => Pays(x)
  PROVE  BrokerInv'
<1>0. Types /\ Stories /\ Holders /\ Payers
  BY DEF BrokerInv
<1>1. \A k \in Contexts : context'[k].lock \in {context[k].lock, None, c}
  OBVIOUS
<1>2. \A k \in Contexts : context'[k].lock = c => x.context = k /\ Holds(x)
  BY <1>0 DEF Holders, BrokerAssumption
<1>3. sandbox'[c] = "live" => Pays(x)
  BY <1>0 DEF Payers
<1>4. /\ context' \in [Contexts -> [exists: BOOLEAN, lock: Calls \cup {None}]]
      /\ sandbox' \in [Calls -> {"none", "live", "gone"}]
      /\ \A d \in Calls : d # c => sandbox'[d] = sandbox[d]
  BY <1>0 DEF Types
<1> QED
  BY <1>1, <1>2, <1>3, <1>4, StepOf

LEMMA Recordings ==
  ASSUME NEW t \in Seq(Outcomes), NEW o \in Outcomes
  PROVE  Append(t, o) \in Seq(Outcomes)
  OBVIOUS

LEMMA Appended ==
  ASSUME NEW S, NEW s \in Seq(S), NEW b \in S, NEW t \in Seq(S),
         Len(t) = Len(s) + 1, t[Len(t)] = b, \A i \in 1 .. Len(s) : t[i] = s[i]
  PROVE  Append(s, b) = t
<1> DEFINE u == Append(s, b)
<1>1. /\ u \in Seq(S) /\ Len(u) = Len(s) + 1 /\ u[Len(s) + 1] = b
      /\ \A i \in 1 .. Len(s) : u[i] = s[i]
  BY AppendProperties
<1>2. Len(s) \in Nat
  OBVIOUS
<1> HIDE DEF u
<1>3. \A i \in 1 .. Len(u) : u[i] = t[i]
  BY <1>1, <1>2
<1>4. u = t
  BY <1>1, <1>3, SeqEqual
<1> QED
  BY <1>4 DEF u

LEMMA AppendToOne ==
  ASSUME NEW a \in Outcomes, NEW b \in Outcomes
  PROVE  Append(<<a>>, b) = <<a, b>>
<1> DEFINE s == <<a>>
           t == <<a, b>>
<1>1. /\ s \in Seq(Outcomes) /\ t \in Seq(Outcomes) /\ Len(s) = 1 /\ Len(t) = 2
      /\ s[1] = a /\ t[1] = a /\ t[2] = b
  OBVIOUS
<1> HIDE DEF s, t
<1>2. Len(t) = Len(s) + 1 /\ t[Len(t)] = b /\ \A i \in 1 .. Len(s) : t[i] = s[i]
  BY <1>1
<1>3. Append(s, b) = t
  BY <1>1, <1>2, Appended
<1> QED
  BY <1>3 DEF s, t

LEMMA AppendToTwo ==
  ASSUME NEW a \in Outcomes, NEW b \in Outcomes, NEW d \in Outcomes
  PROVE  Append(<<a, b>>, d) = <<a, b, d>>
<1> DEFINE s == <<a, b>>
           t == <<a, b, d>>
<1>1. /\ s \in Seq(Outcomes) /\ t \in Seq(Outcomes) /\ Len(s) = 2 /\ Len(t) = 3
      /\ s[1] = a /\ s[2] = b /\ t[1] = a /\ t[2] = b /\ t[3] = d
  OBVIOUS
<1> HIDE DEF s, t
<1>2. Len(t) = Len(s) + 1 /\ t[Len(t)] = d /\ \A i \in 1 .. Len(s) : t[i] = s[i]
  BY <1>1
<1>3. Append(s, d) = t
  BY <1>1, <1>2, Appended
<1> QED
  BY <1>3 DEF s, t

LEMMA DoneStep ==
  ASSUME call \in [Calls -> CallType], NEW c \in Calls, Done(c)
  PROVE  \E x \in CallType :
           /\ call' = [call EXCEPT ![c] = x]
           /\ x.pc = "success" /\ x.done /\ x.touched
           /\ x.ask = call[c].ask /\ x.context = call[c].context /\ x.session = call[c].session
           /\ x.answer = call[c].answer /\ x.lost = call[c].lost /\ x.kept = call[c].kept
<1> DEFINE x == [call[c] EXCEPT !.pc = "success", !.done = TRUE, !.touched = TRUE]
<1>1. call' = [call EXCEPT ![c] = x]
  BY DEF Done
<1>2. call[c] \in CallType
  OBVIOUS
<1>3. x \in CallType
  BY <1>2 DEF CallType, Outcomes
<1>4. /\ x.pc = "success" /\ x.done /\ x.touched
      /\ x.ask = call[c].ask /\ x.context = call[c].context /\ x.session = call[c].session
      /\ x.answer = call[c].answer /\ x.lost = call[c].lost /\ x.kept = call[c].kept
  BY <1>2 DEF CallType
<1> HIDE DEF x
<1> QED
  BY <1>1, <1>3, <1>4

LEMMA ThrowsStep ==
  ASSUME call \in [Calls -> CallType], NEW c \in Calls, NEW touched \in BOOLEAN, Throws(c, touched)
  PROVE  \E x \in CallType :
           /\ call' = [call EXCEPT ![c] = x]
           /\ x.pc = "failure" /\ x.done = call[c].done
           /\ x.ask = call[c].ask /\ x.context = call[c].context /\ x.session = call[c].session
           /\ x.answer = call[c].answer /\ x.lost = call[c].lost /\ x.kept = call[c].kept
<1> DEFINE u == call[c].touched \/ touched
           x == [call[c] EXCEPT !.pc = "failure", !.touched = u]
<1>1. call' = [call EXCEPT ![c] = x]
  BY DEF Throws
<1>2. call[c] \in CallType /\ u \in BOOLEAN
  BY DEF CallType
<1> HIDE DEF u
<1>3. x \in CallType
  BY <1>2 DEF CallType, Outcomes
<1>4. /\ x.pc = "failure" /\ x.done = call[c].done
      /\ x.ask = call[c].ask /\ x.context = call[c].context /\ x.session = call[c].session
      /\ x.answer = call[c].answer /\ x.lost = call[c].lost /\ x.kept = call[c].kept
  BY <1>2 DEF CallType
<1> HIDE DEF x
<1> QED
  BY <1>1, <1>3, <1>4

LEMMA Finishes ==
  ASSUME call \in [Calls -> CallType], NEW c \in Calls,
         Done(c) \/ Throws(c, TRUE) \/ Throws(c, FALSE)
  PROVE  \E x \in CallType :
           /\ call' = [call EXCEPT ![c] = x]
           /\ (x.pc = "success" /\ x.done) \/ (x.pc = "failure" /\ x.done = call[c].done)
           /\ x.ask = call[c].ask /\ x.context = call[c].context /\ x.session = call[c].session
           /\ x.answer = call[c].answer /\ x.lost = call[c].lost /\ x.kept = call[c].kept
<1>1. CASE Done(c)
  BY <1>1, DoneStep
<1>2. CASE Throws(c, TRUE)
  BY <1>2, ThrowsStep
<1>3. CASE Throws(c, FALSE)
  BY <1>3, ThrowsStep
<1> QED
  BY <1>1, <1>2, <1>3

LEMMA MadeStep ==
  ASSUME Types, NEW k \in Contexts
  PROVE  /\ Made(k) \in [Contexts -> [exists: BOOLEAN, lock: Calls \cup {None}]]
         /\ \A j \in Contexts : Made(k)[j].lock = context[j].lock
<1> DEFINE e == [context[k] EXCEPT !.exists = TRUE]
<1>1. Made(k) = [context EXCEPT ![k] = e]
  BY DEF Made
<1>2. e \in [exists: BOOLEAN, lock: Calls \cup {None}] /\ e.lock = context[k].lock
  <2>1. context[k] \in [exists: BOOLEAN, lock: Calls \cup {None}]
    BY DEF Types
  <2> QED
    BY <2>1
<1> HIDE DEF e
<1> QED
  BY <1>1, <1>2 DEF Types

(* The lock of a context goes to a call or to nobody.                      *)
LEMMA LockStep ==
  ASSUME NEW f \in [Contexts -> [exists: BOOLEAN, lock: Calls \cup {None}]],
         NEW k \in Contexts, NEW h \in Calls \cup {None}
  PROVE  /\ [f EXCEPT ![k].lock = h] \in [Contexts -> [exists: BOOLEAN, lock: Calls \cup {None}]]
         /\ [f EXCEPT ![k].lock = h][k].lock = h
         /\ \A j \in Contexts : j # k => [f EXCEPT ![k].lock = h][j].lock = f[j].lock
<1> DEFINE e == [f[k] EXCEPT !.lock = h]
<1>1. [f EXCEPT ![k].lock = h] = [f EXCEPT ![k] = e]
  OBVIOUS
<1>2. e \in [exists: BOOLEAN, lock: Calls \cup {None}] /\ e.lock = h
  <2>1. f[k] \in [exists: BOOLEAN, lock: Calls \cup {None}]
    OBVIOUS
  <2> QED
    BY <2>1
<1> HIDE DEF e
<1> QED
  BY <1>1, <1>2

(* What becomes of a call that was allowed and is carried out.             *)
LEMMA Acting ==
  ASSUME NEW y \in CallType, NEW x \in CallType, NEW t, Story(y, t),
         y.pc \in {"act", "attach", "running"},
         x.answer = y.answer, x.lost = y.lost,
         \/ x.pc = "success" /\ x.done
         \/ x.pc = "failure" /\ x.done = y.done
         \/ x.pc \in {"attach", "running"} /\ x.done = y.done /\ x.kept = y.kept
  PROVE  Story(x, t) /\ t = <<"allow">> /\ ~y.done
<1>1. t = <<"allow">> /\ ~y.done /\ ~y.lost /\ ~y.kept /\ y.answer = "none"
  BY DEF Story, CallType
<1> QED
  BY <1>1 DEF Story

LEMMA NextBroker == BrokerInv /\ [Next]_vars => BrokerInv'
<1> SUFFICES ASSUME BrokerInv, [Next]_vars
             PROVE  BrokerInv'
  OBVIOUS
<1>0. Types /\ Stories /\ Holders /\ Payers
  BY DEF BrokerInv
<1>1. ASSUME NEW c \in Calls
      PROVE  call[c] \in CallType /\ Story(call[c], trail[c])
  BY <1>0 DEF Types, Stories
<1>2. ASSUME NEW c \in Calls, NEW s \in Calls \cup {None}, Submit(c, s)
      PROVE  BrokerInv'
  <2> DEFINE refused == SizeCounts(c) /\ Ask(c).size = "unparsable"
             x == [call[c] EXCEPT !.session = s,
                                  !.context = IF s = None THEN @ ELSE call[s].context,
                                  !.pc = IF refused THEN "answered" ELSE "enforce",
                                  !.answer = IF refused THEN "error" ELSE @]
  <2>1. call' = [call EXCEPT ![c] = x] /\ UNCHANGED <<trail, context, sandbox>> /\ call[c].pc = "idle"
    BY <1>2 DEF Submit
  <2>2. x \in CallType
    <3>1. s # None => call[s].context \in Contexts
      BY <1>1 DEF CallType
    <3> DEFINE k == IF s = None THEN call[c].context ELSE call[s].context
               p == IF refused THEN "answered" ELSE "enforce"
               a == IF refused THEN "error" ELSE call[c].answer
    <3>2. k \in Contexts /\ p \in {"answered", "enforce"} /\ a \in {"none", "ok", "error"}
      BY <1>1, <3>1 DEF CallType
    <3>3. x = [call[c] EXCEPT !.session = s, !.context = k, !.pc = p, !.answer = a]
      OBVIOUS
    <3> HIDE DEF x, k, p, a, refused
    <3> QED
      BY <1>1, <3>2, <3>3 DEF CallType
  <2>3. /\ x.ask = call[c].ask /\ x.touched = call[c].touched /\ x.done = call[c].done
        /\ x.lost = call[c].lost /\ x.kept = call[c].kept
        /\ x.pc = IF refused THEN "answered" ELSE "enforce"
        /\ x.answer = IF refused THEN "error" ELSE call[c].answer
    BY <1>1 DEF CallType
  <2>4. refused => call[c].ask.size = "unparsable"
    BY DEF Ask
  <2>5. /\ trail[c] = <<>> /\ ~call[c].touched /\ ~call[c].done /\ ~call[c].lost /\ ~call[c].kept
        /\ call[c].answer = "none"
    BY <1>1, <2>1 DEF Story, CallType
  <2> HIDE DEF x, refused
  <2>6. Story(x, trail[c])
    <3>1. CASE refused
      BY <2>3, <2>4, <2>5, <3>1 DEF Story
    <3>2. CASE ~refused
      BY <2>3, <2>5, <3>2 DEF Story
    <3> QED
      BY <3>1, <3>2
  <2>7. Pays(call[c]) => Pays(x)
    BY <2>3 DEF Pays
  <2>8. ~Holds(call[c])
    BY <2>1, <2>5 DEF Holds
  <2>9. trail' = trail /\ context' = context /\ sandbox' = sandbox
    BY <2>1
  <2>10. trail' \in [Calls -> Seq(Outcomes)] /\ Story(x, trail'[c])
    BY <1>0, <2>6, <2>9 DEF Types
  <2> QED
    BY <2>1, <2>2, <2>7, <2>8, <2>9, <2>10, Alone
<1>3. ASSUME NEW c \in Calls, Enforce(c)
      PROVE  BrokerInv'
  <2>1. PICK p \in {"allow", "deny", "failure"} : call' = [call EXCEPT ![c].pc = p]
    BY <1>3 DEF Enforce, Goes
  <2> DEFINE x == [call[c] EXCEPT !.pc = p]
  <2>2. call' = [call EXCEPT ![c] = x] /\ call[c].pc = "enforce" /\ x.pc = p
    BY <1>1, <1>3, <2>1 DEF Enforce, CallType
  <2>3. trail' = trail /\ context' = context /\ sandbox' = sandbox
    BY <1>3 DEF Enforce
  <2>4. x \in CallType
    BY <1>1 DEF CallType, Outcomes
  <2>5. /\ x.ask = call[c].ask /\ x.touched = call[c].touched /\ x.done = call[c].done
        /\ x.lost = call[c].lost /\ x.kept = call[c].kept /\ x.answer = call[c].answer
        /\ x.context = call[c].context
    BY <1>1 DEF CallType
  <2> HIDE DEF x
  <2>6. Story(x, trail[c])
    BY <1>1, <2>2, <2>5 DEF Story
  <2>7. (Pays(call[c]) => Pays(x)) /\ ~Holds(call[c])
    BY <1>1, <2>2, <2>5 DEF Pays, Holds, Story
  <2>8. trail' \in [Calls -> Seq(Outcomes)] /\ Story(x, trail'[c])
    BY <1>0, <2>3, <2>6 DEF Types
  <2> QED
    BY <2>2, <2>3, <2>4, <2>7, <2>8, Alone
<1>4. ASSUME NEW c \in Calls, NEW landed \in BOOLEAN, NEW written \in BOOLEAN,
             Record(c, landed, written)
      PROVE  BrokerInv'
  <2> DEFINE next == After(call[c].pc, written)
             p == IF next \in {"ok", "error"} THEN "answered" ELSE next
             a == IF next \in {"ok", "error"} THEN next ELSE call[c].answer
             l == call[c].lost \/ ~written
             x == [call[c] EXCEPT !.pc = p, !.answer = a, !.lost = l]
  <2>1. /\ call' = [call EXCEPT ![c] = x] /\ context' = context /\ sandbox' = sandbox
        /\ call[c].pc \in Outcomes /\ (written => landed)
        /\ trail' = IF landed THEN [trail EXCEPT ![c] = Append(@, call[c].pc)] ELSE trail
    BY <1>4 DEF Record
  <2>2. /\ call[c].pc = "allow" => next = IF written THEN "act" ELSE "error"
        /\ call[c].pc = "success" => next = IF written THEN "ok" ELSE "failure"
        /\ call[c].pc \in {"deny", "failure"} => next = "error"
    BY DEF After
  <2>3. p \in {"act", "answered", "failure"} /\ a \in {"none", "ok", "error"} /\ l \in BOOLEAN
    BY <1>1, <2>1, <2>2 DEF CallType, Outcomes
  <2>4. x \in CallType
    <3> HIDE DEF p, a, l
    <3> QED
      BY ZenonT(60), <1>1, <2>3 DEF CallType, Outcomes
  <2>5. /\ x.ask = call[c].ask /\ x.touched = call[c].touched /\ x.done = call[c].done
        /\ x.kept = call[c].kept /\ x.context = call[c].context
        /\ x.pc = p /\ x.answer = a /\ x.lost = l
    <3> HIDE DEF p, a, l
    <3> QED
      BY <1>1 DEF CallType
  <2>6. /\ trail' \in [Calls -> Seq(Outcomes)] /\ \A d \in Calls : d # c => trail'[d] = trail[d]
        /\ trail'[c] = IF landed THEN Append(trail[c], call[c].pc) ELSE trail[c]
    BY <1>0, <2>1, Recordings DEF Types
  <2>7. Story(x, trail'[c])
    <3> HIDE DEF x, next
    <3>1. CASE call[c].pc = "allow"
      <4>1. trail[c] = <<>> /\ ~call[c].touched /\ ~call[c].done /\ ~call[c].lost /\ ~call[c].kept
            /\ call[c].answer = "none"
        BY <1>1, <3>1 DEF Story, CallType
      <4>2. trail'[c] = IF landed THEN <<"allow">> ELSE <<>>
        BY <2>6, <3>1, <4>1
      <4>3. CASE written
        BY <2>1, <2>2, <2>5, <3>1, <4>1, <4>2, <4>3 DEF Story
      <4>4. CASE ~written
        BY <2>1, <2>2, <2>5, <3>1, <4>1, <4>2, <4>4 DEF Story
      <4> QED
        BY <4>3, <4>4
    <3>2. CASE call[c].pc = "deny"
      <4>1. trail[c] = <<>> /\ ~call[c].touched /\ ~call[c].done /\ ~call[c].lost
        BY <1>1, <3>2 DEF Story
      <4>2. trail'[c] = IF landed THEN <<"deny">> ELSE <<>>
        BY <2>6, <3>2, <4>1
      <4> QED
        BY <2>1, <2>2, <2>5, <3>2, <4>1, <4>2 DEF Story
    <3>3. CASE call[c].pc = "success"
      <4>1. trail[c] = <<"allow">> /\ call[c].done /\ call[c].answer = "none"
        BY <1>1, <3>3 DEF Story, CallType
      <4>2. trail'[c] = IF landed THEN <<"allow", "success">> ELSE <<"allow">>
        BY <2>6, <3>3, <4>1, AppendToOne DEF Outcomes
      <4>3. CASE written
        BY <2>1, <2>2, <2>5, <3>3, <4>1, <4>2, <4>3 DEF Story
      <4>4. CASE ~written
        BY <2>1, <2>2, <2>5, <3>3, <4>1, <4>2, <4>4 DEF Story
      <4> QED
        BY <4>3, <4>4
    <3>4. CASE call[c].pc = "failure"
      <4>1. \/ trail[c] = <<>> /\ ~call[c].touched /\ ~call[c].done
            \/ trail[c] = <<"allow">> /\ ~call[c].done
            \/ trail[c] = <<"allow">> /\ call[c].done /\ call[c].lost
            \/ trail[c] = <<"allow", "success">> /\ call[c].done /\ call[c].lost
        BY <1>1, <3>4 DEF Story
      <4>2. x.pc = "answered" /\ x.answer = "error" /\ x.done = call[c].done
            /\ x.touched = call[c].touched
            /\ x.lost = (call[c].lost \/ ~written)
        BY <2>2, <2>5, <3>4
      <4>3. CASE trail[c] = <<>> /\ ~call[c].touched /\ ~call[c].done
        <5>1. trail'[c] = IF landed THEN <<"failure">> ELSE <<>>
          BY <2>6, <3>4, <4>3
        <5> QED
          BY <2>1, <4>2, <4>3, <5>1 DEF Story
      <4>4. CASE trail[c] = <<"allow">>
        <5>1. trail'[c] = IF landed THEN <<"allow", "failure">> ELSE <<"allow">>
          BY <2>6, <3>4, <4>4, AppendToOne DEF Outcomes
        <5> QED
          BY <2>1, <4>1, <4>2, <4>4, <5>1 DEF Story
      <4>5. CASE trail[c] = <<"allow", "success">> /\ call[c].done /\ call[c].lost
        <5>1. trail'[c] = IF landed THEN <<"allow", "success", "failure">> ELSE <<"allow", "success">>
          BY <2>6, <3>4, <4>5, AppendToTwo DEF Outcomes
        <5> QED
          BY <2>1, <4>2, <4>5, <5>1 DEF Story
      <4> QED
        BY <4>1, <4>3, <4>4, <4>5
    <3> QED
      BY <2>1, <3>1, <3>2, <3>3, <3>4 DEF Outcomes
  <2> HIDE DEF x
  <2>8. (Pays(call[c]) => Pays(x)) /\ (Holds(call[c]) => Holds(x))
    BY <2>1, <2>5 DEF Pays, Holds, Outcomes
  <2> QED
    BY <2>1, <2>4, <2>5, <2>6, <2>7, <2>8, Alone
<1>5. ASSUME NEW c \in Calls, Create(c)
      PROVE  BrokerInv'
  <2>1. /\ call[c].pc = "act" /\ call[c].ask.action = "context.create"
        /\ trail' = trail /\ sandbox' = sandbox
        /\ context' = Made(call[c].context) \/ context' = context
        /\ Done(c) \/ Throws(c, TRUE) \/ Throws(c, FALSE)
    BY <1>5 DEF Create, At, Ask
  <2>2. PICK x \in CallType :
               /\ call' = [call EXCEPT ![c] = x]
               /\ (x.pc = "success" /\ x.done) \/ (x.pc = "failure" /\ x.done = call[c].done)
               /\ x.ask = call[c].ask /\ x.context = call[c].context
               /\ x.answer = call[c].answer /\ x.lost = call[c].lost /\ x.kept = call[c].kept
    BY <1>0, <2>1, Finishes DEF Types
  <2>3. Story(x, trail'[c]) /\ ~call[c].done /\ ~call[c].kept
    BY <1>1, <2>1, <2>2, Acting DEF Story
  <2>4. /\ context' \in [Contexts -> [exists: BOOLEAN, lock: Calls \cup {None}]]
        /\ \A k \in Contexts : context'[k].lock = context[k].lock
    <3>1. call[c].context \in Contexts
      BY <1>1 DEF CallType
    <3> QED
      BY <1>0, <2>1, <3>1, MadeStep DEF Types
  <2>5. \A k \in Contexts : context'[k].lock # c
    BY <1>0, <2>1, <2>3, <2>4 DEF Holders, Holds, BrokerAssumption
  <2>6. sandbox'[c] # "live"
    BY <1>0, <2>1 DEF Payers, Pays
  <2>7. /\ trail' \in [Calls -> Seq(Outcomes)] /\ sandbox' \in [Calls -> {"none", "live", "gone"}]
        /\ \A d \in Calls : trail'[d] = trail[d] /\ sandbox'[d] = sandbox[d]
    BY <1>0, <2>1 DEF Types
  <2> QED
    BY <2>2, <2>3, <2>4, <2>5, <2>6, <2>7, StepOf
<1>6. ASSUME NEW c \in Calls, Read(c)
      PROVE  BrokerInv'
  <2>1. PICK a \in {"ok", "error"} : call' = [call EXCEPT ![c].pc = "answered", ![c].answer = a]
    BY <1>6 DEF Read, Answers
  <2> DEFINE x == [call[c] EXCEPT !.pc = "answered", !.answer = a]
  <2>2. /\ call' = [call EXCEPT ![c] = x] /\ call[c].pc = "act" /\ call[c].ask.action = "context.read"
        /\ trail' = trail /\ context' = context /\ sandbox' = sandbox
    BY <1>6, <2>1 DEF Read, At, Ask
  <2>3. x \in CallType
    BY ZenonT(60), <1>1 DEF CallType
  <2>4. /\ x.ask = call[c].ask /\ x.touched = call[c].touched /\ x.done = call[c].done
        /\ x.lost = call[c].lost /\ x.kept = call[c].kept /\ x.context = call[c].context
        /\ x.pc = "answered" /\ x.answer = a
    BY <1>1 DEF CallType
  <2> HIDE DEF x
  <2>5. Story(x, trail[c]) /\ ~Holds(call[c]) /\ ~Pays(call[c])
    BY <1>1, <2>2, <2>4 DEF Story, Holds, Pays
  <2>6. trail' \in [Calls -> Seq(Outcomes)] /\ Story(x, trail'[c])
    BY <1>0, <2>2, <2>5 DEF Types
  <2> QED
    BY <2>2, <2>3, <2>5, <2>6, Alone
<1>7. ASSUME NEW c \in Calls, Provision(c)
      PROVE  BrokerInv'
  <2>1. /\ call[c].pc = "act" /\ call[c].ask.action \in {"context.run", "context.start"}
        /\ trail' = trail /\ context' = context
        /\ sandbox' = sandbox \/ sandbox' = [sandbox EXCEPT ![c] = "live"]
    BY <1>7 DEF Provision, Ask
  <2>2. PICK x \in CallType :
               /\ call' = [call EXCEPT ![c] = x]
               /\ x.pc \in {"attach", "failure"} /\ x.done = call[c].done
               /\ x.ask = call[c].ask /\ x.context = call[c].context
               /\ x.answer = call[c].answer /\ x.lost = call[c].lost /\ x.kept = call[c].kept
    <3>1. CASE Throws(c, FALSE)
      BY <1>0, <3>1, ThrowsStep DEF Types
    <3>2. CASE \E t \in BOOLEAN : call' = [call EXCEPT ![c].pc = "attach", ![c].touched = t]
      <4> PICK t \in BOOLEAN : call' = [call EXCEPT ![c].pc = "attach", ![c].touched = t]
        BY <3>2
      <4> DEFINE x == [call[c] EXCEPT !.pc = "attach", !.touched = t]
      <4>1. call' = [call EXCEPT ![c] = x]
        OBVIOUS
      <4>2. x \in CallType
        BY <1>1 DEF CallType
      <4>3. /\ x.pc = "attach" /\ x.done = call[c].done
            /\ x.ask = call[c].ask /\ x.context = call[c].context
            /\ x.answer = call[c].answer /\ x.lost = call[c].lost /\ x.kept = call[c].kept
        BY <1>1 DEF CallType
      <4> HIDE DEF x
      <4> QED
        BY <4>1, <4>2, <4>3
    <3>3. CASE Goes(c, "attach")
      <4> DEFINE x == [call[c] EXCEPT !.pc = "attach"]
      <4>1. call' = [call EXCEPT ![c] = x]
        BY <3>3 DEF Goes
      <4>2. x \in CallType
        BY <1>1 DEF CallType
      <4>3. /\ x.pc = "attach" /\ x.done = call[c].done
            /\ x.ask = call[c].ask /\ x.context = call[c].context
            /\ x.answer = call[c].answer /\ x.lost = call[c].lost /\ x.kept = call[c].kept
        BY <1>1 DEF CallType
      <4> HIDE DEF x
      <4> QED
        BY <4>1, <4>2, <4>3
    <3> QED
      BY <1>7, <3>1, <3>2, <3>3 DEF Provision
  <2>3. Story(x, trail'[c]) /\ ~call[c].done /\ ~call[c].kept /\ ~Holds(call[c]) /\ Pays(x)
    BY <1>1, <2>1, <2>2 DEF Story, Holds, Pays, CallType
  <2>4. \A k \in Contexts : context'[k].lock # c
    BY <1>0, <2>1, <2>3 DEF Holders, BrokerAssumption
  <2>5. /\ trail' \in [Calls -> Seq(Outcomes)] /\ sandbox' \in [Calls -> {"none", "live", "gone"}]
        /\ context' \in [Contexts -> [exists: BOOLEAN, lock: Calls \cup {None}]]
        /\ \A k \in Contexts : context'[k].lock = context[k].lock
        /\ \A d \in Calls : trail'[d] = trail[d] /\ (d # c => sandbox'[d] = sandbox[d])
    BY <1>0, <2>1 DEF Types
  <2>6. \A k \in Contexts : context'[k].lock \in {context[k].lock, None, c}
    BY <2>5
  <2>7. /\ \A d \in Calls : d # c => trail'[d] = trail[d]
        /\ \A d \in Calls : d # c => sandbox'[d] = sandbox[d]
        /\ sandbox'[c] = "live" => Pays(x)
    BY <2>3, <2>5
  <2>8. \A k \in Contexts : context'[k].lock = c => x.context = k /\ Holds(x)
    BY <2>4
  <2> QED
    BY <2>2, <2>3, <2>5, <2>6, <2>7, <2>8, StepOf
<1>8. ASSUME NEW c \in Calls, Attach(c)
      PROVE  BrokerInv'
  <2> DEFINE k == call[c].context
             there == IF Ask(c).createIfMissing /\ ~context[k].exists THEN Made(k) ELSE context
             locked == [there EXCEPT ![k].lock = c]
  <2>1. call[c].pc = "attach" /\ trail' = trail /\ sandbox' = sandbox /\ k \in Contexts
    BY <1>1, <1>8 DEF Attach, CallType
  <2>2. trail[c] = <<"allow">> /\ ~call[c].done /\ ~call[c].kept /\ ~call[c].lost /\ call[c].answer = "none"
    BY <1>1, <2>1 DEF Story, CallType
  <2>3. /\ there \in [Contexts -> [exists: BOOLEAN, lock: Calls \cup {None}]]
        /\ \A j \in Contexts : there[j].lock = context[j].lock /\ context[j].lock # c
    <3>1. ~Holds(call[c]) /\ c # None
      BY <2>1, <2>2 DEF Holds, BrokerAssumption
    <3>2. \A j \in Contexts : context[j].lock # c
      BY <1>0, <3>1 DEF Holders
    <3>3. context \in [Contexts -> [exists: BOOLEAN, lock: Calls \cup {None}]]
      BY <1>0 DEF Types
    <3> QED
      BY <1>0, <2>1, <3>2, <3>3, MadeStep
  <2>4. /\ locked \in [Contexts -> [exists: BOOLEAN, lock: Calls \cup {None}]]
        /\ locked[k].lock = c /\ \A j \in Contexts : j # k => locked[j].lock = context[j].lock
    BY SMTT(30), <2>1, <2>3, LockStep
  <2>5. /\ trail' \in [Calls -> Seq(Outcomes)] /\ sandbox' \in [Calls -> {"none", "live", "gone"}]
        /\ \A d \in Calls : trail'[d] = trail[d] /\ sandbox'[d] = sandbox[d]
    BY <1>0, <2>1 DEF Types
  <2>6. sandbox[c] = "live" => Pays(call[c])
    BY <1>0 DEF Payers
  <2>7. CASE /\ context' = context \/ context' = there
                \/ context' = [locked EXCEPT ![k] = Released(c, locked[k])]
             /\ Throws(c, TRUE) \/ Throws(c, FALSE)
    <3>1. PICK x \in CallType :
               /\ call' = [call EXCEPT ![c] = x]
               /\ (x.pc = "success" /\ x.done) \/ (x.pc = "failure" /\ x.done = call[c].done)
               /\ x.ask = call[c].ask /\ x.context = call[c].context
               /\ x.answer = call[c].answer /\ x.lost = call[c].lost /\ x.kept = call[c].kept
      BY ZenonT(60), <1>0, <2>7, Finishes DEF Types
    <3>2. x.pc = "failure" /\ x.done = call[c].done
      <4>1. call'[c].pc = "failure"
        BY <1>0, <2>7 DEF Throws, Types, CallType
      <4>2. call'[c] = x
        BY <1>0, <3>1 DEF Types
      <4> QED
        BY <3>1, <4>1, <4>2
    <3>3. Story(x, trail'[c])
      BY <1>1, <2>1, <3>1, <3>2, Acting
    <3>4. Pays(call[c]) => Pays(x)
      BY <3>1, <3>2 DEF Pays
    <3>5. /\ context' \in [Contexts -> [exists: BOOLEAN, lock: Calls \cup {None}]]
          /\ \A j \in Contexts : context'[j].lock \in {context[j].lock, None, c} /\ context'[j].lock # c
      <4>1. CASE context' = context
        BY <1>0, <2>3, <4>1 DEF Types
      <4>2. CASE context' = there
        BY <2>3, <4>2
      <4>3. CASE context' = [locked EXCEPT ![k] = Released(c, locked[k])]
        <5> HIDE DEF locked, k
        <5>1. context' = [locked EXCEPT ![k].lock = None]
          BY <4>3 DEF Released
        <5> QED
          BY <2>1, <2>3, <2>4, <5>1, LockStep DEF BrokerAssumption
      <4> QED
        BY SMTT(30), <2>7, <4>1, <4>2, <4>3
    <3> QED
      BY <2>1, <2>5, <2>6, <3>1, <3>3, <3>4, <3>5, StepOf
  <2>8. CASE /\ context' = locked
             /\ \/ Ask(c).action = "context.start" /\ Done(c)
                \/ call' = [call EXCEPT ![c].pc = "running", ![c].touched = TRUE]
                \/ call' = [call EXCEPT ![c].pc = "failure", ![c].touched = TRUE, ![c].kept = TRUE]
    <3>1. PICK x \in CallType :
               /\ call' = [call EXCEPT ![c] = x]
               /\ Holds(x) /\ Story(x, trail[c]) /\ (Pays(call[c]) => Pays(x))
               /\ x.context = call[c].context
      <4>1. CASE Ask(c).action = "context.start" /\ Done(c)
        <5>1. PICK x \in CallType :
                /\ call' = [call EXCEPT ![c] = x]
                /\ x.pc = "success" /\ x.done /\ x.touched
                /\ x.ask = call[c].ask /\ x.context = call[c].context /\ x.session = call[c].session
                /\ x.answer = call[c].answer /\ x.lost = call[c].lost /\ x.kept = call[c].kept
          BY <1>0, <4>1, DoneStep DEF Types
        <5>2. Story(x, trail[c])
          BY <1>1, <2>1, <5>1, Acting
        <5>3. Holds(x) /\ (Pays(call[c]) => Pays(x))
          BY <4>1, <5>1 DEF Holds, Pays, Ask
        <5> QED
          BY <5>1, <5>2, <5>3
      <4>2. CASE call' = [call EXCEPT ![c].pc = "running", ![c].touched = TRUE]
        <5> DEFINE x == [call[c] EXCEPT !.pc = "running", !.touched = TRUE]
        <5>1. call' = [call EXCEPT ![c] = x]
          BY <4>2
        <5>2. x \in CallType
          BY <1>1 DEF CallType
        <5>3. /\ x.pc = "running" /\ x.done = call[c].done
              /\ x.ask = call[c].ask /\ x.context = call[c].context
              /\ x.answer = call[c].answer /\ x.lost = call[c].lost /\ x.kept = call[c].kept
          BY <1>1 DEF CallType
        <5> HIDE DEF x
        <5>4. Holds(x) /\ (Pays(call[c]) => Pays(x))
          <6>1. Holds(x)
            BY <5>3, Zenon DEF Holds
          <6>2. Pays(call[c]) => Pays(x)
            BY <5>3, Zenon DEF Pays
          <6> QED
            BY <6>1, <6>2
        <5>5. Story(x, trail[c])
          BY <1>1, <2>1, <5>2, <5>3, Acting
        <5> QED
          BY <5>1, <5>2, <5>3, <5>4, <5>5
      <4>3. CASE call' = [call EXCEPT ![c].pc = "failure", ![c].touched = TRUE, ![c].kept = TRUE]
        <5> DEFINE x == [call[c] EXCEPT !.pc = "failure", !.touched = TRUE, !.kept = TRUE]
        <5>1. call' = [call EXCEPT ![c] = x]
          BY <4>3
        <5>2. x \in CallType
          BY ZenonT(60), <1>1 DEF CallType, Outcomes
        <5>3. /\ x.pc = "failure" /\ x.done = call[c].done /\ x.kept
              /\ x.ask = call[c].ask /\ x.context = call[c].context
              /\ x.answer = call[c].answer /\ x.lost = call[c].lost
          BY <1>1 DEF CallType
        <5> HIDE DEF x
        <5>4. Holds(x) /\ (Pays(call[c]) => Pays(x))
          <6>1. Holds(x)
            BY <5>3, Zenon DEF Holds
          <6>2. Pays(call[c]) => Pays(x)
            BY <5>3, Zenon DEF Pays
          <6> QED
            BY <6>1, <6>2
        <5>5. Story(x, trail[c])
          BY <1>1, <2>1, <5>2, <5>3, Acting
        <5> QED
          BY <5>1, <5>2, <5>3, <5>4, <5>5
      <4> QED
        BY <2>8, <4>1, <4>2, <4>3
    <3>2. \A j \in Contexts : /\ context'[j].lock \in {context[j].lock, None, c}
                              /\ context'[j].lock = c => x.context = j
      BY <2>3, <2>4, <2>8, <3>1
    <3>3. context' \in [Contexts -> [exists: BOOLEAN, lock: Calls \cup {None}]]
      BY <2>4, <2>8
    <3>4. Story(x, trail'[c]) /\ (sandbox'[c] = "live" => Pays(x))
      BY <2>1, <2>6, <3>1
    <3> QED
      BY <2>5, <3>1, <3>2, <3>3, <3>4, StepOf
  <2> QED
    BY <1>8, <2>7, <2>8 DEF Attach
<1>9. ASSUME NEW c \in Calls, RunEnds(c)
      PROVE  BrokerInv'
  <2> DEFINE k == call[c].context
  <2>1. PICK kept \in BOOLEAN, ok \in BOOLEAN :
               /\ context' = IF ~kept /\ context[k].lock = c
                             THEN [context EXCEPT ![k] = Released(c, @)] ELSE context
               /\ call' = [call EXCEPT ![c].pc = IF ok THEN "success" ELSE "failure",
                                       ![c].done = ok, ![c].kept = kept]
    BY <1>9 DEF RunEnds
  <2>2. /\ call[c].pc = "running" /\ trail' = trail /\ sandbox' = [sandbox EXCEPT ![c] = "gone"]
        /\ k \in Contexts
    BY <1>1, <1>9 DEF RunEnds, CallType
  <2> DEFINE p == IF ok THEN "success" ELSE "failure"
             x == [call[c] EXCEPT !.pc = p, !.done = ok, !.kept = kept]
  <2>3. call' = [call EXCEPT ![c] = x]
    BY <2>1
  <2>4. p \in Outcomes /\ ((p = "success" /\ ok) \/ (p = "failure" /\ ~ok))
    BY DEF Outcomes
  <2>5. x \in CallType
    <3> HIDE DEF p
    <3> QED
      BY <1>1, <2>4 DEF CallType
  <2>6. /\ x.pc = p /\ x.done = ok /\ x.kept = kept
        /\ x.ask = call[c].ask /\ x.context = k
        /\ x.answer = call[c].answer /\ x.lost = call[c].lost
    <3> HIDE DEF p
    <3> QED
      BY <1>1 DEF CallType
  <2> HIDE DEF x, p
  <2>7. Story(x, trail'[c])
    <3>1. ~call[c].done
      BY <1>1, <2>2 DEF Story
    <3>2. CASE ok
      BY <1>1, <2>2, <2>4, <2>5, <2>6, <3>2, Acting
    <3>3. CASE ~ok
      <4>1. x.pc = "failure" /\ x.done = call[c].done
        BY <1>1, <2>4, <2>6, <3>1, <3>3 DEF CallType
      <4> QED
        BY <1>1, <2>2, <2>5, <2>6, <4>1, Acting
    <3> QED
      BY <3>2, <3>3
  <2>8. /\ context' \in [Contexts -> [exists: BOOLEAN, lock: Calls \cup {None}]]
        /\ \A j \in Contexts : context'[j].lock \in {context[j].lock, None, c}
        /\ \A j \in Contexts : context'[j].lock = c => x.context = j /\ Holds(x)
    <3>1. \A j \in Contexts : context[j].lock = c => j = k
      BY <1>0 DEF Holders, BrokerAssumption
    <3>2. CASE ~kept /\ context[k].lock = c
      <4>1. context' = [context EXCEPT ![k].lock = None]
        BY <2>1, <3>2 DEF Released
      <4> HIDE DEF k
      <4> QED
        BY <1>0, <2>2, <3>1, <4>1, LockStep DEF Types, BrokerAssumption
    <3>3. CASE ~(~kept /\ context[k].lock = c)
      <4>1. context' = context
        BY <2>1, <3>3
      <4>2. \A j \in Contexts : context[j].lock = c => j = k /\ kept
        BY <3>1, <3>3
      <4>3. kept => Holds(x)
        BY <2>6, Zenon DEF Holds
      <4> QED
        BY <1>0, <2>6, <4>1, <4>2, <4>3 DEF Types
    <3> QED
      BY <3>2, <3>3
  <2>9. /\ trail' \in [Calls -> Seq(Outcomes)] /\ sandbox' \in [Calls -> {"none", "live", "gone"}]
        /\ \A d \in Calls : d # c => trail'[d] = trail[d] /\ sandbox'[d] = sandbox[d]
        /\ sandbox'[c] # "live"
    BY <1>0, <2>2 DEF Types
  <2> QED
    BY <2>3, <2>5, <2>7, <2>8, <2>9, StepOf
<1>10. ASSUME NEW c \in Calls, Save(c) \/ End(c)
       PROVE  BrokerInv'
  <2> DEFINE k == call[c].context
  <2>1. /\ call[c].pc = "act" /\ call[c].ask.action \in {"context.save", "context.end"}
        /\ trail' = trail /\ sandbox' = sandbox /\ k \in Contexts
        /\ context' = context \/ context' = [context EXCEPT ![k].lock = None]
        /\ Done(c) \/ Throws(c, TRUE) \/ Throws(c, FALSE)
    BY <1>1, <1>10 DEF Save, End, At, Ask, CallType
  <2>2. PICK x \in CallType :
               /\ call' = [call EXCEPT ![c] = x]
               /\ (x.pc = "success" /\ x.done) \/ (x.pc = "failure" /\ x.done = call[c].done)
               /\ x.ask = call[c].ask /\ x.context = call[c].context
               /\ x.answer = call[c].answer /\ x.lost = call[c].lost /\ x.kept = call[c].kept
    BY <1>0, <2>1, Finishes DEF Types
  <2>3. Story(x, trail'[c]) /\ ~Holds(call[c]) /\ ~Pays(call[c])
    <3>1. Story(x, trail[c]) /\ ~call[c].done
      BY <1>1, <2>1, <2>2, Acting
    <3> QED
      BY <1>1, <2>1, <3>1 DEF Story, Holds, Pays
  <2>4. \A j \in Contexts : context[j].lock # c
    BY <1>0, <2>3 DEF Holders, BrokerAssumption
  <2>5. /\ context' \in [Contexts -> [exists: BOOLEAN, lock: Calls \cup {None}]]
        /\ \A j \in Contexts : context'[j].lock \in {context[j].lock, None, c} /\ context'[j].lock # c
    <3>1. CASE context' = context
      BY <1>0, <2>4, <3>1 DEF Types
    <3>2. CASE context' = [context EXCEPT ![k].lock = None]
      <4> HIDE DEF k
      <4> QED
        <5>1. context \in [Contexts -> [exists: BOOLEAN, lock: Calls \cup {None}]] /\ None # c
          BY <1>0 DEF Types, BrokerAssumption
        <5>2. /\ context' \in [Contexts -> [exists: BOOLEAN, lock: Calls \cup {None}]]
              /\ context'[k].lock = None
              /\ \A j \in Contexts : j # k => context'[j].lock = context[j].lock
          BY <2>1, <3>2, <5>1, LockStep
        <5> QED
          BY <2>4, <5>1, <5>2
    <3> QED
      BY <2>1, <3>1, <3>2
  <2>6. /\ trail' \in [Calls -> Seq(Outcomes)] /\ sandbox' \in [Calls -> {"none", "live", "gone"}]
        /\ \A d \in Calls : trail'[d] = trail[d] /\ sandbox'[d] = sandbox[d]
    BY <1>0, <2>1 DEF Types
  <2>7. sandbox'[c] # "live"
    BY <1>0, <2>1, <2>3 DEF Payers
  <2> QED
    BY <2>2, <2>3, <2>5, <2>6, <2>7, StepOf
<1>11. ASSUME NEW k \in Contexts, Lapse(k)
       PROVE  BrokerInv'
  <2>1. /\ context' = [context EXCEPT ![k].lock = None]
        /\ call' = call /\ trail' = trail /\ sandbox' = sandbox
    BY <1>11 DEF Lapse
  <2>2. /\ context' \in [Contexts -> [exists: BOOLEAN, lock: Calls \cup {None}]]
        /\ \A j \in Contexts : context'[j].lock \in {context[j].lock, None}
    BY <1>0, <2>1, LockStep DEF Types
  <2>3. Types' /\ Stories' /\ Payers'
    BY <1>0, <2>1, <2>2 DEF Types, Stories, Payers, Story, Pays
  <2>4. Holders'
    BY <1>0, <2>1, <2>2 DEF Holders, Holds
  <2> QED
    BY <2>3, <2>4 DEF BrokerInv
<1>12. CASE UNCHANGED vars
  BY <1>0, <1>12 DEF vars, BrokerInv, Types, Stories, Holders, Payers, Story, Holds, Pays
<1> QED
  BY <1>2, <1>3, <1>4, <1>5, <1>6, <1>7, <1>8, <1>9, <1>10, <1>11, <1>12 DEF Next

LEMMA BrokerKept == Spec => []BrokerInv
  BY InitBroker, NextBroker, PTL DEF Spec

(* Every variable keeps its type, and a call is answered when it has an    *)
(* answer.                                                                 *)
THEOREM TypesKept == Spec => []TypeOK
<1>1. BrokerInv => TypeOK
  BY DEF BrokerInv, Types, Stories, Story, TypeOK
<1> QED
  BY <1>1, BrokerKept, PTL

-----------------------------------------------------------------------------
(* The trail *)

(* What is recorded in a trail of each length.                             *)
LEMMA Nothing ==
  ASSUME NEW c \in Calls, trail[c] = <<>>, NEW o
  PROVE  ~Recorded(c, o)
  BY DEF Recorded

LEMMA One ==
  ASSUME NEW c \in Calls, NEW a, trail[c] = <<a>>, NEW o
  PROVE  Recorded(c, o) <=> o = a
  BY DEF Recorded

LEMMA Two ==
  ASSUME NEW c \in Calls, NEW a, NEW b, trail[c] = <<a, b>>, NEW o
  PROVE  Recorded(c, o) <=> o \in {a, b}
<1>1. Len(trail[c]) = 2 /\ trail[c][1] = a /\ trail[c][2] = b
  OBVIOUS
<1>2. 1 .. 2 = {1, 2}
  OBVIOUS
<1> QED
  BY <1>1, <1>2 DEF Recorded

LEMMA Three ==
  ASSUME NEW c \in Calls, NEW a, NEW b, NEW d, trail[c] = <<a, b, d>>, NEW o
  PROVE  Recorded(c, o) <=> o \in {a, b, d}
<1>1. Len(trail[c]) = 3 /\ trail[c][1] = a /\ trail[c][2] = b /\ trail[c][3] = d
  OBVIOUS
<1>2. 1 .. 3 = {1, 2, 3}
  OBVIOUS
<1> QED
  BY <1>1, <1>2 DEF Recorded

(* The trails there are, and what a call that has one has come to.         *)
LEMMA Trails ==
  ASSUME BrokerInv, NEW c \in Calls
  PROVE  \/ trail[c] = <<>> /\ ~call[c].touched /\ ~call[c].done
         \/ trail[c] = <<"allow">>
         \/ trail[c] \in {<<"deny">>, <<"failure">>} /\ ~call[c].touched /\ ~call[c].done
         \/ trail[c] = <<"allow", "success">> /\ call[c].done
         \/ trail[c] = <<"allow", "failure">> /\ (call[c].done => call[c].lost)
         \/ trail[c] = <<"allow", "success", "failure">> /\ call[c].done /\ call[c].lost
<1>1. Story(call[c], trail[c]) /\ call[c] \in CallType
  BY DEF BrokerInv, Stories, Types
<1>2. CASE call[c].pc \in {"idle", "enforce", "allow", "deny"}
  BY <1>1, <1>2 DEF Story
<1>3. CASE call[c].pc \in {"act", "attach", "running", "success"}
  BY <1>1, <1>3 DEF Story
<1>4. CASE call[c].pc = "failure"
  BY <1>1, <1>4 DEF Story
<1>5. CASE call[c].answer = "ok"
  BY <1>1, <1>5 DEF Story
<1>6. CASE call[c].answer = "error"
  BY <1>1, <1>6 DEF Story
<1>7. call[c].pc = "answered" => call[c].answer \in {"ok", "error"}
  BY <1>1 DEF Story, CallType
<1> QED
  BY <1>1, <1>2, <1>3, <1>4, <1>5, <1>6, <1>7 DEF CallType, Outcomes

(* What the trail says of a call is what became of it.                     *)
THEOREM TrailKept == Spec => []TrailTrue
<1>1. BrokerInv => TrailTrue
  <2> SUFFICES ASSUME BrokerInv, NEW c \in Calls
               PROVE  /\ call[c].touched => Recorded(c, "allow")
                      /\ Recorded(c, "deny") => ~call[c].touched /\ ~Recorded(c, "allow")
                      /\ Recorded(c, "success") => call[c].done
                      /\ Recorded(c, "failure") /\ call[c].done => call[c].lost
    BY DEF TrailTrue
  <2>1. CASE trail[c] = <<>> /\ ~call[c].touched /\ ~call[c].done
    BY <2>1, Nothing
  <2>2. CASE trail[c] = <<"allow">>
    BY <2>2, One
  <2>3. CASE trail[c] \in {<<"deny">>, <<"failure">>} /\ ~call[c].touched /\ ~call[c].done
    BY <2>3, One
  <2>4. CASE trail[c] = <<"allow", "success">> /\ call[c].done
    BY <2>4, Two
  <2>5. CASE trail[c] = <<"allow", "failure">> /\ (call[c].done => call[c].lost)
    BY <2>5, Two
  <2>6. CASE trail[c] = <<"allow", "success", "failure">> /\ call[c].done /\ call[c].lost
    BY <2>6, Three
  <2> QED
    BY <2>1, <2>2, <2>3, <2>4, <2>5, <2>6, Trails
<1> QED
  BY <1>1, BrokerKept, PTL

(* The caller hears what the trail says.                                   *)
THEOREM AnswersKept == Spec => []AnswersTrue
<1>1. BrokerInv => AnswersTrue
  <2> SUFFICES ASSUME BrokerInv, NEW c \in Calls
               PROVE  /\ call[c].answer = "ok" /\ Ask(c).action # "context.read"
                           => trail[c] = <<"allow", "success">> /\ call[c].done
                      /\ call[c].answer = "error"
                           => \/ Recorded(c, "deny") \/ Recorded(c, "failure") \/ call[c].lost
                              \/ trail[c] = <<>> /\ Ask(c).size = "unparsable"
                              \/ trail[c] = <<"allow">> /\ Ask(c).action = "context.read"
    BY DEF AnswersTrue
  <2>1. Story(call[c], trail[c])
    BY DEF BrokerInv, Stories
  <2>2. CASE call[c].answer = "ok"
    BY <2>1, <2>2 DEF Story, Ask
  <2>3. CASE call[c].answer = "error"
    <3>1. trail[c] = <<"deny">> => Recorded(c, "deny")
      BY One
    <3>2. trail[c] = <<"failure">> => Recorded(c, "failure")
      BY One
    <3>3. trail[c] = <<"allow", "failure">> => Recorded(c, "failure")
      BY Two
    <3> QED
      BY <2>1, <2>3, <3>1, <3>2, <3>3 DEF Story, Ask
  <2> QED
    BY <2>2, <2>3
<1> QED
  BY <1>1, BrokerKept, PTL

(* No lock and no sandbox is left without an owner, but for the cases that *)
(* are named.                                                              *)
THEOREM StrandedKept == Spec => []NothingStranded
<1>1. BrokerInv => NothingStranded
  <2> SUFFICES ASSUME BrokerInv PROVE NothingStranded
    OBVIOUS
  <2>1. ASSUME NEW c \in Calls, call[c].pc = "answered", Ask(c).action = "context.start", call[c].done
        PROVE  Started(c)
    <3>1. Story(call[c], trail[c]) /\ call[c] \in CallType
      BY DEF BrokerInv, Stories, Types
    <3>2. call[c].answer = "ok" \/ call[c].answer = "error"
      BY <2>1, <3>1 DEF Story, CallType
    <3>3. call[c].answer = "error" => call[c].lost
      BY <2>1, <3>1 DEF Story, Ask
    <3> QED
      BY <2>1, <3>2, <3>3 DEF Started
  <2>2. ASSUME NEW k \in Contexts, context[k].lock # None, call[context[k].lock].pc = "answered"
        PROVE  call[context[k].lock].kept \/ Started(context[k].lock)
    <3> DEFINE c == context[k].lock
    <3>1. c \in Calls /\ Holds(call[c])
      BY <2>2 DEF BrokerInv, Types, Holders
    <3>2. call[c].kept \/ (Ask(c).action = "context.start" /\ call[c].done)
      BY <2>2, <3>1 DEF Holds, Ask
    <3> QED
      BY <2>1, <2>2, <3>1, <3>2
  <2>3. ASSUME NEW c \in Calls, sandbox[c] = "live", call[c].pc = "answered"
        PROVE  Started(c) \/ ~call[c].done
    <3>1. Pays(call[c])
      BY <2>3 DEF BrokerInv, Payers
    <3> QED
      BY <2>1, <2>3, <3>1 DEF Pays, Ask
  <2> QED
    BY <2>2, <2>3 DEF NothingStranded
<1> QED
  BY <1>1, BrokerKept, PTL

-----------------------------------------------------------------------------
(* Starting and ending *)

Free(c) == Authorized(c) /\ QuotaAvailable(c)

Going == {"allow", "act", "attach", "running", "success"}

(* A call was let through, or turned away, on what it asks for; a session  *)
(* is that of a start that was let through.                                *)
Rights ==
  \A c \in Calls :
    /\ call[c].session # None =>
         /\ call[c].session \in Calls /\ call[call[c].session].answer = "ok"
         /\ Ask(c).action \in {"context.save", "context.end"}
         /\ Ask(call[c].session).action = "context.start"
    /\ call[c].pc = "deny" \/ trail[c] = <<"deny">> => ~Free(c)
    /\ call[c].pc \in Going \/ call[c].answer = "ok" => Free(c)

LEMMA FreeSame ==
  ASSUME BrokerInv, NEW c \in Calls, \A d \in Calls : call'[d].ask = call[d].ask,
         call'[c].session = call[c].session
  PROVE  Free(c)' <=> Free(c)
<1>1. Ask(c)' = Ask(c)
  BY DEF Ask
<1>2. call[c].session \in Calls \cup {None}
  BY DEF BrokerInv, Types, CallType
<1>3. RuntimeOf(c)' = RuntimeOf(c)
  BY <1>1, <1>2 DEF RuntimeOf, AdapterOf, Ask
<1>4. SizeCounts(c)' <=> SizeCounts(c)
  BY <1>1 DEF SizeCounts, Ask
<1>5. Authorized(c)' <=> Authorized(c)
  BY <1>1 DEF Authorized, Ask
<1>6. QuotaAvailable(c)' <=> QuotaAvailable(c)
  BY <1>1, <1>3, <1>4 DEF QuotaAvailable, Ask
<1> QED
  BY <1>5, <1>6 DEF Free

LEMMA RightsStep ==
  ASSUME BrokerInv, Rights, NEW c \in Calls, NEW x \in CallType,
         call'[c] = x, \A d \in Calls : d # c => call'[d] = call[d],
         x.ask = call[c].ask, call[c].answer = "ok" => x.answer = "ok",
         \A d \in Calls : d # c => trail'[d] = trail[d],
         x.session # None =>
           /\ x.session \in Calls /\ x.session # c /\ call[x.session].answer = "ok"
           /\ Ask(c).action \in {"context.save", "context.end"}
           /\ Ask(x.session).action = "context.start",
         x.pc = "deny" \/ trail'[c] = <<"deny">> => x.session = call[c].session /\ ~Free(c),
         x.pc \in Going \/ x.answer = "ok" => x.session = call[c].session /\ Free(c)
  PROVE  Rights'
<1>1. call'[c] = x /\ \A d \in Calls : d # c => call'[d] = call[d]
  OBVIOUS
<1>2. \A d \in Calls : call'[d].ask = call[d].ask
  BY <1>1
<1>3. \A d \in Calls : call[d].answer = "ok" => call'[d].answer = "ok"
  BY <1>1
<1>4. \A d \in Calls : Ask(d)' = Ask(d)
  BY <1>2 DEF Ask
<1>5. ASSUME NEW d \in Calls
      PROVE  /\ call'[d].session # None =>
                  /\ call'[d].session \in Calls /\ call'[call'[d].session].answer = "ok"
                  /\ call'[d].ask.action \in {"context.save", "context.end"}
                  /\ call'[call'[d].session].ask.action = "context.start"
             /\ call'[d].pc = "deny" \/ trail'[d] = <<"deny">> => ~Free(d)'
             /\ call'[d].pc \in Going \/ call'[d].answer = "ok" => Free(d)'
  <2>1. CASE d = c
    <3>1. x.session = call[c].session => (Free(c)' <=> Free(c))
      BY <1>1, <1>2, FreeSame
    <3>2. /\ x.pc = "deny" \/ trail'[c] = <<"deny">> => ~Free(c)'
          /\ x.pc \in Going \/ x.answer = "ok" => Free(c)'
      BY <3>1
    <3>3. x.session # None =>
            /\ x.session \in Calls /\ call'[x.session].answer = "ok"
            /\ call'[c].ask.action \in {"context.save", "context.end"}
            /\ call'[x.session].ask.action = "context.start"
      BY <1>2, <1>3 DEF Ask
    <3> QED
      BY <1>1, <2>1, <3>2, <3>3
  <2>2. CASE d # c
    <3>1. call'[d] = call[d] /\ trail'[d] = trail[d]
      BY <1>1, <2>2
    <3>2. Free(d)' <=> Free(d)
      BY <1>2, <3>1, FreeSame
    <3>3. /\ call[d].pc = "deny" \/ trail[d] = <<"deny">> => ~Free(d)
          /\ call[d].pc \in Going \/ call[d].answer = "ok" => Free(d)
      BY DEF Rights
    <3>4. call[d].session # None =>
            /\ call[d].session \in Calls /\ call'[call[d].session].answer = "ok"
            /\ call'[d].ask.action \in {"context.save", "context.end"}
            /\ call'[call[d].session].ask.action = "context.start"
      BY <1>2, <1>3 DEF Rights, Ask
    <3> QED
      BY <3>1, <3>2, <3>3, <3>4
  <2> QED
    BY <2>1, <2>2
<1> QED
  BY <1>5 DEF Rights, Ask

(* A call that is carried out is no longer to be let through or turned     *)
(* away.                                                                   *)
LEMMA Carried ==
  ASSUME BrokerInv, NEW c \in Calls,
         Create(c) \/ Read(c) \/ Provision(c) \/ Attach(c) \/ RunEnds(c) \/ Save(c) \/ End(c)
  PROVE  /\ call[c].pc \in {"act", "attach", "running"} /\ trail' = trail
         /\ \E x \in CallType : /\ call' = [call EXCEPT ![c] = x] /\ x.pc # "deny"
                                 /\ x.ask = call[c].ask /\ x.session = call[c].session
<1>1. call[c] \in CallType /\ call \in [Calls -> CallType]
  BY DEF BrokerInv, Types
<1>2. call[c].pc \in {"act", "attach", "running"} /\ trail' = trail
  BY DEF Create, Read, Provision, Attach, RunEnds, Save, End, At
<1>3. CASE Done(c) \/ Throws(c, TRUE) \/ Throws(c, FALSE)
  BY <1>1, <1>2, <1>3, Finishes
<1>4. CASE \E a \in {"ok", "error"} : Answers(c, a)
  <2> PICK a \in {"ok", "error"} : Answers(c, a)
    BY <1>4
  <2> DEFINE x == [call[c] EXCEPT !.pc = "answered", !.answer = a]
  <2>1. /\ call' = [call EXCEPT ![c] = x] /\ x \in CallType
        /\ x.pc = "answered" /\ x.ask = call[c].ask /\ x.session = call[c].session
    BY <1>1 DEF Answers, CallType
  <2> HIDE DEF x
  <2> QED
    BY <1>2, <2>1
<1>5. CASE \E p \in {"attach", "running", "success", "failure"}, t, o, k \in BOOLEAN :
             call' = [call EXCEPT ![c].pc = p, ![c].touched = t, ![c].done = o, ![c].kept = k]
  <2> PICK p \in {"attach", "running", "success", "failure"}, t \in BOOLEAN, o \in BOOLEAN, k \in BOOLEAN :
             call' = [call EXCEPT ![c].pc = p, ![c].touched = t, ![c].done = o, ![c].kept = k]
    BY <1>5
  <2> DEFINE x == [call[c] EXCEPT !.pc = p, !.touched = t, !.done = o, !.kept = k]
  <2>1. /\ call' = [call EXCEPT ![c] = x] /\ x \in CallType
        /\ x.pc = p /\ x.ask = call[c].ask /\ x.session = call[c].session
    BY <1>1 DEF CallType, Outcomes
  <2> HIDE DEF x
  <2> QED
    BY <1>2, <2>1
<1> DEFINE y == call[c]
<1>6. CASE Create(c) \/ Save(c) \/ End(c)
  BY <1>3, <1>6 DEF Create, Save, End
<1>7. CASE Read(c)
  BY <1>4, <1>7 DEF Read
<1>8. CASE Provision(c)
  <2>1. CASE Goes(c, "attach")
    <3>1. call' = [call EXCEPT ![c].pc = "attach", ![c].touched = y.touched,
                               ![c].done = y.done, ![c].kept = y.kept]
      BY <1>1, <2>1 DEF Goes, CallType
    <3>2. y.touched \in BOOLEAN /\ y.done \in BOOLEAN /\ y.kept \in BOOLEAN
      BY <1>1 DEF CallType
    <3> QED
      BY <1>5, <3>1, <3>2
  <2>2. CASE call' = [call EXCEPT ![c].pc = "attach", ![c].touched = TRUE]
    <3>1. call' = [call EXCEPT ![c].pc = "attach", ![c].touched = TRUE,
                               ![c].done = y.done, ![c].kept = y.kept]
      BY ZenonT(60), <1>1, <2>2 DEF CallType
    <3>2. y.done \in BOOLEAN /\ y.kept \in BOOLEAN
      BY <1>1 DEF CallType
    <3> QED
      BY <1>5, <3>1, <3>2
  <2> QED
    BY <1>3, <1>8, <2>1, <2>2 DEF Provision
<1>9. CASE Attach(c)
  <2>1. CASE call' = [call EXCEPT ![c].pc = "running", ![c].touched = TRUE]
    <3>1. call' = [call EXCEPT ![c].pc = "running", ![c].touched = TRUE,
                               ![c].done = y.done, ![c].kept = y.kept]
      BY ZenonT(60), <1>1, <2>1 DEF CallType
    <3>2. y.done \in BOOLEAN /\ y.kept \in BOOLEAN
      BY <1>1 DEF CallType
    <3> QED
      BY <1>5, <3>1, <3>2
  <2>2. CASE call' = [call EXCEPT ![c].pc = "failure", ![c].touched = TRUE, ![c].kept = TRUE]
    <3>1. call' = [call EXCEPT ![c].pc = "failure", ![c].touched = TRUE,
                               ![c].done = y.done, ![c].kept = TRUE]
      BY ZenonT(60), <1>1, <2>2 DEF CallType
    <3>2. y.done \in BOOLEAN
      BY <1>1 DEF CallType
    <3> QED
      BY <1>5, <3>1, <3>2
  <2> QED
    BY <1>3, <1>9, <2>1, <2>2 DEF Attach
<1>10. CASE RunEnds(c)
  <2>1. PICK kept \in BOOLEAN, ok \in BOOLEAN :
               call' = [call EXCEPT ![c].pc = IF ok THEN "success" ELSE "failure",
                                    ![c].done = ok, ![c].kept = kept]
    BY <1>10 DEF RunEnds
  <2> DEFINE p == IF ok THEN "success" ELSE "failure"
  <2>2. p \in {"success", "failure"} /\ y.touched \in BOOLEAN
    BY <1>1 DEF CallType
  <2>3. call' = [call EXCEPT ![c].pc = p, ![c].touched = y.touched, ![c].done = ok, ![c].kept = kept]
    BY ZenonT(60), <1>1, <2>1 DEF CallType
  <2> HIDE DEF p
  <2> QED
    BY <1>5, <2>2, <2>3
<1> QED
  BY <1>6, <1>7, <1>8, <1>9, <1>10

LEMMA NoDenial ==
  ASSUME NEW t \in Seq(Outcomes), NEW o \in Outcomes, o # "deny"
  PROVE  Append(t, o) # <<"deny">>
<1> DEFINE u == Append(t, o)
           v == <<"deny">>
<1>1. Len(u) = Len(t) + 1 /\ u[Len(t) + 1] = o /\ Len(t) \in Nat
  BY AppendProperties
<1>2. Len(v) = 1 /\ v[1] = "deny"
  OBVIOUS
<1> HIDE DEF u, v
<1>3. u # v
  BY <1>1, <1>2
<1> QED
  BY <1>3 DEF u, v

LEMMA NextRights == BrokerInv /\ Rights /\ [Next]_vars => Rights'
<1> SUFFICES ASSUME BrokerInv, Rights, [Next]_vars
             PROVE  Rights'
  OBVIOUS
<1>1. ASSUME NEW c \in Calls
      PROVE  /\ call[c] \in CallType /\ Story(call[c], trail[c]) /\ trail[c] \in Seq(Outcomes)
             /\ call[c].pc = "deny" \/ trail[c] = <<"deny">> => ~Free(c)
             /\ call[c].pc \in Going \/ call[c].answer = "ok" => Free(c)
             /\ call[c].session # None =>
                  /\ call[c].session \in Calls /\ call[call[c].session].answer = "ok"
                  /\ Ask(c).action \in {"context.save", "context.end"}
                  /\ Ask(call[c].session).action = "context.start"
  BY DEF BrokerInv, Types, Stories, Rights
<1>2. ASSUME NEW c \in Calls PROVE call[c].session # c
  BY <1>1 DEF Ask
<1>3. ASSUME NEW c \in Calls, NEW s \in Calls \cup {None}, Submit(c, s)
      PROVE  Rights'
  <2> DEFINE refused == SizeCounts(c) /\ Ask(c).size = "unparsable"
             k == IF s = None THEN call[c].context ELSE call[s].context
             p == IF refused THEN "answered" ELSE "enforce"
             a == IF refused THEN "error" ELSE call[c].answer
             x == [call[c] EXCEPT !.session = s, !.context = k, !.pc = p, !.answer = a]
  <2>1. /\ call' = [call EXCEPT ![c] = x] /\ trail' = trail /\ call[c].pc = "idle"
        /\ s # None => /\ s \in Calls /\ s # c /\ call[s].answer = "ok"
                       /\ Ask(c).action \in {"context.save", "context.end"}
                       /\ Ask(s).action = "context.start"
    BY <1>3 DEF Submit
  <2>2. k \in Contexts
    BY <1>1 DEF CallType
  <2>3. trail[c] = <<>> /\ call[c].answer = "none"
    BY <1>1, <2>1 DEF Story, CallType
  <2>4. p \in {"answered", "enforce"} /\ a \in {"none", "error"}
    BY <2>3
  <2> HIDE DEF k, p, a
  <2>a. s \in Calls \cup {None} /\ call[c] \in CallType
    BY <1>1, <1>3
  <2>5. x \in CallType /\ x.session = s /\ x.pc = p /\ x.answer = a /\ x.ask = call[c].ask
    BY <2>a, <2>2, <2>4 DEF CallType
  <2> HIDE DEF x
  <2>b. call'[c] = x /\ \A d \in Calls : d # c => call'[d] = call[d]
    BY <2>1, <2>5, Moved DEF BrokerInv, Types
  <2>6. /\ ~(x.pc = "deny" \/ trail'[c] = <<"deny">>)
        /\ ~(x.pc \in Going \/ x.answer = "ok")
        /\ \A d \in Calls : d # c => trail'[d] = trail[d]
    BY <2>1, <2>3, <2>4, <2>5 DEF Going
  <2>7. x.session # None =>
           /\ x.session \in Calls /\ x.session # c /\ call[x.session].answer = "ok"
           /\ Ask(c).action \in {"context.save", "context.end"}
           /\ Ask(x.session).action = "context.start"
    BY <2>1, <2>5
  <2> QED
    BY <2>b, <2>3, <2>5, <2>6, <2>7, RightsStep
<1>4. ASSUME NEW c \in Calls, Enforce(c)
      PROVE  Rights'
  <2>1. PICK p \in {"allow", "deny", "failure"} :
               /\ call' = [call EXCEPT ![c].pc = p]
               /\ p = "allow" => Free(c)
               /\ p = "deny" => ~Free(c)
    <3>1. CASE Goes(c, "failure")
      BY <3>1 DEF Goes
    <3>2. CASE Goes(c, IF Authorized(c) /\ QuotaAvailable(c) THEN "allow" ELSE "deny")
      <4>1. CASE Free(c)
        BY <3>2, <4>1 DEF Goes, Free
      <4>2. CASE ~Free(c)
        BY <3>2, <4>2 DEF Goes, Free
      <4> QED
        BY <4>1, <4>2
    <3> QED
      BY <1>4, <3>1, <3>2 DEF Enforce
  <2> DEFINE x == [call[c] EXCEPT !.pc = p]
  <2>2. call' = [call EXCEPT ![c] = x] /\ trail' = trail /\ call[c].pc = "enforce"
    BY <1>4, <2>1 DEF Enforce
  <2>3. x \in CallType /\ x.pc = p /\ x.answer = call[c].answer /\ x.ask = call[c].ask
        /\ x.session = call[c].session
    BY <1>1 DEF CallType, Outcomes
  <2>4. trail[c] = <<>> /\ call[c].answer = "none"
    BY <1>1, <2>2 DEF Story, CallType
  <2> HIDE DEF x
  <2>5. /\ x.pc = "deny" \/ trail'[c] = <<"deny">> => x.session = call[c].session /\ ~Free(c)
        /\ x.pc \in Going \/ x.answer = "ok" => x.session = call[c].session /\ Free(c)
        /\ \A d \in Calls : d # c => trail'[d] = trail[d]
    BY <2>1, <2>2, <2>3, <2>4 DEF Going
  <2>b. call'[c] = x /\ \A d \in Calls : d # c => call'[d] = call[d]
    BY <2>2, <2>3, Moved DEF BrokerInv, Types
  <2>s. x.session # None =>
           /\ x.session \in Calls /\ x.session # c /\ call[x.session].answer = "ok"
           /\ Ask(c).action \in {"context.save", "context.end"}
           /\ Ask(x.session).action = "context.start"
    BY <1>1, <1>2, <2>3
  <2> QED
    BY <2>b, <2>s, <2>3, <2>4, <2>5, RightsStep
<1>5. ASSUME NEW c \in Calls, NEW landed \in BOOLEAN, NEW written \in BOOLEAN,
             Record(c, landed, written)
      PROVE  Rights'
  <2> DEFINE next == After(call[c].pc, written)
             p == IF next \in {"ok", "error"} THEN "answered" ELSE next
             a == IF next \in {"ok", "error"} THEN next ELSE call[c].answer
             l == call[c].lost \/ ~written
             x == [call[c] EXCEPT !.pc = p, !.answer = a, !.lost = l]
  <2>1. /\ call' = [call EXCEPT ![c] = x] /\ call[c].pc \in Outcomes
        /\ trail' = IF landed THEN [trail EXCEPT ![c] = Append(@, call[c].pc)] ELSE trail
    BY <1>5 DEF Record
  <2>2. /\ call[c].pc = "allow" => next \in {"act", "error"}
        /\ call[c].pc = "success" => next \in {"ok", "failure"}
        /\ call[c].pc \in {"deny", "failure"} => next = "error"
    BY DEF After
  <2>3. call[c].answer = "none"
    BY <1>1, <2>1 DEF Story, CallType, Outcomes
  <2>4. /\ p \in {"act", "answered", "failure"} /\ a \in {"none", "ok", "error"} /\ l \in BOOLEAN
        /\ p = "act" => call[c].pc = "allow"
        /\ a = "ok" => call[c].pc = "success"
    BY <1>1, <2>1, <2>2, <2>3 DEF CallType, Outcomes
  <2> HIDE DEF next, p, a, l
  <2>5. x \in CallType /\ x.pc = p /\ x.answer = a /\ x.ask = call[c].ask /\ x.session = call[c].session
    <3>1. call[c] \in CallType
      BY <1>1
    <3> QED
      BY <2>4, <3>1 DEF CallType, Outcomes
  <2> HIDE DEF x
  <2>6. /\ trail'[c] = trail[c] \/ trail'[c] = Append(trail[c], call[c].pc)
        /\ \A d \in Calls : d # c => trail'[d] = trail[d]
    BY <2>1 DEF BrokerInv, Types
  <2>7. trail'[c] = <<"deny">> => ~Free(c)
    BY <1>1, <2>1, <2>6, NoDenial
  <2>8. /\ x.pc = "deny" \/ trail'[c] = <<"deny">> => x.session = call[c].session /\ ~Free(c)
        /\ x.pc \in Going \/ x.answer = "ok" => x.session = call[c].session /\ Free(c)
    BY <1>1, <2>4, <2>5, <2>7 DEF Going
  <2>b. call'[c] = x /\ \A d \in Calls : d # c => call'[d] = call[d]
    BY <2>1, <2>5, Moved DEF BrokerInv, Types
  <2>s. x.session # None =>
           /\ x.session \in Calls /\ x.session # c /\ call[x.session].answer = "ok"
           /\ Ask(c).action \in {"context.save", "context.end"}
           /\ Ask(x.session).action = "context.start"
    BY <1>1, <1>2, <2>5
  <2> QED
    BY <2>b, <2>s, <2>3, <2>5, <2>6, <2>8, RightsStep
<1>6. ASSUME NEW c \in Calls,
             Create(c) \/ Read(c) \/ Provision(c) \/ Attach(c) \/ RunEnds(c) \/ Save(c) \/ End(c)
      PROVE  Rights'
  <2>1. /\ call[c].pc \in {"act", "attach", "running"} /\ trail' = trail
        /\ \E x \in CallType : /\ call' = [call EXCEPT ![c] = x] /\ x.pc # "deny"
                                /\ x.ask = call[c].ask /\ x.session = call[c].session
    BY <1>6, Carried
  <2>2. PICK x \in CallType : /\ call' = [call EXCEPT ![c] = x] /\ x.pc # "deny"
                              /\ x.ask = call[c].ask /\ x.session = call[c].session
    BY <2>1
  <2>3. Free(c) /\ trail[c] = <<"allow">> /\ call[c].answer = "none"
    BY <1>1, <2>1 DEF Going, Story, CallType
  <2>4. /\ x.pc = "deny" \/ trail'[c] = <<"deny">> => x.session = call[c].session /\ ~Free(c)
        /\ x.pc \in Going \/ x.answer = "ok" => x.session = call[c].session /\ Free(c)
        /\ \A d \in Calls : d # c => trail'[d] = trail[d]
    BY <2>1, <2>2, <2>3
  <2>b. call'[c] = x /\ \A d \in Calls : d # c => call'[d] = call[d]
    BY <2>2, Moved DEF BrokerInv, Types
  <2>s. x.session # None =>
           /\ x.session \in Calls /\ x.session # c /\ call[x.session].answer = "ok"
           /\ Ask(c).action \in {"context.save", "context.end"}
           /\ Ask(x.session).action = "context.start"
    BY <1>1, <1>2, <2>2
  <2> QED
    BY <2>b, <2>s, <2>2, <2>3, <2>4, RightsStep
<1>7. CASE call' = call /\ trail' = trail
  <2>1. \A d \in Calls : Free(d)' <=> Free(d)
    BY <1>7, FreeSame
  <2> QED
    BY <1>7, <2>1 DEF Rights, Ask
<1> QED
  BY <1>3, <1>4, <1>5, <1>6, <1>7 DEF Next, Lapse, vars

(* Who was let start a session is let end it, but for the list of runtimes *)
(* that is held against ids.                                               *)
THEOREM EndsKept == Spec => []StartersMayEnd
<1>1. Init => Rights
  <2> SUFFICES ASSUME Init
               PROVE  Rights
    OBVIOUS
  <2>1. ASSUME NEW c \in Calls
        PROVE  /\ call[c].session = None /\ call[c].pc = "idle" /\ call[c].answer = "none"
               /\ trail[c] = <<>>
    <3>1. call[c] \in {New(r, k) : r \in Requests, k \in Contexts} /\ trail[c] = <<>>
      BY DEF Init
    <3> QED
      BY <3>1 DEF New
  <2>2. ASSUME NEW c \in Calls
        PROVE  /\ ~(call[c].pc = "deny" \/ trail[c] = <<"deny">>)
               /\ ~(call[c].pc \in Going \/ call[c].answer = "ok")
    <3>1. trail[c] # <<"deny">>
      BY <2>1
    <3> QED
      BY <2>1, <3>1 DEF Going
  <2> QED
    BY <2>1, <2>2 DEF Rights
<1>2. BrokerInv /\ Rights => StartersMayEnd
  <2> SUFFICES ASSUME BrokerInv, Rights, NEW c \in Calls, NEW s, s = call[c].session,
                      Recorded(c, "deny"), s # None, Alike(Ask(c), Ask(s))
               PROVE  /\ AdapterOf(s) # Ask(s).runtime
                      /\ AdapterOf(s) \notin AllowedRuntimes
    BY DEF StartersMayEnd
  <2>1. /\ s \in Calls /\ call[s].answer = "ok" /\ Ask(s).action = "context.start"
        /\ Ask(c).action \in {"context.save", "context.end"}
    BY DEF Rights
  <2>2. trail[c] = <<"deny">>
    <3>1. trail[c] # <<>> /\ (trail[c] # <<"allow">>) /\ trail[c] # <<"failure">>
      BY Nothing, One
    <3>2. trail[c] # <<"allow", "success">> /\ trail[c] # <<"allow", "failure">>
      BY Two
    <3>3. trail[c] # <<"allow", "success", "failure">>
      BY Three
    <3> QED
      BY <3>1, <3>2, <3>3, Trails
  <2>3. ~Free(c) /\ Free(s)
    BY <2>1, <2>2 DEF Rights
  <2>4. Authorized(c)
    BY <2>3 DEF Free, Authorized, Alike
  <2>5. ~QuotaAvailable(c)
    BY <2>3, <2>4 DEF Free
  <2>6. AllowedRuntimes # {} /\ AdapterOf(s) \notin AllowedRuntimes
    BY <2>1, <2>5 DEF QuotaAvailable, SizeCounts, RuntimeOf
  <2>7. Ask(s).runtime \in AllowedRuntimes
    <3>1. call[s].session = None
      BY <2>1 DEF Rights
    <3>2. Ask(s).runtime \in Names /\ None \notin Names
      BY <2>1, AskType DEF BrokerInv, Types, BrokerAssumption
    <3> QED
      BY <2>3, <2>6, <3>1, <3>2 DEF Free, QuotaAvailable, RuntimeOf
  <2> QED
    BY <2>6, <2>7
<1> QED
  BY <1>1, <1>2, NextRights, BrokerKept, PTL DEF Spec
=============================================================================
