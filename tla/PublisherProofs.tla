-------------------------- MODULE PublisherProofs ---------------------------
(***************************************************************************)
(* The two parts of pkg_publisher.py that threads share: the broker, for   *)
(* any number of callers, sockets and requests, and the reading of notes,  *)
(* for any notes, pages and workers.                                       *)
(*                                                                         *)
(* The broker.  The slot invariants are inductive together with TypeOK.    *)
(* Correlation and the refinement also need SingleCaller: with two callers *)
(* they fail, as TLC finds with the callers of ToolBrokerMany.cfg.         *)
(*                                                                         *)
(* The notes.  The files and the entry belong to an address, not to a      *)
(* note, so what a thread finds there is its own only for a reason: when   *)
(* the current note began no older thread had still to draw or to append   *)
(* (Clean), and one that waits can do no more than drop the entry.  The    *)
(* current note has one thread, and all that thread finds it has left.     *)
(***************************************************************************)
EXTENDS ToolBroker, InkNote, SequenceTheorems, TLAPS


SlotsOwned == PendingHasItsCaller /\ OutcomeHasItsCaller

\* At most one thread is ever inside POST /tools.
SingleCaller == \A s, t \in Callers : s = t

\* Where an answer comes from: ids in use were issued, a thread that awaits a
\* reply has sent its request, and an accepted outcome was asked of the Newton.
Provenance ==
    /\ pending < nextId
    /\ \A c \in Conns : threadReq[c] < nextId
    /\ \A c \in Conns :
           threadPc[c] = "reply" /\ threadReq[c] # 0 => threadReq[c] \in handed
    /\ outcome # 0 => outcome \in handed

-----------------------------------------------------------------------------

LEMMA InitType == Init => TypeOK
BY ToolBrokerAssumption DEF Init, TypeOK, NoResult, Statuses, ThreadStates, Ids

LEMMA NextType == TypeOK /\ [Next]_vars => TypeOK'
<1> SUFFICES ASSUME TypeOK, [Next]_vars PROVE TypeOK'
  OBVIOUS
<1> USE ToolBrokerAssumption DEF TypeOK, Ids, Statuses, ThreadStates, NoResult
<1>1. ASSUME NEW s \in Callers, CallerStep(s) PROVE TypeOK'
  <2>1. CASE Submit(s) BY <2>1 DEF Submit, threads
  <2>2. CASE Refuse(s) BY <2>2 DEF Refuse, slots, threads
  <2>3. CASE Wake(s) BY <2>3 DEF Wake, ReturnWith, threads
  <2>4. CASE TimeOut(s) BY <2>4 DEF TimeOut, ReturnWith, threads
  <2> QED BY <1>1, <2>1, <2>2, <2>3, <2>4 DEF CallerStep
<1>2. ASSUME NEW c \in Conns, ThreadStep(c) PROVE TypeOK'
  <2> USE DEF Goto, slots, callers
  <2>1. CASE Connect(c) BY <2>1 DEF Connect
  <2>2. CASE Fetch(c) BY <2>2 DEF Fetch
  <2>3. CASE Send(c)
    <3>1. {threadReq[c]} \ {0} \subseteq Ids
      OBVIOUS
    <3> QED BY <2>3, <3>1 DEF Send
  <2>4. CASE Answer(c) BY <2>4 DEF Answer, Complete
  <2>5. CASE Poll(c) BY <2>5 DEF Poll
  <2>6. CASE Break(c) BY <2>6 DEF Break
  <2>7. CASE Leave(c) BY <2>7 DEF Leave
  <2> QED BY <1>2, <2>1, <2>2, <2>3, <2>4, <2>5, <2>6, <2>7 DEF ThreadStep
<1>3. CASE HttpPoll BY <1>3 DEF HttpPoll, slots, callers, threads
<1>4. ASSUME NEW i \in Ids, HttpOutcome(i) PROVE TypeOK'
  BY <1>4 DEF HttpOutcome, Complete, callers, threads
<1>5. CASE UNCHANGED vars BY <1>5 DEF vars, slots, callers, threads
<1> QED BY <1>1, <1>2, <1>3, <1>4, <1>5 DEF Next

\* Every field keeps a value of its type and ids never pass the bound
\* (ToolBroker.__init__, submit, serve).
THEOREM TypeCorrect == Spec => []TypeOK
BY InitType, NextType, PTL DEF Spec

-----------------------------------------------------------------------------

\* Accepting an answer moves the id from `pending` to `outcome`, or is refused:
\* the caller it belongs to stays the same.
LEMMA CompleteKeepsOwner ==
  ASSUME NEW i \in Ids, TypeOK, SlotsOwned, Complete(i), UNCHANGED callers
  PROVE  SlotsOwned'
BY DEF TypeOK, Ids, SlotsOwned, PendingHasItsCaller, OutcomeHasItsCaller,
       Complete, callers

LEMMA NextSlots == TypeOK /\ SlotsOwned /\ [Next]_vars => SlotsOwned'
<1> SUFFICES ASSUME TypeOK, SlotsOwned, [Next]_vars PROVE SlotsOwned'
  OBVIOUS
<1> USE DEF SlotsOwned, PendingHasItsCaller, OutcomeHasItsCaller
<1>1. ASSUME NEW s \in Callers, CallerStep(s) PROVE SlotsOwned'
  <2>1. CASE Submit(s) BY <2>1 DEF Submit, TypeOK
  <2>2. CASE Refuse(s) BY <2>2 DEF Refuse, slots
  <2>3. CASE Wake(s) BY <2>3 DEF Wake
  <2>4. CASE TimeOut(s) BY <2>4 DEF TimeOut
  <2> QED BY <1>1, <2>1, <2>2, <2>3, <2>4 DEF CallerStep
<1>2. ASSUME NEW c \in Conns, ThreadStep(c) PROVE SlotsOwned'
  <2>1. CASE Answer(c)
    <3>1. CASE threadReq[c] = 0 BY <2>1, <3>1 DEF Answer, slots, callers
    <3>2. CASE threadReq[c] # 0
      <4>1. threadReq[c] \in Ids BY <3>2 DEF TypeOK, Ids
      <4> QED BY <2>1, <3>2, <4>1, CompleteKeepsOwner DEF Answer
    <3> QED BY <3>1, <3>2
  <2>2. CASE ~Answer(c)
    <3>1. UNCHANGED <<slots, callers>>
      BY <1>2, <2>2 DEF ThreadStep, Connect, Fetch, Send, Poll, Break, Leave
    <3> QED BY <3>1 DEF slots, callers
  <2> QED BY <2>1, <2>2
<1>3. CASE HttpPoll BY <1>3 DEF HttpPoll, slots, callers
<1>4. ASSUME NEW i \in Ids, HttpOutcome(i) PROVE SlotsOwned'
  BY <1>4, CompleteKeepsOwner DEF HttpOutcome
<1>5. CASE UNCHANGED vars BY <1>5 DEF vars, slots, callers
<1> QED BY <1>1, <1>2, <1>3, <1>4, <1>5 DEF Next

LEMMA SlotsAlwaysOwned == Spec => [](TypeOK /\ SlotsOwned)
<1>1. Init => SlotsOwned
  BY DEF Init, SlotsOwned, PendingHasItsCaller, OutcomeHasItsCaller
<1> QED BY <1>1, InitType, NextType, NextSlots, PTL DEF Spec

\* A pending request never outlives its submitter: nothing is left behind to
\* refuse later callers or to be handed to a reconnecting Newton for nobody.
THEOREM PendingOwned == Spec => []PendingHasItsCaller
<1>1. SlotsOwned => PendingHasItsCaller BY DEF SlotsOwned
<1> QED BY <1>1, SlotsAlwaysOwned, PTL

\* An accepted outcome always finds its own submitter still waiting.
THEOREM OutcomeOwned == Spec => []OutcomeHasItsCaller
<1>1. SlotsOwned => OutcomeHasItsCaller BY DEF SlotsOwned
<1> QED BY <1>1, SlotsAlwaysOwned, PTL

-----------------------------------------------------------------------------

\* While only one thread submits, whatever a caller returns answers its own
\* request, through any number of timeouts, reconnects and late answers.
THEOREM CorrelatedAlone == ASSUME SingleCaller PROVE Spec => []Correlated
<1>1. Init => Correlated
  BY DEF Init, Correlated, NoResult
<1>2. TypeOK /\ SlotsOwned /\ Correlated /\ [Next]_vars => Correlated'
  <2> SUFFICES ASSUME TypeOK, SlotsOwned, Correlated, [Next]_vars PROVE Correlated'
    OBVIOUS
  <2> USE DEF Correlated
  <2>1. ASSUME NEW s \in Callers, CallerStep(s) PROVE Correlated'
    <3>1. CASE Submit(s) BY <3>1 DEF Submit, NoResult, TypeOK
    <3>2. CASE Refuse(s) BY <3>2 DEF Refuse, TypeOK
    <3>3. CASE Wake(s)
      <4>1. callerId[s] = outcome
        BY <3>3, SingleCaller DEF Wake, SlotsOwned, OutcomeHasItsCaller, SingleCaller
      <4> QED BY <3>3, <4>1 DEF Wake, ReturnWith, TypeOK
    <3>4. CASE TimeOut(s) BY <3>4 DEF TimeOut, ReturnWith, TypeOK
    <3> QED BY <2>1, <3>1, <3>2, <3>3, <3>4 DEF CallerStep
  <2>2. ASSUME NEW c \in Conns, ThreadStep(c) PROVE Correlated'
    BY <2>2 DEF ThreadStep, Connect, Fetch, Send, Answer, Poll, Break, Leave, callers
  <2>3. CASE HttpPoll BY <2>3 DEF HttpPoll, callers
  <2>4. ASSUME NEW i \in Ids, HttpOutcome(i) PROVE Correlated'
    BY <2>4 DEF HttpOutcome, callers
  <2>5. CASE UNCHANGED vars BY <2>5 DEF vars, callers
  <2> QED BY <2>1, <2>2, <2>3, <2>4, <2>5 DEF Next
<1> QED BY <1>1, <1>2, SlotsAlwaysOwned, PTL DEF Spec

-----------------------------------------------------------------------------

LEMMA NextProvenance == TypeOK /\ Provenance /\ [Next]_vars => Provenance'
<1> SUFFICES ASSUME TypeOK, Provenance, [Next]_vars PROVE Provenance'
  OBVIOUS
<1> USE DEF Provenance, TypeOK, Ids
<1>1. ASSUME NEW s \in Callers, CallerStep(s) PROVE Provenance'
  <2>1. CASE Submit(s) BY <2>1 DEF Submit, threads
  <2>2. CASE Refuse(s) BY <2>2 DEF Refuse, slots, threads
  <2>3. CASE Wake(s) BY <2>3 DEF Wake, ReturnWith, threads
  <2>4. CASE TimeOut(s) BY <2>4 DEF TimeOut, ReturnWith, threads
  <2> QED BY <1>1, <2>1, <2>2, <2>3, <2>4 DEF CallerStep
<1>2. ASSUME NEW c \in Conns, ThreadStep(c) PROVE Provenance'
  <2> USE DEF Goto, slots, ThreadStates
  <2>1. CASE Connect(c) BY <2>1 DEF Connect
  <2>2. CASE Fetch(c) BY <2>2 DEF Fetch
  <2>3. CASE Send(c) BY <2>3 DEF Send
  <2>4. CASE Answer(c) BY <2>4 DEF Answer, Complete
  <2>5. CASE Poll(c) BY <2>5 DEF Poll
  <2>6. CASE Break(c) BY <2>6 DEF Break
  <2>7. CASE Leave(c) BY <2>7 DEF Leave
  <2> QED BY <1>2, <2>1, <2>2, <2>3, <2>4, <2>5, <2>6, <2>7 DEF ThreadStep
<1>3. CASE HttpPoll BY <1>3 DEF HttpPoll, slots, threads
<1>4. ASSUME NEW i \in Ids, HttpOutcome(i) PROVE Provenance'
  BY <1>4 DEF HttpOutcome, Complete, threads
<1>5. CASE UNCHANGED vars BY <1>5 DEF vars, slots, threads
<1> QED BY <1>1, <1>2, <1>3, <1>4, <1>5 DEF Next

\* Answering or being repeated changes no caller and hands nothing over.
LEMMA AnswerStutters ==
  ASSUME UNCHANGED <<nextId, callers, handed>>
  PROVE  UNCHANGED Service!vars
BY DEF Service!vars, callers

LEMMA StepRefines ==
  ASSUME SingleCaller, TypeOK, SlotsOwned, Provenance, [Next]_vars
  PROVE  [Service!Next]_(Service!vars)
<1> USE DEF TypeOK, Ids
<1>1. ASSUME NEW s \in Callers, CallerStep(s)
      PROVE  Service!Issue(s) \/ Service!Refuse(s) \/ Service!Answer(s) \/ Service!GiveUp(s)
  <2>1. CASE Submit(s)
    <3>1. nextId - 1 < MaxId /\ (nextId - 1) + 1 = nextId /\ nextId' - 1 = nextId
      BY <2>1, ToolBrokerAssumption DEF Submit
    <3>2. Service!Issue(s)
      BY <2>1, <3>1 DEF Submit, Service!Issue, Service!NoResult, NoResult
    <3> QED BY <3>2
  <2>2. CASE Refuse(s)
    BY <2>2 DEF Refuse, slots, Service!Refuse
  <2>3. CASE Wake(s)
    <3>1. callerId[s] = outcome
      BY <2>3, SingleCaller DEF Wake, SlotsOwned, OutcomeHasItsCaller, SingleCaller
    <3>2. callerId[s] \in handed
      BY <2>3, <3>1 DEF Wake, Provenance
    <3> QED BY <2>3, <3>1, <3>2 DEF Wake, ReturnWith, Service!Answer
  <2>4. CASE TimeOut(s)
    BY <2>4 DEF TimeOut, ReturnWith, Service!GiveUp
  <2> QED BY <1>1, <2>1, <2>2, <2>3, <2>4 DEF CallerStep
<1>2. ASSUME NEW c \in Conns, ThreadStep(c)
      PROVE  UNCHANGED Service!vars \/ \E i \in 1..MaxId : Service!Hand(i)
  <2>1. CASE Send(c)
    <3>1. CASE threadReq[c] = 0
      BY <2>1, <3>1 DEF Send, slots, callers, Service!vars
    <3>2. CASE threadReq[c] # 0
      <4>1. threadReq[c] \in 1..(nextId - 1) /\ threadReq[c] \in 1..MaxId
        BY <3>2 DEF Provenance
      <4>2. Service!Hand(threadReq[c])
        BY <2>1, <3>2, <4>1 DEF Send, slots, callers, Service!Hand
      <4> QED BY <4>1, <4>2
    <3> QED BY <3>1, <3>2
  <2>2. CASE ~Send(c)
    <3>1. UNCHANGED <<nextId, callers, handed>>
      BY <1>2, <2>2 DEF ThreadStep, Connect, Fetch, Answer, Complete, Poll, Break,
                        Leave, slots
    <3> QED BY <3>1, AnswerStutters
  <2> QED BY <2>1, <2>2
<1>3. ASSUME HttpPoll PROVE \E i \in 1..MaxId : Service!Hand(i)
  <2>1. pending \in 1..(nextId - 1) /\ pending \in 1..MaxId
    BY <1>3 DEF HttpPoll, Provenance
  <2>2. Service!Hand(pending)
    BY <1>3, <2>1 DEF HttpPoll, slots, callers, Service!Hand
  <2> QED BY <2>1, <2>2
<1>4. ASSUME NEW i \in Ids, HttpOutcome(i) PROVE UNCHANGED Service!vars
  <2>1. UNCHANGED <<nextId, callers, handed>>
    BY <1>4 DEF HttpOutcome, Complete
  <2> QED BY <2>1, AnswerStutters
<1>5. CASE UNCHANGED vars
  BY <1>5, AnswerStutters DEF vars, slots
<1> QED BY <1>1, <1>2, <1>3, <1>4, <1>5 DEF Next, Service!Next

\* While only one thread submits, the broker implements ToolService: the slots,
\* the heartbeats, the replaced sockets and the late answers are invisible.
THEOREM Implements == ASSUME SingleCaller PROVE Spec => ImplementsService
<1>1. Init => Service!Init
  BY DEF Init, Service!Init, Service!NoResult, NoResult
<1>2. Init => Provenance
  BY DEF Init, Provenance
<1>3. Spec => [](TypeOK /\ SlotsOwned /\ Provenance)
  BY <1>2, NextProvenance, SlotsAlwaysOwned, PTL DEF Spec
<1>4. TypeOK /\ SlotsOwned /\ Provenance /\ [Next]_vars => [Service!Next]_(Service!vars)
  BY StepRefines
<1> QED BY <1>1, <1>3, <1>4, PTL DEF Spec, ImplementsService, Service!Spec

-----------------------------------------------------------------------------
(* The inductive invariant of ink reading.                                 *)

\* The pages 1 to k of note n.
Leading(n, k) == [i \in 1..k |-> <<n, i>>]

\* A note sent as one body has no futures; what a thread appends it submitted.
Stepped ==
    \A r \in DOMAIN request :
        /\ Single(r[1]) => request[r].step \notin {"submit", "append"}
        /\ request[r].step = "append" => r \in DOMAIN job

\* Nothing is of a note still to come, and the current one has one thread.
Placed ==
    /\ \A r \in DOMAIN request : r[1] <= device.note
    /\ \A r \in DOMAIN job : r[1] <= device.note
    /\ \A n \in Notes : n > device.note => shown[n].how = "nothing"
    /\ \A r, s \in DOMAIN request : r[1] = device.note /\ s[1] = device.note => r = s

\* The thread works on the entry: it has been at part 1, or comes for a later one.
Gathers(r) ==
    /\ ~Single(r[1])
    /\ \/ request[r].step \in {"save", "submit", "append"}
       \/ request[r].step = "check" /\ r[2] > 1

\* What a thread of the current note finds is its own: the pages before it in the
\* entry, unless an older thread has dropped that, its drawing, and its readings.
Own(r) ==
    /\ Gathers(r) =>
           \/ entry = NoEntry /\ crossed[r[1]] # "no"
           \/ entry = [total |-> Pages[r[1]], futures |-> Leading(r[1], r[2] - 1)]
    /\ request[r].step \in {"submit", "append", "wait"} => picture[File(r)] = r[1]
    /\ request[r].step = "wait" /\ ~Single(r[1]) =>
           request[r].futures = Leading(r[1], Pages[r[1]])

\* Threads of older notes only wait, and only if some were left.
Tidy(r) ==
    IF r[1] = device.note THEN Own(r)
    ELSE request[r].step = "wait" /\ crossed[device.note] # "no"

\* A page of the current note is read from that page's drawing.
Kept(r) == picture[r[2]] = r[1] /\ (job[r].state # "queued" => job[r].note = r[1])

Clean == device.note > 0 /\ crossed[device.note] # "early"

Current ==
    Clean => /\ \A r \in DOMAIN request : Tidy(r)
             /\ \A r \in DOMAIN job : r[1] = device.note => Kept(r)

InkInv == Stepped /\ Placed /\ Current

-----------------------------------------------------------------------------
(* What the operators of InkNote return.                                   *)

Steps == Early \cup {"wait"}
Handlers(J) == [step : Steps, futures : Seq(J)]
Jobs == [state : {"queued", "running", "done"}, note : {0} \cup Notes]
Texts == Seq(({0} \cup Notes) \X Nat)
Outcomes == {"nothing", "lost", "refused", "error", "read"}

LEMMA NoteFacts ==
  ASSUME NEW n \in Notes
  PROVE  /\ n \in Nat /\ n > 0 /\ Pages[n] \in Nat /\ Pages[n] > 0
         /\ \A k \in 1..Pages[n] : <<n, k>> \in Page
<1>1. Pages \in Seq(Nat \ {0}) BY PagesAssumption
<1>2. n \in 1..Len(Pages) BY DEF Notes
<1>3. Pages[n] \in Nat \ {0} /\ Len(Pages) \in Nat BY <1>1, <1>2, ElementOfSeq, LenProperties
<1>4. \A k \in 1..Pages[n] : <<n, k>> \in {n} \X (1..Pages[n]) OBVIOUS
<1> QED BY <1>2, <1>3, <1>4 DEF Page

LEMMA PageFacts ==
  ASSUME NEW r \in Page
  PROVE  /\ r = <<r[1], r[2]>> /\ r[1] \in Notes /\ r[1] \in Nat
         /\ r[2] \in 1..Pages[r[1]] /\ r[2] \in Nat
         /\ r[2] \in Files /\ File(r) \in Files
<1>1. PICK n \in Notes : r \in {n} \X (1..Pages[n]) BY DEF Page
<1>2. r = <<r[1], r[2]>> /\ r[1] = n /\ r[2] \in 1..Pages[n] BY <1>1
<1>3. n \in Nat /\ Pages[n] \in Nat BY NoteFacts
<1>4. r[2] \in Nat BY <1>2, <1>3
<1>5. r[2] \in Files /\ 0 \in Files BY DEF Files
<1> QED BY <1>2, <1>3, <1>4, <1>5 DEF File

LEMMA PutFacts ==
  ASSUME NEW f, NEW S, f \in [DOMAIN f -> S], NEW k, NEW v \in S
  PROVE  /\ DOMAIN Put(f, k, v) = DOMAIN f \cup {k}
         /\ Put(f, k, v) \in [DOMAIN f \cup {k} -> S]
         /\ Put(f, k, v)[k] = v
         /\ \A x \in DOMAIN f : x # k => Put(f, k, v)[x] = f[x]
BY DEF Put

LEMMA WithoutFacts ==
  ASSUME NEW f, NEW S, f \in [DOMAIN f -> S], NEW k
  PROVE  /\ DOMAIN Without(f, k) = DOMAIN f \ {k}
         /\ Without(f, k) \in [DOMAIN f \ {k} -> S]
         /\ \A x \in DOMAIN f : x # k => Without(f, k)[x] = f[x]
BY DEF Without

\* The parts of the type invariant.
Threads ==
    DOMAIN request \subseteq Page /\ request \in [DOMAIN request -> Handlers(DOMAIN job)]
Slot == entry = NoEntry \/ entry \in [total : Nat, futures : Seq(DOMAIN job)]
Pool == DOMAIN job \subseteq Page /\ job \in [DOMAIN job -> Jobs]
Newton ==
    /\ device \in [note : {0} \cup Notes, page : Nat, waits : BOOLEAN]
    /\ shown \in [Notes -> [how : Outcomes, text : Texts]]
    /\ crossed \in [Notes -> {"no", "early", "waiting"}]
Drawn == picture \in [Files -> {0} \cup Notes]

LEMMA TypeParts == InkTypeOK <=> Newton /\ Threads /\ Slot /\ Pool /\ Drawn
BY DEF InkTypeOK, Newton, Threads, Slot, Pool, Drawn, Handlers, Jobs, Texts, Outcomes, Steps

\* A thread goes on to another step.
LEMMA GoesFacts ==
  ASSUME Threads, NEW r \in DOMAIN request, NEW step \in Steps, Goes(r, step)
  PROVE  /\ DOMAIN request' = DOMAIN request
         /\ request' \in [DOMAIN request -> Handlers(DOMAIN job)]
         /\ request'[r].step = step /\ request'[r].futures = request[r].futures
         /\ \A x \in DOMAIN request : x # r => request'[x] = request[x]
BY DEF Threads, Goes, Handlers

\* It ends.
LEMMA EndsFacts ==
  ASSUME Threads, NEW r, Ends(r)
  PROVE  /\ DOMAIN request' = DOMAIN request \ {r}
         /\ request' \in [DOMAIN request' -> Handlers(DOMAIN job)]
         /\ \A x \in DOMAIN request' : request'[x] = request[x]
<1>1. request \in [DOMAIN request -> Handlers(DOMAIN job)] BY DEF Threads
<1>2. request' = Without(request, r) BY DEF Ends
<1>3. /\ DOMAIN Without(request, r) = DOMAIN request \ {r}
      /\ Without(request, r) \in [DOMAIN request \ {r} -> Handlers(DOMAIN job)]
      /\ \A x \in DOMAIN request : x # r => Without(request, r)[x] = request[x]
  BY <1>1, WithoutFacts
<1>4. /\ DOMAIN request' = DOMAIN request \ {r}
      /\ \A x \in DOMAIN request' : request'[x] = request[x]
  BY <1>2, <1>3
<1>5. request' \in [DOMAIN request' -> Handlers(DOMAIN job)]
  BY <1>2, <1>3, <1>4
<1> QED BY <1>4, <1>5

\* It tells the Newton, if that still waits for it.
LEMMA ShowsFacts ==
  ASSUME Newton, NEW r \in Page, NEW how \in Outcomes, NEW text \in Texts, Shows(r, how, text)
  PROVE  /\ device' \in [note : {0} \cup Notes, page : Nat, waits : BOOLEAN]
         /\ device'.note = device.note
         /\ shown' \in [Notes -> [how : Outcomes, text : Texts]]
         /\ \A n \in Notes :
                \/ shown'[n] = shown[n]
                \/ n = r[1] /\ n = device.note /\ shown'[n] = [how |-> how, text |-> text]
<1>1. r[1] \in Notes BY PageFacts
<1>2. [how |-> how, text |-> text] \in [how : Outcomes, text : Texts] OBVIOUS
<1>3. CASE Listens(r)
  <2>1. /\ shown' = [shown EXCEPT ![r[1]] = [how |-> how, text |-> text]]
        /\ device' = [device EXCEPT !.waits = FALSE] /\ device.note = r[1]
    BY <1>3 DEF Shows, Listens
  <2>2. shown' \in [Notes -> [how : Outcomes, text : Texts]] BY <1>1, <1>2, <2>1 DEF Newton
  <2>3. \A n \in Notes : shown'[n] = IF n = r[1] THEN [how |-> how, text |-> text] ELSE shown[n]
    BY <1>1, <2>1 DEF Newton
  <2>4. /\ device' \in [note : {0} \cup Notes, page : Nat, waits : BOOLEAN]
        /\ device'.note = device.note
    BY <2>1 DEF Newton
  <2> QED BY <2>1, <2>2, <2>3, <2>4
<1>4. CASE ~Listens(r) BY <1>4 DEF Shows, Newton
<1> QED BY <1>3, <1>4

LEMMA ReadingsType ==
  ASSUME InkTypeOK, NEW r \in DOMAIN request PROVE Readings(r) \in Texts
<1>0. Newton /\ Threads /\ Pool /\ Drawn BY TypeParts
<1>1. CASE Single(r[1])
  <2>1. Readings(r) = <<<<picture[0], 1>>>> BY <1>1 DEF Readings
  <2>2. picture[0] \in {0} \cup Notes BY <1>0 DEF Drawn, Files
  <2>3. <<picture[0], 1>> \in ({0} \cup Notes) \X Nat BY <2>2
  <2> QED BY <2>1, <2>3 DEF Texts
<1>2. CASE ~Single(r[1])
  <2> DEFINE fs == request[r].futures
             text == [i \in DOMAIN fs |-> <<job[fs[i]].note, fs[i][2]>>]
  <2>1. Readings(r) = text BY <1>2 DEF Readings
  <2>2. fs \in Seq(DOMAIN job) BY <1>0 DEF Threads, Handlers
  <2> HIDE DEF fs
  <2>3. DOMAIN fs = 1..Len(fs) /\ Len(fs) \in Nat BY <2>2, LenProperties
  <2>4. ASSUME NEW i \in DOMAIN fs
        PROVE  <<job[fs[i]].note, fs[i][2]>> \in ({0} \cup Notes) \X Nat
    <3>1. fs[i] \in DOMAIN job BY <2>2, <2>3, ElementOfSeq
    <3>2. fs[i] \in Page /\ job[fs[i]] \in Jobs BY <1>0, <3>1 DEF Pool
    <3>3. fs[i][2] \in Nat BY <3>2, PageFacts
    <3>4. job[fs[i]].note \in {0} \cup Notes BY <3>2 DEF Jobs
    <3> QED BY <3>3, <3>4
  <2>5. text \in [1..Len(fs) -> ({0} \cup Notes) \X Nat] BY <2>3, <2>4
  <2> HIDE DEF text
  <2> QED BY <2>1, <2>3, <2>5, IsASeq DEF Texts
<1> QED BY <1>1, <1>2

\* The list of futures with one more.
LEMMA WithPageFacts ==
  ASSUME InkTypeOK, entry # NoEntry, NEW r \in DOMAIN job
  PROVE  /\ WithPage(r) \in Seq(DOMAIN job)
         /\ [entry EXCEPT !.futures = WithPage(r)] \in [total : Nat, futures : Seq(DOMAIN job)]
         /\ [entry EXCEPT !.futures = WithPage(r)] = [total |-> entry.total, futures |-> WithPage(r)]
<1>1. entry \in [total : Nat, futures : Seq(DOMAIN job)] BY TypeParts DEF Slot
<1>2. WithPage(r) \in Seq(DOMAIN job) BY <1>1, AppendProperties DEF WithPage
<1> QED BY <1>1, <1>2

\* What a thread does to the pool and the files is for the threads that read them.
LEMMA MorePool ==
  ASSUME InkTypeOK, NEW J, DOMAIN job \subseteq J
  PROVE  /\ \A x \in DOMAIN request : request[x] \in Handlers(J)
         /\ entry = NoEntry \/ entry \in [total : Nat, futures : Seq(J)]
<1>1. Seq(DOMAIN job) \subseteq Seq(J) BY SeqMonotonic
<1>2. Threads /\ Slot BY TypeParts
<1>3. entry = NoEntry \/ entry \in [total : Nat, futures : Seq(J)]
  BY <1>1, <1>2 DEF Slot
<1>4. ASSUME NEW x \in DOMAIN request PROVE request[x] \in Handlers(J)
  <2>1. request[x] \in Handlers(DOMAIN job) BY <1>2 DEF Threads
  <2> QED BY <1>1, <2>1 DEF Handlers
<1> QED BY <1>3, <1>4

\* No entry is mistaken for none.
LEMMA EntryIsEntry ==
  ASSUME NEW t \in Nat, NEW f \in Seq(Page) PROVE [total |-> t, futures |-> f] # NoEntry
<1>1. Page \subseteq Nat \X Nat
  <2>1. ASSUME NEW r \in Page PROVE r \in Nat \X Nat BY PageFacts
  <2> QED BY <2>1
<1>2. f \in Seq(Nat \X Nat) BY <1>1, SeqMonotonic
<1> QED BY <1>2, NoEntryAssumption

LEMMA NoteIsNat == ASSUME Newton PROVE device.note \in Nat
<1>1. \A m \in Notes : m \in Nat BY NoteFacts
<1>2. device.note \in {0} \cup Notes BY DEF Newton
<1> QED BY <1>1, <1>2

-----------------------------------------------------------------------------
(* Every step keeps the types.                                             *)

LEMMA EmptyTexts == <<>> \in Texts /\ \A J : <<>> \in Seq(J)
BY EmptySeq DEF Texts

LEMMA SendNoteType == ASSUME InkTypeOK, SendNote PROVE InkTypeOK'
<1> DEFINE n == device.note + 1
           r == <<n, 1>>
           h == [step |-> "check", futures |-> <<>>]
<1>0. Newton /\ Threads /\ Slot /\ Pool /\ Drawn BY TypeParts
<1>1. /\ n \in Notes /\ device' = [note |-> n, page |-> 1, waits |-> TRUE]
      /\ request' = Put(request, r, h)
      /\ crossed' \in {[crossed EXCEPT ![n] = x] : x \in {"no", "early", "waiting"}}
      /\ shown' = shown /\ entry' = entry /\ picture' = picture /\ job' = job
  BY DEF SendNote, Arrives
<1> HIDE DEF n
<1>2. Newton' BY <1>0, <1>1 DEF Newton
<1>3. r \in Page /\ h \in Handlers(DOMAIN job)
  <2>1. r \in Page BY <1>1, NoteFacts
  <2> QED BY <2>1, EmptyTexts DEF Handlers, Steps, Early
<1> HIDE DEF r, h
<1>4. Threads'
  <2>1. request \in [DOMAIN request -> Handlers(DOMAIN job)] BY <1>0 DEF Threads
  <2>2. /\ DOMAIN Put(request, r, h) = DOMAIN request \cup {r}
        /\ Put(request, r, h) \in [DOMAIN request \cup {r} -> Handlers(DOMAIN job)]
    BY <1>3, <2>1 DEF Put
  <2>3. DOMAIN request' = DOMAIN request \cup {r} BY <1>1, <2>2
  <2>4. DOMAIN request' \subseteq Page BY <1>0, <1>3, <2>3 DEF Threads
  <2>5. request' \in [DOMAIN request' -> Handlers(DOMAIN job')] BY <1>1, <2>2, <2>3
  <2> QED BY <2>4, <2>5 DEF Threads
<1>5. Slot' /\ Pool' /\ Drawn' BY <1>0, <1>1 DEF Slot, Pool, Drawn
<1> QED BY <1>2, <1>4, <1>5, TypeParts DEF InkTypeOK, Newton, Threads, Slot, Pool, Drawn,
                                           Handlers, Jobs, Texts, Outcomes, Steps

\* The other parts, when a thread only goes on, or ends.
LEMMA MovedType ==
  ASSUME InkTypeOK, NEW r \in DOMAIN request, job' = job,
         (\E step \in Steps : Goes(r, step)) \/ Ends(r)
  PROVE  Threads' /\ Pool'
<1>0. Threads /\ Pool BY TypeParts
<1>1. CASE \E step \in Steps : Goes(r, step)
  <2>1. PICK step \in Steps : Goes(r, step) BY <1>1
  <2>2. /\ DOMAIN request' = DOMAIN request
        /\ request' \in [DOMAIN request -> Handlers(DOMAIN job)]
    BY <1>0, <2>1, GoesFacts
  <2>3. request' \in [DOMAIN request' -> Handlers(DOMAIN job')] BY <2>2
  <2> QED BY <1>0, <2>2, <2>3 DEF Threads, Pool
<1>2. CASE Ends(r)
  <2>1. /\ DOMAIN request' = DOMAIN request \ {r}
        /\ request' \in [DOMAIN request' -> Handlers(DOMAIN job)]
    BY <1>0, <1>2, EndsFacts
  <2>2. request' \in [DOMAIN request' -> Handlers(DOMAIN job')] BY <2>1
  <2> QED BY <1>0, <2>1, <2>2 DEF Threads, Pool
<1> QED BY <1>1, <1>2

LEMMA TypeBack == (Newton /\ Threads /\ Slot /\ Pool /\ Drawn)' => InkTypeOK'
BY DEF InkTypeOK, Newton, Threads, Slot, Pool, Drawn, Handlers, Jobs, Texts, Outcomes, Steps

LEMMA ShownType ==
  ASSUME InkTypeOK, NEW r \in Page, NEW how \in Outcomes, NEW text \in Texts,
         Shows(r, how, text), crossed' = crossed
  PROVE  Newton'
<1>1. Newton BY TypeParts
<1>2. /\ device' \in [note : {0} \cup Notes, page : Nat, waits : BOOLEAN]
      /\ shown' \in [Notes -> [how : Outcomes, text : Texts]]
  BY <1>1, ShowsFacts
<1> QED BY <1>1, <1>2 DEF Newton

\* A thread that runs has a request of its own.
LEMMA ThreadRuns == ASSUME InkTypeOK, NEW r, Thread(r) PROVE r \in DOMAIN request /\ r \in Page
<1>1. r \in DOMAIN request
  BY DEF Thread, On, BadBody, Check, Save, SubmitPage, AppendLost, AppendLast, AppendInkp,
         StatusFails, AnswerNote
<1> QED BY <1>1, TypeParts DEF Threads

LEMMA CheckType == ASSUME InkTypeOK, NEW r \in DOMAIN request, r \in Page, Check(r) PROVE InkTypeOK'
<1>0. Newton /\ Threads /\ Slot /\ Pool /\ Drawn BY TypeParts
<1>1. picture' = picture /\ job' = job /\ crossed' = crossed BY DEF Check
<1>2. Slot'
  <2>1. entry' = entry \/ entry' = [total |-> Pages[r[1]], futures |-> <<>>] BY DEF Check
  <2>2. Pages[r[1]] \in Nat BY PageFacts, NoteFacts
  <2>3. <<>> \in Seq(DOMAIN job) BY EmptyTexts
  <2>4. [total |-> Pages[r[1]], futures |-> <<>>] \in [total : Nat, futures : Seq(DOMAIN job)]
    BY <2>2, <2>3
  <2>5. entry' = NoEntry \/ entry' \in [total : Nat, futures : Seq(DOMAIN job)]
    BY <1>0, <2>1, <2>4 DEF Slot
  <2> QED BY <1>1, <2>5 DEF Slot
<1>3. CASE Goes(r, "save") /\ UNCHANGED <<device, shown>>
  <2>1. "save" \in Steps BY DEF Steps, Early
  <2>2. Threads' /\ Pool' BY <1>1, <1>3, <2>1, MovedType
  <2>3. Newton' BY <1>0, <1>1, <1>3 DEF Newton
  <2>4. Drawn' BY <1>0, <1>1 DEF Drawn
  <2> QED BY <1>2, <2>2, <2>3, <2>4, TypeBack
<1>4. CASE Ends(r) /\ Shows(r, "refused", <<>>)
  <2>1. Threads' /\ Pool' BY <1>1, <1>4, MovedType
  <2>2. "refused" \in Outcomes BY DEF Outcomes
  <2>3. Newton' BY <1>1, <1>4, <2>2, EmptyTexts, ShownType
  <2>4. Drawn' BY <1>0, <1>1 DEF Drawn
  <2> QED BY <1>2, <2>1, <2>3, <2>4, TypeBack
<1> QED BY <1>3, <1>4 DEF Check

LEMMA SaveType == ASSUME InkTypeOK, NEW r \in DOMAIN request, r \in Page, Save(r) PROVE InkTypeOK'
<1>0. Newton /\ Threads /\ Slot /\ Pool /\ Drawn BY TypeParts
<1>1. /\ device' = device /\ shown' = shown /\ crossed' = crossed /\ job' = job
      /\ entry' = entry /\ picture' = [picture EXCEPT ![File(r)] = r[1]]
  BY DEF Save
<1>2. Threads' /\ Pool'
  <2>1. \E step \in Steps : Goes(r, step) BY DEF Save, Steps, Early
  <2> QED BY <1>1, <2>1, MovedType
<1>3. Drawn' BY <1>0, <1>1, PageFacts DEF Drawn
<1>4. Newton' /\ Slot' BY <1>0, <1>1 DEF Newton, Slot
<1> QED BY <1>2, <1>3, <1>4, TypeBack

LEMMA SubmitPageType ==
  ASSUME InkTypeOK, NEW r \in DOMAIN request, r \in Page, SubmitPage(r) PROVE InkTypeOK'
<1> DEFINE j == [state |-> "queued", note |-> 0]
<1>0. Newton /\ Threads /\ Slot /\ Pool /\ Drawn BY TypeParts
<1>1. /\ device' = device /\ shown' = shown /\ crossed' = crossed /\ picture' = picture
      /\ entry' = entry /\ job' = Put(job, r, j)
  BY DEF SubmitPage
<1>2. j \in Jobs BY DEF Jobs
<1> HIDE DEF j
<1>3. /\ DOMAIN Put(job, r, j) = DOMAIN job \cup {r}
      /\ Put(job, r, j) \in [DOMAIN job \cup {r} -> Jobs]
  BY <1>0, <1>2 DEF Pool, Put
<1>4. Pool' BY <1>0, <1>1, <1>3 DEF Pool
<1>5. DOMAIN job \subseteq DOMAIN job' BY <1>1, <1>3
<1>6. /\ \A x \in DOMAIN request : request[x] \in Handlers(DOMAIN job')
      /\ entry = NoEntry \/ entry \in [total : Nat, futures : Seq(DOMAIN job')]
  BY <1>5, MorePool
<1>7. Threads'
  <2>1. "append" \in Steps BY DEF Steps, Early
  <2>2. Goes(r, "append") BY DEF SubmitPage
  <2>3. /\ DOMAIN request' = DOMAIN request
        /\ request' \in [DOMAIN request -> Handlers(DOMAIN job)]
        /\ request'[r].step = "append" /\ request'[r].futures = request[r].futures
        /\ \A x \in DOMAIN request : x # r => request'[x] = request[x]
    BY <1>0, <2>1, <2>2, GoesFacts
  <2>4. request'[r] \in Handlers(DOMAIN job') BY <1>6, <2>1, <2>3 DEF Handlers
  <2>5. \A x \in DOMAIN request : request'[x] \in Handlers(DOMAIN job') BY <1>6, <2>3, <2>4
  <2>6. request' \in [DOMAIN request' -> Handlers(DOMAIN job')] BY <2>3, <2>5
  <2> QED BY <1>0, <2>3, <2>6 DEF Threads
<1>8. Newton' /\ Slot' /\ Drawn' BY <1>0, <1>1, <1>6 DEF Newton, Slot, Drawn
<1> QED BY <1>4, <1>7, <1>8, TypeBack

\* A thread that only ends, and may tell the Newton so.
LEMMA EndedType ==
  ASSUME InkTypeOK, NEW r \in DOMAIN request, r \in Page, Ends(r),
         UNCHANGED <<picture, job, crossed>>, entry' \in {entry, NoEntry},
         \/ UNCHANGED <<device, shown>>
         \/ \E how \in Outcomes, text \in Texts : Shows(r, how, text)
  PROVE  InkTypeOK'
<1>0. Newton /\ Threads /\ Slot /\ Pool /\ Drawn BY TypeParts
<1>1. Threads' /\ Pool' BY MovedType
<1>2. Newton'
  <2>1. CASE UNCHANGED <<device, shown>> BY <1>0, <2>1 DEF Newton
  <2>2. CASE \E how \in Outcomes, text \in Texts : Shows(r, how, text) BY <2>2, ShownType
  <2> QED BY <2>1, <2>2
<1>3. Slot' /\ Drawn' BY <1>0 DEF Slot, Drawn
<1> QED BY <1>1, <1>2, <1>3, TypeBack

LEMMA EndingsType ==
  ASSUME InkTypeOK, NEW r \in DOMAIN request, r \in Page,
         BadBody(r) \/ AppendLost(r) \/ StatusFails(r) \/ AnswerNote(r)
  PROVE  InkTypeOK'
<1>0. /\ <<>> \in Texts /\ Readings(r) \in Texts
      /\ "refused" \in Outcomes /\ "read" \in Outcomes /\ "error" \in Outcomes
  BY EmptyTexts, ReadingsType DEF Outcomes
<1>1. CASE BadBody(r) BY <1>1, EndedType DEF BadBody
<1>2. CASE AppendLost(r) BY <1>0, <1>2, EndedType DEF AppendLost
<1>3. CASE StatusFails(r) BY <1>3, EndedType DEF StatusFails
<1>4. CASE AnswerNote(r)
  <2>1. \E how \in Outcomes, text \in Texts : Shows(r, how, text) BY <1>0, <1>4 DEF AnswerNote
  <2>2. Ends(r) /\ UNCHANGED <<picture, job, crossed>> /\ entry' \in {entry, NoEntry}
    BY <1>4 DEF AnswerNote
  <2> QED BY <2>1, <2>2, EndedType
<1> QED BY <1>1, <1>2, <1>3, <1>4

LEMMA AppendLastType ==
  ASSUME InkTypeOK, NEW r \in DOMAIN request, r \in DOMAIN job, AppendLast(r)
  PROVE  InkTypeOK'
<1> DEFINE h == [step |-> "wait", futures |-> WithPage(r)]
<1>0. Newton /\ Threads /\ Slot /\ Pool /\ Drawn BY TypeParts
<1>1. /\ entry # NoEntry /\ entry' = [entry EXCEPT !.futures = WithPage(r)]
      /\ request' = [request EXCEPT ![r] = h]
      /\ UNCHANGED <<device, shown, picture, job, crossed>>
  BY DEF AppendLast
<1>2. /\ WithPage(r) \in Seq(DOMAIN job)
      /\ [entry EXCEPT !.futures = WithPage(r)] \in [total : Nat, futures : Seq(DOMAIN job)]
  BY <1>1, WithPageFacts
<1>3. h \in Handlers(DOMAIN job) BY <1>2 DEF Handlers, Steps
<1> HIDE DEF h
<1>4. Threads' BY <1>0, <1>1, <1>3 DEF Threads
<1>5. Slot'
  <2>1. entry' \in [total : Nat, futures : Seq(DOMAIN job)] BY <1>1, <1>2
  <2> QED BY <1>1, <2>1 DEF Slot
<1>6. Newton' /\ Pool' /\ Drawn' BY <1>0, <1>1 DEF Newton, Pool, Drawn
<1> QED BY <1>4, <1>5, <1>6, TypeBack

\* The thread of the page that INKP asks for.
NextPage(r) == <<r[1], r[2] + 1>>

LEMMA InkpFacts ==
  ASSUME InkTypeOK, NEW r \in DOMAIN request, r[2] < Pages[r[1]], Listens(r),
         request' = Put(Without(request, r), NextPage(r), [step |-> "check", futures |-> <<>>])
  PROVE  /\ NextPage(r) \in Page
         /\ DOMAIN request' = (DOMAIN request \ {r}) \cup {NextPage(r)}
         /\ request' \in [DOMAIN request' -> Handlers(DOMAIN job)]
         /\ request'[NextPage(r)] = [step |-> "check", futures |-> <<>>]
         /\ \A x \in DOMAIN request' : x # NextPage(r) => request'[x] = request[x]
<1> DEFINE h == [step |-> "check", futures |-> <<>>]
           rest == Without(request, r)
           s == NextPage(r)
<1>0. Threads BY TypeParts
<1>1. h \in Handlers(DOMAIN job) BY EmptyTexts DEF Handlers, Steps, Early
<1>2. s \in Page
  <2>1. r \in Page BY <1>0 DEF Threads
  <2>2. r[1] \in Notes /\ r[2] \in 1..Pages[r[1]] /\ Pages[r[1]] \in Nat
    BY <2>1, PageFacts, NoteFacts
  <2>3. r[2] + 1 \in 1..Pages[r[1]] BY <2>2
  <2> QED BY <2>2, <2>3, NoteFacts DEF NextPage
<1>3. /\ DOMAIN rest = DOMAIN request \ {r}
      /\ rest \in [DOMAIN rest -> Handlers(DOMAIN job)]
      /\ \A x \in DOMAIN rest : rest[x] = request[x]
  BY <1>0 DEF Threads, Without
<1>4. request' = Put(rest, s, h) OBVIOUS
<1> HIDE DEF h, rest, s
<1>5. /\ DOMAIN Put(rest, s, h) = DOMAIN rest \cup {s} /\ Put(rest, s, h)[s] = h
      /\ Put(rest, s, h) \in [DOMAIN rest \cup {s} -> Handlers(DOMAIN job)]
      /\ \A x \in DOMAIN rest : x # s => Put(rest, s, h)[x] = rest[x]
  BY <1>1, <1>3 DEF Put
<1>6. DOMAIN request' = DOMAIN rest \cup {s} BY <1>4, <1>5
<1>7. request' \in [DOMAIN request' -> Handlers(DOMAIN job)] BY <1>4, <1>5, <1>6
<1>8. \A x \in DOMAIN request' : x # s => request'[x] = request[x]
  BY <1>3, <1>4, <1>5, <1>6
<1>9. request'[s] = h BY <1>4, <1>5
<1> QED BY <1>2, <1>3, <1>6, <1>7, <1>8, <1>9 DEF h, s

LEMMA AppendInkpType ==
  ASSUME InkTypeOK, NEW r \in DOMAIN request, r \in DOMAIN job, AppendInkp(r)
  PROVE  InkTypeOK'
<1>0. Newton /\ Threads /\ Slot /\ Pool /\ Drawn BY TypeParts
<1>1. /\ entry # NoEntry /\ entry' = [entry EXCEPT !.futures = WithPage(r)]
      /\ r[2] < Pages[r[1]] /\ UNCHANGED <<shown, picture, job, crossed>>
  BY DEF AppendInkp
<1>2. [entry EXCEPT !.futures = WithPage(r)] \in [total : Nat, futures : Seq(DOMAIN job)]
  BY <1>1, WithPageFacts
<1>3. Slot'
  <2>1. entry' \in [total : Nat, futures : Seq(DOMAIN job)] BY <1>1, <1>2
  <2> QED BY <1>1, <2>1 DEF Slot
<1>4. Pool' /\ Drawn' BY <1>0, <1>1 DEF Pool, Drawn
<1>5. CASE Listens(r)
  <2>1. /\ device' = [device EXCEPT !.page = r[2] + 1]
        /\ request' = Put(Without(request, r), NextPage(r), [step |-> "check", futures |-> <<>>])
    BY <1>5 DEF AppendInkp, NextPage
  <2>2. r[2] + 1 \in Nat BY <1>0, PageFacts DEF Threads
  <2>3. Newton' BY <1>0, <1>1, <2>1, <2>2 DEF Newton
  <2>4. /\ NextPage(r) \in Page
        /\ DOMAIN request' = (DOMAIN request \ {r}) \cup {NextPage(r)}
        /\ request' \in [DOMAIN request' -> Handlers(DOMAIN job)]
    BY <1>1, <1>5, <2>1, InkpFacts
  <2>5. Threads' BY <1>0, <1>1, <2>4 DEF Threads
  <2> QED BY <1>3, <1>4, <2>3, <2>5, TypeBack
<1>6. CASE ~Listens(r)
  <2>1. Ends(r) /\ device' = device BY <1>6 DEF AppendInkp
  <2>2. Threads' BY <1>1, <2>1, MovedType
  <2>3. Newton' BY <1>0, <1>1, <2>1 DEF Newton
  <2> QED BY <1>3, <1>4, <2>2, <2>3, TypeBack
<1> QED BY <1>5, <1>6

\* A reading begins, on what the file holds by then, or ends.
LEMMA PoolStep ==
  ASSUME InkTypeOK, NEW r \in Page, Start(r) \/ Finish(r)
  PROVE  /\ UNCHANGED <<device, shown, request, entry, picture, crossed>>
         /\ r \in DOMAIN job /\ DOMAIN job' = DOMAIN job /\ job' \in [DOMAIN job -> Jobs]
         /\ \A x \in DOMAIN job : x # r => job'[x] = job[x]
         /\ \/ Start(r) /\ job'[r].note = picture[r[2]]
            \/ Finish(r) /\ job[r].state = "running" /\ job'[r].note = job[r].note
<1>0. Pool /\ Drawn BY TypeParts
<1>1. CASE Start(r)
  <2>1. job' = [job EXCEPT ![r] = [state |-> "running", note |-> picture[r[2]]]]
    BY <1>1 DEF Start
  <2>2. picture[r[2]] \in {0} \cup Notes BY <1>0, PageFacts DEF Drawn
  <2>3. [state |-> "running", note |-> picture[r[2]]] \in Jobs BY <2>2 DEF Jobs
  <2> QED BY <1>0, <1>1, <2>1, <2>3 DEF Start, Pool
<1>2. CASE Finish(r)
  <2>1. r \in DOMAIN job /\ job[r].state = "running" /\ job' = [job EXCEPT ![r].state = "done"]
    BY <1>2 DEF Finish, Running
  <2>2. job[r] \in Jobs BY <1>0, <2>1 DEF Pool
  <2>3. [job[r] EXCEPT !.state = "done"] \in Jobs BY <2>2 DEF Jobs
  <2>4. job' = [job EXCEPT ![r] = [job[r] EXCEPT !.state = "done"]] BY <2>1
  <2>5. [job[r] EXCEPT !.state = "done"].note = job[r].note BY <2>2 DEF Jobs
  <2> QED BY <1>0, <1>2, <2>1, <2>3, <2>4, <2>5 DEF Finish, Pool
<1> QED BY <1>1, <1>2

LEMMA PoolType == ASSUME InkTypeOK, NEW r \in Page, Start(r) \/ Finish(r) PROVE InkTypeOK'
<1>0. Newton /\ Threads /\ Slot /\ Pool /\ Drawn BY TypeParts
<1>1. /\ UNCHANGED <<device, shown, request, entry, picture, crossed>>
      /\ DOMAIN job' = DOMAIN job /\ job' \in [DOMAIN job -> Jobs]
  BY PoolStep
<1>2. Newton' /\ Threads' /\ Slot' /\ Pool' /\ Drawn'
  BY <1>0, <1>1 DEF Newton, Threads, Slot, Pool, Drawn
<1> QED BY <1>2, TypeBack

LEMMA GiveUpType == ASSUME InkTypeOK, GiveUp PROVE InkTypeOK'
<1>0. Newton /\ Threads /\ Slot /\ Pool /\ Drawn BY TypeParts
<1>1. /\ UNCHANGED <<request, entry, picture, job, crossed>>
      /\ device' = [device EXCEPT !.waits = FALSE]
      /\ shown' = [shown EXCEPT ![device.note].how = "lost"]
  BY DEF GiveUp
<1>2. Newton'
  <2>1. "lost" \in Outcomes BY DEF Outcomes
  <2>2. device' \in [note : {0} \cup Notes, page : Nat, waits : BOOLEAN] BY <1>0, <1>1 DEF Newton
  <2>3. shown' \in [Notes -> [how : Outcomes, text : Texts]] BY <1>0, <1>1, <2>1 DEF Newton
  <2> QED BY <1>0, <1>1, <2>2, <2>3 DEF Newton
<1>3. Threads' /\ Slot' /\ Pool' /\ Drawn'
  BY <1>0, <1>1 DEF Threads, Slot, Pool, Drawn
<1> QED BY <1>2, <1>3, TypeBack

-----------------------------------------------------------------------------
(* The invariant, thread by thread.                                        *)

LEMMA LeadingFacts ==
  ASSUME NEW n \in Notes, NEW k \in 1..Pages[n]
  PROVE  /\ Leading(n, 0) = <<>>
         /\ Leading(n, k - 1) \in Seq(Page)
         /\ Append(Leading(n, k - 1), <<n, k>>) = Leading(n, k)
         /\ Len(Leading(n, k - 1)) = k - 1
<1>1. k \in Nat /\ k > 0 /\ k - 1 \in Nat BY NoteFacts
<1>2. Leading(n, 0) = <<>>
  <2>1. 1..0 = {} OBVIOUS
  <2> QED BY <2>1 DEF Leading
<1>3. \A i \in 1..(k - 1) : <<n, i>> \in Page
  <2> SUFFICES ASSUME NEW i \in 1..(k - 1) PROVE <<n, i>> \in Page
    OBVIOUS
  <2>1. i \in 1..Pages[n] BY <1>1, NoteFacts
  <2> QED BY <2>1, NoteFacts
<1>4. Leading(n, k - 1) \in [1..(k - 1) -> Page] BY <1>3 DEF Leading
<1>5. Leading(n, k - 1) \in Seq(Page) BY <1>1, <1>4, IsASeq
<1>6. Len(Leading(n, k - 1)) = k - 1
  <2>1. DOMAIN Leading(n, k - 1) = 1..(k - 1) BY DEF Leading
  <2>2. /\ Len(Leading(n, k - 1)) \in Nat
        /\ DOMAIN Leading(n, k - 1) = 1..Len(Leading(n, k - 1))
    BY <1>5, LenProperties
  <2> QED BY <1>1, <2>1, <2>2
<1>7. Append(Leading(n, k - 1), <<n, k>>) = Leading(n, k)
  <2> DEFINE a == Append(Leading(n, k - 1), <<n, k>>)
  <2>1. <<n, k>> \in Page BY NoteFacts
  <2>2. /\ a \in Seq(Page) /\ Len(a) = k /\ a[k] = <<n, k>>
        /\ \A i \in 1..(k - 1) : a[i] = Leading(n, k - 1)[i]
    BY <1>1, <1>5, <1>6, <2>1, AppendProperties
  <2> HIDE DEF a
  <2>3. DOMAIN a = 1..k BY <2>2, LenProperties
  <2>4. \A i \in 1..k : a[i] = <<n, i>> BY <1>1, <2>2 DEF Leading
  <2>5. a = [i \in 1..k |-> a[i]] BY <2>2, <2>3, LenProperties
  <2> QED BY <2>4, <2>5 DEF Leading, a
<1> QED BY <1>2, <1>5, <1>6, <1>7

\* What every thread step leaves alone.
Aside(r) ==
    /\ device'.note = device.note /\ crossed' = crossed
    /\ DOMAIN job' \subseteq DOMAIN job \cup {r}
    /\ \A n \in Notes : n # device.note => shown'[n] = shown[n]

LEMMA ShowsAside ==
  ASSUME InkTypeOK, NEW r \in Page, NEW how \in Outcomes, NEW text \in Texts, Shows(r, how, text)
  PROVE  /\ device'.note = device.note
         /\ \A n \in Notes : n # device.note => shown'[n] = shown[n]
<1>1. Newton BY TypeParts
<1>2. /\ device'.note = device.note
      /\ \A n \in Notes :
             \/ shown'[n] = shown[n]
             \/ n = r[1] /\ n = device.note /\ shown'[n] = [how |-> how, text |-> text]
  BY <1>1, ShowsFacts
<1> QED BY <1>2

LEMMA ThreadAside ==
  ASSUME InkTypeOK, NEW r \in DOMAIN request, r \in Page, Thread(r) PROVE Aside(r)
<1>0. /\ Newton /\ <<>> \in Texts /\ Readings(r) \in Texts
      /\ "refused" \in Outcomes /\ "read" \in Outcomes /\ "error" \in Outcomes
  BY TypeParts, EmptyTexts, ReadingsType DEF Outcomes
<1>1. CASE BadBody(r) \/ StatusFails(r) \/ Save(r) \/ AppendLast(r)
  BY <1>1 DEF BadBody, StatusFails, Save, AppendLast, Aside
<1>2. CASE SubmitPage(r)
  <2>1. UNCHANGED <<device, shown, crossed>> /\ job' = Put(job, r, [state |-> "queued", note |-> 0])
    BY <1>2 DEF SubmitPage
  <2>2. DOMAIN job' = DOMAIN job \cup {r} BY <2>1 DEF Put
  <2> QED BY <2>1, <2>2 DEF Aside
<1>3. CASE Check(r) BY <1>0, <1>3, ShowsAside DEF Check, Aside
<1>4. CASE AppendLost(r) BY <1>0, <1>4, ShowsAside DEF AppendLost, Aside
<1>5. CASE AnswerNote(r) BY <1>0, <1>5, ShowsAside DEF AnswerNote, Aside
<1>6. CASE AppendInkp(r)
  <2>1. device' = [device EXCEPT !.page = r[2] + 1] \/ device' = device
    BY <1>6 DEF AppendInkp
  <2>2. device'.note = device.note BY <1>0, <2>1 DEF Newton
  <2> QED BY <1>6, <2>2 DEF AppendInkp, Aside
<1> QED BY <1>1, <1>2, <1>3, <1>4, <1>5, <1>6 DEF Thread

\* A thread that runs keeps its place.
LEMMA ThreadPlaced ==
  ASSUME InkTypeOK, Placed, NEW r \in DOMAIN request, r \in Page, Aside(r),
         \/ DOMAIN request' \subseteq DOMAIN request
         \/ DOMAIN request' = (DOMAIN request \ {r}) \cup {NextPage(r)}
  PROVE  Placed'
<1>1. \A x \in DOMAIN job' : x[1] <= device'.note BY DEF Placed, Aside
<1>2. ASSUME NEW n \in Notes, n > device'.note PROVE shown'[n].how = "nothing"
  <2>1. n # device.note /\ n > device.note
    <3>1. Newton /\ n \in Nat BY TypeParts, NoteFacts
    <3>2. device.note \in Nat BY <3>1, NoteIsNat
    <3>3. device'.note = device.note BY DEF Aside
    <3>4. n > device.note BY <1>2, <3>3
    <3> QED BY <3>1, <3>2, <3>4
  <2> QED BY <2>1 DEF Placed, Aside
<1>3. CASE DOMAIN request' \subseteq DOMAIN request
  <2>1. \A x \in DOMAIN request' : x[1] <= device'.note BY <1>3 DEF Placed, Aside
  <2>2. \A x, s \in DOMAIN request' : x[1] = device'.note /\ s[1] = device'.note => x = s
    BY <1>3 DEF Placed, Aside
  <2> QED BY <1>1, <1>2, <2>1, <2>2 DEF Placed
<1>4. CASE DOMAIN request' = (DOMAIN request \ {r}) \cup {NextPage(r)}
  <2>0. NextPage(r)[1] = r[1] BY DEF NextPage
  <2>1. \A x \in DOMAIN request' : x[1] <= device'.note BY <1>4, <2>0 DEF Placed, Aside
  <2>2. \A x, s \in DOMAIN request' : x[1] = device'.note /\ s[1] = device'.note => x = s
    <3> SUFFICES ASSUME NEW x \in DOMAIN request', NEW s \in DOMAIN request',
                        x[1] = device.note, s[1] = device.note
                 PROVE  x = s
      BY DEF Aside
    <3>1. CASE x \in DOMAIN request \ {r} /\ s \in DOMAIN request \ {r} BY <3>1 DEF Placed
    <3>2. CASE x = NextPage(r) /\ s \in DOMAIN request \ {r} BY <2>0, <3>2 DEF Placed
    <3>3. CASE s = NextPage(r) /\ x \in DOMAIN request \ {r} BY <2>0, <3>3 DEF Placed
    <3> QED BY <1>4, <3>1, <3>2, <3>3
  <2> QED BY <1>1, <1>2, <2>1, <2>2 DEF Placed
<1> QED BY <1>3, <1>4

\* The other threads, when one does its step.
LEMMA OthersTidy ==
  ASSUME Placed, Current, Clean, NEW r \in DOMAIN request, r[1] = device.note,
         Aside(r),
         NEW x \in DOMAIN request', x \in DOMAIN request, x # r, request'[x] = request[x]
  PROVE  Tidy(x)'
<1>1. x[1] # device.note BY DEF Placed
<1>2. request[x].step = "wait" /\ crossed[device.note] # "no" BY <1>1 DEF Current, Tidy
<1> QED BY <1>1, <1>2 DEF Tidy, Aside

\* The step of the current note's thread is to be tidy itself, and to keep the jobs.
LEMMA CurrentMoves ==
  ASSUME InkTypeOK, InkInv, NEW r \in DOMAIN request, r \in Page, Aside(r),
         \A x \in DOMAIN request' : x # r => x \in DOMAIN request /\ request'[x] = request[x],
         Clean => r[1] = device.note /\ (r \in DOMAIN request' => Own(r)'),
         Clean => \A x \in DOMAIN job' : x[1] = device.note => Kept(x)'
  PROVE  Current'
<1> SUFFICES ASSUME Clean' PROVE /\ \A x \in DOMAIN request' : Tidy(x)'
                                 /\ \A x \in DOMAIN job' : x[1] = device'.note => Kept(x)'
  BY DEF Current
<1>1. Clean /\ device'.note = device.note BY DEF Clean, Aside
<1>2. ASSUME NEW x \in DOMAIN request' PROVE Tidy(x)'
  <2>1. CASE x = r BY <1>1, <1>2, <2>1 DEF Tidy
  <2>2. CASE x # r BY <1>1, <1>2, <2>2, OthersTidy DEF InkInv
  <2> QED BY <2>1, <2>2
<1> QED BY <1>1, <1>2

\* A thread that does not only wait is of the current note, if that is not crossed.
LEMMA BusyIsOwn ==
  ASSUME Current, Clean, NEW r \in DOMAIN request, request[r].step # "wait"
  PROVE  r[1] = device.note /\ Own(r)
BY DEF Current, Tidy

LEMMA JobsKept ==
  ASSUME Current, Clean, job' = job, picture' = picture
  PROVE  \A x \in DOMAIN job' : x[1] = device.note => Kept(x)'
BY DEF Current, Kept

\* A thread ends; the entry goes only where none of the current note needs it.
LEMMA EndsInv ==
  ASSUME InkTypeOK, InkInv, NEW r \in DOMAIN request, r \in Page, Thread(r), Ends(r),
         picture' = picture, job' = job,
         request[r].step = "wait" => entry' \in {entry, NoEntry}
  PROVE  InkInv'
<1>0. Threads /\ Aside(r) BY TypeParts, ThreadAside
<1>1. /\ DOMAIN request' = DOMAIN request \ {r}
      /\ \A x \in DOMAIN request' : request'[x] = request[x]
  BY <1>0, EndsFacts
<1>2. Placed' BY <1>0, <1>1, ThreadPlaced DEF InkInv
<1>3. Stepped' BY <1>1 DEF InkInv, Stepped
<1>4. Current'
  <2>1. CASE Clean /\ r[1] # device.note
    <3>1. request[r].step = "wait" /\ crossed[device.note] # "no"
      BY <2>1 DEF InkInv, Current, Tidy
    <3>2. ASSUME NEW x \in DOMAIN request' PROVE Tidy(x)'
      <4>1. Tidy(x) /\ request'[x] = request[x] BY <1>1, <2>1, <3>2 DEF InkInv, Current
      <4>2. device'.note = device.note /\ crossed' = crossed BY <1>0 DEF Aside
      <4>3. CASE x[1] = device.note
        <5>1. Own(x) BY <4>1, <4>3 DEF Tidy
        <5>2. Own(x)'
          <6>1. entry' = entry \/ (entry' = NoEntry /\ crossed'[x[1]] # "no")
            BY <3>1, <4>2, <4>3
          <6> QED BY <4>1, <4>2, <5>1, <6>1 DEF Own, Gathers
        <5> QED BY <4>2, <4>3, <5>2 DEF Tidy
      <4>4. CASE x[1] # device.note BY <4>1, <4>2, <4>4 DEF Tidy
      <4> QED BY <4>3, <4>4
    <3>3. \A x \in DOMAIN job' : x[1] = device.note => Kept(x)' BY <2>1, JobsKept DEF InkInv
    <3> QED BY <1>0, <3>2, <3>3 DEF Current, Aside
  <2>2. CASE Clean => r[1] = device.note
    <3>1. Clean => \A x \in DOMAIN job' : x[1] = device.note => Kept(x)'
      BY JobsKept DEF InkInv
    <3>2. r \notin DOMAIN request' BY <1>1
    <3>3. \A x \in DOMAIN request' : x # r => x \in DOMAIN request /\ request'[x] = request[x]
      BY <1>1
    <3> QED BY <1>0, <2>2, <3>1, <3>2, <3>3, CurrentMoves
  <2> QED BY <2>1, <2>2
<1> QED BY <1>2, <1>3, <1>4 DEF InkInv

\* A thread goes on, in the note that is current if that is not crossed.
LEMMA GoesInv ==
  ASSUME InkTypeOK, InkInv, NEW r \in DOMAIN request, r \in Page, Thread(r),
         NEW step \in Steps, Goes(r, step), request[r].step # "wait",
         Single(r[1]) => step \notin {"submit", "append"},
         step = "append" => r \in DOMAIN job', DOMAIN job \subseteq DOMAIN job',
         Clean => Own(r)',
         Clean => \A x \in DOMAIN job' : x[1] = device.note => Kept(x)'
  PROVE  InkInv'
<1>0. Threads /\ Aside(r) BY TypeParts, ThreadAside
<1>1. /\ DOMAIN request' = DOMAIN request /\ request'[r].step = step
      /\ \A x \in DOMAIN request : x # r => request'[x] = request[x]
  BY <1>0, GoesFacts
<1>2. Placed' BY <1>0, <1>1, ThreadPlaced DEF InkInv
<1>3. Stepped'
  <2> SUFFICES ASSUME NEW x \in DOMAIN request'
               PROVE  /\ Single(x[1]) => request'[x].step \notin {"submit", "append"}
                      /\ request'[x].step = "append" => x \in DOMAIN job'
    BY DEF Stepped, Single
  <2>1. CASE x = r BY <1>1, <2>1
  <2>2. CASE x # r BY <1>1, <2>2 DEF InkInv, Stepped
  <2> QED BY <2>1, <2>2
<1>4. Clean => r[1] = device.note BY BusyIsOwn DEF InkInv
<1>5. Current' BY <1>0, <1>1, <1>4, CurrentMoves
<1> QED BY <1>2, <1>3, <1>5 DEF InkInv

LEMMA CheckInv == ASSUME InkTypeOK, InkInv, NEW r \in DOMAIN request, r \in Page, Check(r) PROVE InkInv'
<1>0. /\ Thread(r) /\ On(r, "check") /\ request[r].step = "check" /\ Threads
      /\ picture' = picture /\ job' = job /\ crossed' = crossed
  BY TypeParts DEF Check, On, Thread
<1>1. CASE Ends(r)
  <2>1. request[r].step # "wait" BY <1>0
  <2> QED BY <1>0, <1>1, <2>1, EndsInv
<1>2. CASE ~Ends(r)
  <2>1. Goes(r, "save") /\ (r[2] = 1 \/ Fits(r)) BY <1>2 DEF Check
  <2>2. "save" \in Steps /\ "save" \notin {"submit", "append"} /\ "save" # "append"
    BY DEF Steps, Early
  <2>3. request'[r].step = "save" BY <1>0, <2>1, <2>2, GoesFacts
  <2>4. ASSUME Clean PROVE Own(r)'
    <3>1. Own(r) /\ r[1] = device.note BY <1>0, <2>4, BusyIsOwn DEF InkInv
    <3>2. r[1] \in Notes /\ r[2] \in 1..Pages[r[1]] BY PageFacts
    <3>3. ASSUME ~Single(r[1])
          PROVE  \/ entry' = NoEntry /\ crossed'[r[1]] # "no"
                 \/ entry' = [total |-> Pages[r[1]], futures |-> Leading(r[1], r[2] - 1)]
      <4>1. CASE r[2] = 1
        <5>1. entry' = [total |-> Pages[r[1]], futures |-> <<>>] BY <3>3, <4>1 DEF Check
        <5>2. Leading(r[1], 0) = <<>> BY <3>2, LeadingFacts
        <5>3. r[2] - 1 = 0 BY <4>1
        <5> QED BY <5>1, <5>2, <5>3
      <4>2. CASE r[2] # 1
        <5>1. entry' = entry BY <4>2 DEF Check
        <5>2. r[2] > 1 BY <3>2, <4>2, NoteFacts
        <5>3. Gathers(r) BY <1>0, <3>3, <5>2 DEF Gathers
        <5> QED BY <1>0, <3>1, <5>1, <5>3 DEF Own
      <4> QED BY <4>1, <4>2
    <3>4. request'[r].step \notin {"submit", "append", "wait"} BY <2>3
    <3>5. Gathers(r)' => ~Single(r[1]) BY DEF Gathers, Single
    <3> QED BY <3>3, <3>4, <3>5 DEF Own
  <2>5. Clean => \A x \in DOMAIN job' : x[1] = device.note => Kept(x)' BY <1>0, JobsKept DEF InkInv
  <2>6. request[r].step # "wait" /\ DOMAIN job \subseteq DOMAIN job' BY <1>0
  <2> QED BY <1>0, <2>1, <2>2, <2>4, <2>5, <2>6, GoesInv
<1> QED BY <1>1, <1>2

LEMMA SaveInv == ASSUME InkTypeOK, InkInv, NEW r \in DOMAIN request, r \in Page, Save(r) PROVE InkInv'
<1> DEFINE step == IF Single(r[1]) THEN "wait" ELSE "submit"
<1>0. /\ Thread(r) /\ request[r].step = "save" /\ Threads /\ Drawn /\ Goes(r, step)
      /\ picture' = [picture EXCEPT ![File(r)] = r[1]]
      /\ job' = job /\ crossed' = crossed /\ entry' = entry /\ device' = device
  BY TypeParts DEF Save, On, Thread
<1>1. step \in Steps BY DEF Steps, Early
<1>2. /\ step # "append" /\ (Single(r[1]) => step = "wait")
      /\ (~Single(r[1]) => step = "submit") /\ step \in {"wait", "submit"}
  OBVIOUS
<1> HIDE DEF step
<1>3. request'[r].step = step BY <1>0, <1>1, GoesFacts
<1>4. picture'[File(r)] = r[1] /\ \A f \in Files : picture'[f] \in {picture[f], r[1]}
  BY <1>0, PageFacts DEF Drawn
<1>5. ASSUME Clean PROVE Own(r)'
  <2>1. Own(r) /\ r[1] = device.note BY <1>0, <1>5, BusyIsOwn DEF InkInv
  <2>2. Gathers(r)' => Gathers(r) BY <1>0, <1>2, <1>3 DEF Gathers, Single
  <2>3. request'[r].step = "wait" => Single(r[1]) BY <1>2, <1>3
  <2>4. File(r)' = File(r) /\ (Single(r[1])' <=> Single(r[1])) BY DEF File, Single
  <2> QED BY <1>0, <1>4, <2>1, <2>2, <2>3, <2>4 DEF Own
<1>6. ASSUME Clean PROVE \A x \in DOMAIN job' : x[1] = device.note => Kept(x)'
  <2> SUFFICES ASSUME NEW x \in DOMAIN job, x[1] = device.note PROVE Kept(x)'
    BY <1>0
  <2>1. Kept(x) /\ r[1] = device.note BY <1>0, <1>6, BusyIsOwn DEF InkInv, Current
  <2>2. x[2] \in Files
    <3>1. x \in Page BY TypeParts DEF Pool
    <3> QED BY <3>1, PageFacts
  <2> QED BY <1>0, <1>4, <2>1, <2>2 DEF Kept
<1>7. Single(r[1]) => step \notin {"submit", "append"} BY <1>2
<1>8. /\ request[r].step # "wait" /\ DOMAIN job \subseteq DOMAIN job'
      /\ (step = "append" => r \in DOMAIN job')
  BY <1>0, <1>2
<1> QED BY <1>0, <1>1, <1>5, <1>6, <1>7, <1>8, GoesInv

LEMMA SubmitPageInv ==
  ASSUME InkTypeOK, InkInv, NEW r \in DOMAIN request, r \in Page, SubmitPage(r) PROVE InkInv'
<1> DEFINE j == [state |-> "queued", note |-> 0]
<1>0. /\ Thread(r) /\ request[r].step = "submit" /\ Threads /\ Goes(r, "append")
      /\ job' = Put(job, r, j)
      /\ picture' = picture /\ crossed' = crossed /\ entry' = entry /\ device' = device
  BY TypeParts DEF SubmitPage, On, Thread
<1>1. "append" \in Steps BY DEF Steps, Early
<1>2. ~Single(r[1]) BY <1>0 DEF InkInv, Stepped
<1>3. request'[r].step = "append" BY <1>0, <1>1, GoesFacts
<1>4. /\ DOMAIN job' = DOMAIN job \cup {r} /\ job'[r].state = "queued"
      /\ \A x \in DOMAIN job : x # r => job'[x] = job[x]
  BY <1>0 DEF Put
<1>5. ASSUME Clean PROVE Own(r)'
  <2>1. Own(r) /\ r[1] = device.note BY <1>0, <1>5, BusyIsOwn DEF InkInv
  <2>2. Gathers(r) BY <1>0, <1>2 DEF Gathers
  <2>3. File(r)' = File(r) BY DEF File, Single
  <2> QED BY <1>0, <1>3, <2>1, <2>2, <2>3 DEF Own
<1>6. ASSUME Clean PROVE \A x \in DOMAIN job' : x[1] = device.note => Kept(x)'
  <2> SUFFICES ASSUME NEW x \in DOMAIN job', x[1] = device.note PROVE Kept(x)'
    OBVIOUS
  <2>1. CASE x = r
    <3>1. Own(r) BY <1>0, <1>6, BusyIsOwn DEF InkInv
    <3>2. picture[r[2]] = r[1] BY <1>0, <1>2, <3>1 DEF Own, File
    <3> QED BY <1>0, <1>4, <2>1, <3>2 DEF Kept
  <2>2. CASE x # r
    <3>1. x \in DOMAIN job BY <1>4, <2>2
    <3>2. Kept(x) BY <1>6, <3>1 DEF InkInv, Current
    <3> QED BY <1>0, <1>4, <2>2, <3>1, <3>2 DEF Kept
  <2> QED BY <2>1, <2>2
<1>7. /\ request[r].step # "wait" /\ DOMAIN job \subseteq DOMAIN job' /\ r \in DOMAIN job'
      /\ (Single(r[1]) => "append" \notin {"submit", "append"})
  BY <1>0, <1>2, <1>4
<1> QED BY <1>0, <1>1, <1>5, <1>6, <1>7, GoesInv

LEMMA AppendLastInv ==
  ASSUME InkTypeOK, InkInv, NEW r \in DOMAIN request, r \in Page, AppendLast(r) PROVE InkInv'
<1> DEFINE h == [step |-> "wait", futures |-> WithPage(r)]
<1>0. /\ Thread(r) /\ request[r].step = "append" /\ Threads /\ entry # NoEntry
      /\ request' = [request EXCEPT ![r] = h] /\ r[2] = Pages[r[1]]
      /\ picture' = picture /\ crossed' = crossed /\ device' = device /\ job' = job
  BY TypeParts DEF AppendLast, On, Thread
<1>1. /\ DOMAIN request' = DOMAIN request
      /\ request'[r].step = "wait" /\ request'[r].futures = WithPage(r)
      /\ \A x \in DOMAIN request : x # r => request'[x] = request[x]
  BY <1>0 DEF Threads
<1>2. ~Single(r[1]) BY <1>0 DEF InkInv, Stepped
<1>3. Aside(r) BY <1>0, ThreadAside
<1>4. Placed' BY <1>1, <1>3, ThreadPlaced DEF InkInv
<1>5. Stepped'
  <2> SUFFICES ASSUME NEW x \in DOMAIN request'
               PROVE  /\ Single(x[1]) => request'[x].step \notin {"submit", "append"}
                      /\ request'[x].step = "append" => x \in DOMAIN job'
    BY DEF Stepped, Single
  <2>1. CASE x = r BY <1>1, <2>1
  <2>2. CASE x # r BY <1>0, <1>1, <2>2 DEF InkInv, Stepped
  <2> QED BY <2>1, <2>2
<1>6. ASSUME Clean PROVE r[1] = device.note /\ Own(r)'
  <2>1. Own(r) /\ r[1] = device.note BY <1>0, <1>6, BusyIsOwn DEF InkInv
  <2>2. Gathers(r) BY <1>0, <1>2 DEF Gathers
  <2>3. entry = [total |-> Pages[r[1]], futures |-> Leading(r[1], r[2] - 1)]
    BY <1>0, <2>1, <2>2 DEF Own
  <2>4. r = <<r[1], r[2]>> /\ r[1] \in Notes /\ r[2] \in 1..Pages[r[1]] BY PageFacts
  <2>5. Append(Leading(r[1], r[2] - 1), <<r[1], r[2]>>) = Leading(r[1], r[2])
    BY <2>4, LeadingFacts
  <2>6. WithPage(r) = Leading(r[1], Pages[r[1]]) BY <1>0, <2>3, <2>4, <2>5 DEF WithPage
  <2>7. ~Gathers(r)' BY <1>1 DEF Gathers
  <2>8. File(r)' = File(r) BY DEF File, Single
  <2> QED BY <1>0, <1>1, <2>1, <2>6, <2>7, <2>8 DEF Own
<1>7. Clean => \A x \in DOMAIN job' : x[1] = device.note => Kept(x)' BY <1>0, JobsKept DEF InkInv
<1>8. Current' BY <1>1, <1>3, <1>6, <1>7, CurrentMoves
<1> QED BY <1>4, <1>5, <1>8 DEF InkInv

LEMMA AppendInkpInv ==
  ASSUME InkTypeOK, InkInv, NEW r \in DOMAIN request, r \in Page, AppendInkp(r) PROVE InkInv'
<1> DEFINE s == NextPage(r)
<1>0. /\ Thread(r) /\ request[r].step = "append" /\ Threads /\ entry # NoEntry
      /\ entry' = [entry EXCEPT !.futures = WithPage(r)] /\ r[2] < Pages[r[1]]
      /\ picture' = picture /\ crossed' = crossed /\ job' = job
  BY TypeParts DEF AppendInkp, On, Thread
<1>1. CASE ~Listens(r)
  <2>1. Ends(r) /\ request[r].step # "wait" BY <1>0, <1>1 DEF AppendInkp
  <2> QED BY <1>0, <2>1, EndsInv
<1>2. CASE Listens(r)
  <2>1. request' = Put(Without(request, r), s, [step |-> "check", futures |-> <<>>])
    BY <1>2 DEF AppendInkp, NextPage
  <2>2. /\ s \in Page
        /\ DOMAIN request' = (DOMAIN request \ {r}) \cup {s}
        /\ request'[s] = [step |-> "check", futures |-> <<>>]
        /\ \A x \in DOMAIN request' : x # s => request'[x] = request[x]
    BY <1>0, <1>2, <2>1, InkpFacts
  <2>3. request'[s].step = "check" BY <2>2
  <2>4. Aside(r) BY <1>0, ThreadAside
  <2>5. Placed' BY <2>2, <2>4, ThreadPlaced DEF InkInv
  <2>6. Stepped'
    <3> SUFFICES ASSUME NEW x \in DOMAIN request'
                 PROVE  /\ Single(x[1]) => request'[x].step \notin {"submit", "append"}
                        /\ request'[x].step = "append" => x \in DOMAIN job'
      BY DEF Stepped, Single
    <3>1. CASE x = s BY <2>3, <3>1
    <3>2. CASE x # s BY <1>0, <2>2, <3>2 DEF InkInv, Stepped
    <3> QED BY <3>1, <3>2
  <2>7. Current'
    <3> SUFFICES ASSUME Clean' PROVE /\ \A x \in DOMAIN request' : Tidy(x)'
                                     /\ \A x \in DOMAIN job' : x[1] = device'.note => Kept(x)'
      BY DEF Current
    <3>1. Clean /\ device'.note = device.note BY <2>4 DEF Clean, Aside
    <3>2. \A x \in DOMAIN job' : x[1] = device'.note => Kept(x)'
      BY <1>0, <3>1, JobsKept DEF InkInv
    <3>3. Own(r) /\ r[1] = device.note BY <1>0, <3>1, BusyIsOwn DEF InkInv
    <3>4. s[1] = r[1] /\ s[2] = r[2] + 1 BY DEF NextPage
    <3>5. Own(s)'
      <4>1. ~Single(r[1]) BY <1>0 DEF InkInv, Stepped
      <4>2. Gathers(r) BY <1>0, <4>1 DEF Gathers
      <4>3. entry = [total |-> Pages[r[1]], futures |-> Leading(r[1], r[2] - 1)]
        BY <1>0, <3>3, <4>2 DEF Own
      <4>4. r = <<r[1], r[2]>> /\ r[1] \in Notes /\ r[2] \in 1..Pages[r[1]] BY PageFacts
      <4>5. Append(Leading(r[1], r[2] - 1), <<r[1], r[2]>>) = Leading(r[1], r[2])
        BY <4>4, LeadingFacts
      <4>6. WithPage(r) = Leading(r[1], r[2]) BY <4>3, <4>4, <4>5 DEF WithPage
      <4>7. entry' = [total |-> Pages[r[1]], futures |-> Leading(r[1], r[2])]
        BY <1>0, <4>3, <4>6
      <4>8. r[2] \in Nat BY PageFacts
      <4>9. s[2] - 1 = r[2] BY <3>4, <4>8
      <4> HIDE DEF s
      <4>10. entry' = [total |-> Pages[s[1]], futures |-> Leading(s[1], s[2] - 1)]
        BY <3>4, <4>7, <4>9
      <4> QED BY <2>3, <4>10 DEF Own
    <3>6. ASSUME NEW x \in DOMAIN request' PROVE Tidy(x)'
      <4>1. CASE x = s BY <3>1, <3>3, <3>4, <3>5, <4>1 DEF Tidy
      <4>2. CASE x # s
        <5>1. x \in DOMAIN request /\ x # r /\ request'[x] = request[x] BY <2>2, <4>2
        <5> QED BY <2>4, <3>1, <3>3, <5>1, OthersTidy DEF InkInv
      <4> QED BY <4>1, <4>2
    <3> QED BY <3>2, <3>6
  <2> QED BY <2>5, <2>6, <2>7 DEF InkInv
<1> QED BY <1>1, <1>2

LEMMA ThreadInv == ASSUME InkTypeOK, InkInv, NEW r, Thread(r) PROVE InkInv'
<1>0. r \in DOMAIN request /\ r \in Page BY ThreadRuns
<1>1. CASE BadBody(r)
  <2>1. request[r].step # "wait" /\ Ends(r) /\ picture' = picture /\ job' = job
    BY <1>1 DEF BadBody, On
  <2> QED BY <1>0, <2>1, EndsInv
<1>2. CASE Check(r) BY <1>0, <1>2, CheckInv
<1>3. CASE Save(r) BY <1>0, <1>3, SaveInv
<1>4. CASE SubmitPage(r) BY <1>0, <1>4, SubmitPageInv
<1>5. CASE AppendLost(r)
  <2>1. request[r].step # "wait" /\ Ends(r) /\ picture' = picture /\ job' = job
    BY <1>5 DEF AppendLost, On
  <2> QED BY <1>0, <2>1, EndsInv
<1>6. CASE AppendLast(r) BY <1>0, <1>6, AppendLastInv
<1>7. CASE AppendInkp(r) BY <1>0, <1>7, AppendInkpInv
<1>8. CASE StatusFails(r)
  <2>1. Ends(r) /\ picture' = picture /\ job' = job /\ entry' = entry BY <1>8 DEF StatusFails
  <2> QED BY <1>0, <2>1, EndsInv
<1>9. CASE AnswerNote(r)
  <2>1. Ends(r) /\ picture' = picture /\ job' = job /\ entry' \in {entry, NoEntry}
    BY <1>9 DEF AnswerNote
  <2> QED BY <1>0, <2>1, EndsInv
<1> QED BY <1>1, <1>2, <1>3, <1>4, <1>5, <1>6, <1>7, <1>8, <1>9 DEF Thread

LEMMA SendNoteInv ==
  ASSUME InkTypeOK, InkInv, SendNote, NEW n, n = device.note + 1 PROVE InkInv'
<1> DEFINE s == <<n, 1>>
           h == [step |-> "check", futures |-> <<>>]
<1>0. /\ Newton /\ Threads /\ Pool /\ n \in Notes /\ device'.note = n
      /\ request' = Put(request, s, h)
      /\ crossed' = [crossed EXCEPT ![n] =
             IF \E r \in DOMAIN request : request[r].step \in Early THEN "early"
             ELSE IF DOMAIN request # {} THEN "waiting" ELSE "no"]
      /\ UNCHANGED <<shown, entry, picture, job>>
  BY TypeParts DEF SendNote, Arrives
<1>1. device.note \in Nat /\ n \in Nat /\ n > device.note /\ s[1] = n /\ s[2] = 1
  <2>1. device.note \in Nat BY <1>0, NoteIsNat
  <2> QED BY <2>1
<1>2. h.step = "check" OBVIOUS
<1> HIDE DEF s, h
<1>3. /\ DOMAIN request' = DOMAIN request \cup {s} /\ request'[s] = h
      /\ \A x \in DOMAIN request : x # s => request'[x] = request[x]
  BY <1>0 DEF Put
<1>4. \A x \in DOMAIN request \cup DOMAIN job : x[1] \in Nat /\ x[1] < n
  <2> SUFFICES ASSUME NEW x \in DOMAIN request \cup DOMAIN job PROVE x[1] \in Nat /\ x[1] < n
    OBVIOUS
  <2>1. x \in Page BY <1>0 DEF Threads, Pool
  <2>2. x[1] \in Nat BY <2>1, PageFacts
  <2>3. x[1] <= device.note BY DEF InkInv, Placed
  <2> QED BY <1>1, <2>2, <2>3
<1>5. ASSUME NEW x \in DOMAIN request'
      PROVE  \/ x = s
             \/ x \in DOMAIN request /\ x # s /\ request'[x] = request[x] /\ x[1] < n /\ x[1] # n
  <2>1. CASE x = s BY <2>1
  <2>2. CASE x # s
    <3>1. x \in DOMAIN request /\ request'[x] = request[x] BY <1>3, <1>5, <2>2
    <3>2. x[1] \in Nat /\ x[1] < n BY <1>4, <3>1
    <3> QED BY <1>1, <2>2, <3>1, <3>2
  <2> QED BY <2>1, <2>2
<1>6. Stepped'
  <2> SUFFICES ASSUME NEW x \in DOMAIN request'
               PROVE  /\ Single(x[1]) => request'[x].step \notin {"submit", "append"}
                      /\ request'[x].step = "append" => x \in DOMAIN job'
    BY DEF Stepped, Single
  <2>1. CASE x = s BY <1>2, <1>3, <2>1
  <2>2. CASE x # s BY <1>0, <1>5, <2>2 DEF InkInv, Stepped
  <2> QED BY <2>1, <2>2
<1>7. Placed'
  <2>1. \A x \in DOMAIN request' : x[1] <= device'.note BY <1>0, <1>1, <1>4, <1>5
  <2>2. \A x \in DOMAIN job' : x[1] <= device'.note BY <1>0, <1>1, <1>4
  <2>3. ASSUME NEW m \in Notes, m > device'.note PROVE shown'[m].how = "nothing"
    <3>1. m \in Nat BY NoteFacts
    <3>2. m > device.note BY <1>0, <1>1, <2>3, <3>1
    <3> QED BY <1>0, <3>2 DEF InkInv, Placed
  <2>4. \A x, y \in DOMAIN request' : x[1] = device'.note /\ y[1] = device'.note => x = y
    BY <1>0, <1>5
  <2> QED BY <2>1, <2>2, <2>3, <2>4 DEF Placed
<1>8. Current'
  <2> SUFFICES ASSUME Clean' PROVE /\ \A x \in DOMAIN request' : Tidy(x)'
                                   /\ \A x \in DOMAIN job' : x[1] = device'.note => Kept(x)'
    BY DEF Current
  <2>1. crossed'[n] # "early" BY <1>0 DEF Clean
  <2>2. /\ \A x \in DOMAIN request : request[x].step \notin Early
        /\ DOMAIN request # {} => crossed'[n] # "no"
    <3>1. crossed'[n] = IF \E r \in DOMAIN request : request[r].step \in Early THEN "early"
                        ELSE IF DOMAIN request # {} THEN "waiting" ELSE "no"
      BY <1>0 DEF Newton
    <3> QED BY <2>1, <3>1
  <2>3. ASSUME NEW x \in DOMAIN request' PROVE Tidy(x)'
    <3>1. CASE x = s
      <4>0. request'[s].step = "check" /\ ~(s[2] > 1) BY <1>1, <1>2, <1>3
      <4>1. ~Gathers(s)' BY <4>0 DEF Gathers
      <4>2. Own(s)' BY <4>0, <4>1 DEF Own
      <4> QED BY <1>0, <1>1, <3>1, <4>2 DEF Tidy
    <3>2. CASE x # s
      <4>1. x \in DOMAIN request /\ request'[x] = request[x] /\ x[1] # n BY <1>5, <3>2
      <4>2. request[x].step \in Steps BY <1>0, <4>1 DEF Threads, Handlers
      <4>3. request[x].step = "wait" BY <2>2, <4>1, <4>2 DEF Steps
      <4> QED BY <1>0, <2>2, <4>1, <4>3 DEF Tidy
    <3> QED BY <3>1, <3>2
  <2>4. \A x \in DOMAIN job' : x[1] # device'.note
    <3>1. \A x \in DOMAIN job : x[1] # n BY <1>1, <1>4
    <3> QED BY <1>0, <3>1
  <2> QED BY <2>3, <2>4
<1> QED BY <1>6, <1>7, <1>8 DEF InkInv

LEMMA GiveUpFacts ==
  ASSUME InkTypeOK, GiveUp
  PROVE  /\ device'.note = device.note /\ UNCHANGED <<request, entry, picture, job, crossed>>
         /\ \A n \in Notes : shown'[n] = shown[n] \/ (n = device.note /\ shown'[n].how = "lost")
<1>1. Newton BY TypeParts
<1>2. /\ UNCHANGED <<request, entry, picture, job, crossed>>
      /\ device' = [device EXCEPT !.waits = FALSE]
      /\ shown' = [shown EXCEPT ![device.note].how = "lost"]
  BY DEF GiveUp
<1>3. device'.note = device.note BY <1>1, <1>2 DEF Newton
<1>4. ASSUME NEW n \in Notes
      PROVE  shown'[n] = shown[n] \/ (n = device.note /\ shown'[n].how = "lost")
  <2>1. CASE n = device.note
    <3>1. shown'[n] = [shown[n] EXCEPT !.how = "lost"] BY <1>1, <1>2, <2>1 DEF Newton
    <3>2. shown[n] \in [how : Outcomes, text : Texts] BY <1>1 DEF Newton
    <3> QED BY <2>1, <3>1, <3>2
  <2>2. CASE n # device.note BY <1>1, <1>2, <2>2 DEF Newton
  <2> QED BY <2>1, <2>2
<1> QED BY <1>2, <1>3, <1>4

LEMMA GiveUpInv == ASSUME InkTypeOK, InkInv, GiveUp PROVE InkInv'
<1>1. /\ device'.note = device.note /\ UNCHANGED <<request, entry, picture, job, crossed>>
      /\ \A n \in Notes : shown'[n] = shown[n] \/ (n = device.note /\ shown'[n].how = "lost")
  BY GiveUpFacts
<1>2. Stepped' BY <1>1 DEF InkInv, Stepped, Single
<1>3. Placed'
  <2>1. device.note \in Nat /\ \A n \in Notes : n \in Nat BY TypeParts, NoteIsNat, NoteFacts
  <2>2. ASSUME NEW n \in Notes, n > device'.note PROVE shown'[n].how = "nothing"
    <3>1. n > device.note /\ n # device.note BY <1>1, <2>1, <2>2
    <3> QED BY <1>1, <3>1 DEF InkInv, Placed
  <2> QED BY <1>1, <2>2 DEF InkInv, Placed
<1>4. Current' BY <1>1 DEF InkInv, Current, Clean, Tidy, Own, Gathers, Kept, Single, File
<1> QED BY <1>2, <1>3, <1>4 DEF InkInv

LEMMA PoolInv == ASSUME InkTypeOK, InkInv, NEW r \in Page, Start(r) \/ Finish(r) PROVE InkInv'
<1>1. /\ UNCHANGED <<device, shown, request, entry, picture, crossed>>
      /\ r \in DOMAIN job /\ DOMAIN job' = DOMAIN job /\ job' \in [DOMAIN job -> Jobs]
      /\ \A x \in DOMAIN job : x # r => job'[x] = job[x]
      /\ \/ Start(r) /\ job'[r].note = picture[r[2]]
         \/ Finish(r) /\ job[r].state = "running" /\ job'[r].note = job[r].note
  BY PoolStep
<1>2. Stepped' BY <1>1 DEF InkInv, Stepped, Single
<1>3. Placed' BY <1>1 DEF InkInv, Placed
<1>4. Current'
  <2> SUFFICES ASSUME Clean' PROVE /\ \A x \in DOMAIN request' : Tidy(x)'
                                   /\ \A x \in DOMAIN job' : x[1] = device'.note => Kept(x)'
    BY DEF Current
  <2>1. Clean BY <1>1 DEF Clean
  <2>2. \A x \in DOMAIN request' : Tidy(x)'
    BY <1>1, <2>1 DEF InkInv, Current, Tidy, Own, Gathers, Single, File
  <2>3. ASSUME NEW x \in DOMAIN job', x[1] = device.note PROVE Kept(x)'
    <3>1. Kept(x) BY <1>1, <2>1, <2>3 DEF InkInv, Current
    <3>2. CASE x # r BY <1>1, <2>3, <3>1, <3>2 DEF Kept
    <3>3. CASE x = r BY <1>1, <3>1, <3>3 DEF Kept
    <3> QED BY <3>2, <3>3
  <2> QED BY <1>1, <2>2, <2>3
<1> QED BY <1>2, <1>3, <1>4 DEF InkInv

-----------------------------------------------------------------------------
(* What the Newton is told.                                                *)

\* What a thread tells, it tells of the current note.
LEMMA ToldByShows ==
  ASSUME InkTypeOK, ReadsItsPages, RefusedOnlyIfCrossed, NEW r \in Page,
         NEW how \in Outcomes, NEW text \in Texts, Shows(r, how, text), crossed' = crossed,
         r[1] = device.note /\ how = "read" /\ crossed[r[1]] # "early" =>
             /\ Len(text) = Pages[r[1]]
             /\ \A k \in 1..Pages[r[1]] : text[k] = <<r[1], k>>,
         r[1] = device.note /\ how = "refused" => crossed[r[1]] # "no"
  PROVE  ReadsItsPages' /\ RefusedOnlyIfCrossed'
<1>1. \A n \in Notes :
          \/ shown'[n] = shown[n]
          \/ n = r[1] /\ n = device.note /\ shown'[n] = [how |-> how, text |-> text]
  BY TypeParts, ShowsFacts
<1>2. ASSUME NEW n \in Notes, shown'[n].how = "read", crossed[n] # "early"
      PROVE  /\ Len(shown'[n].text) = Pages[n]
             /\ \A k \in 1..Pages[n] : shown'[n].text[k] = <<n, k>>
  <2>1. CASE shown'[n] = shown[n] BY <1>2, <2>1 DEF ReadsItsPages
  <2>2. CASE n = r[1] /\ n = device.note /\ shown'[n] = [how |-> how, text |-> text]
    BY <1>2, <2>2
  <2> QED BY <1>1, <2>1, <2>2
<1>3. ASSUME NEW n \in Notes, shown'[n].how = "refused" PROVE crossed[n] # "no"
  <2>1. CASE shown'[n] = shown[n] BY <1>3, <2>1 DEF RefusedOnlyIfCrossed
  <2>2. CASE n = r[1] /\ n = device.note /\ shown'[n] = [how |-> how, text |-> text]
    BY <1>3, <2>2
  <2> QED BY <1>1, <2>1, <2>2
<1> QED BY <1>2, <1>3 DEF ReadsItsPages, RefusedOnlyIfCrossed

LEMMA CleanNote ==
  ASSUME NEW r \in Page, r[1] = device.note, crossed[r[1]] # "early" PROVE Clean
<1>1. r[1] \in Notes BY PageFacts
<1>2. r[1] > 0 BY <1>1, NoteFacts
<1> QED BY <1>2 DEF Clean

\* The answer of the current note, if that is not crossed, is of its pages.
LEMMA AnswersItsPages ==
  ASSUME InkTypeOK, InkInv, NEW r \in DOMAIN request, r \in Page, AnswerNote(r), Clean,
         r[1] = device.note
  PROVE  /\ Len(Readings(r)) = Pages[r[1]]
         /\ \A k \in 1..Pages[r[1]] : Readings(r)[k] = <<r[1], k>>
<1>1. request[r].step = "wait" /\ Ready(r) BY DEF AnswerNote, On
<1>2. Own(r) BY DEF InkInv, Current, Tidy
<1>3. CASE Single(r[1])
  <2>1. picture[0] = r[1] BY <1>1, <1>2, <1>3 DEF Own, File
  <2>2. Readings(r) = <<<<r[1], 1>>>> BY <1>3, <2>1 DEF Readings
  <2>3. Pages[r[1]] = 1 BY <1>3 DEF Single
  <2> QED BY <2>2, <2>3
<1>4. CASE ~Single(r[1])
  <2> DEFINE n == r[1]
             p == Pages[r[1]]
             fs == request[r].futures
             t == Readings(r)
  <2>1. fs = Leading(n, p) BY <1>1, <1>2, <1>4 DEF Own
  <2>2. n \in Notes /\ p \in Nat /\ p > 0 BY PageFacts, NoteFacts
  <2>3. DOMAIN fs = 1..p /\ \A k \in 1..p : fs[k] = <<n, k>> BY <2>1 DEF Leading
  <2>4. t = [i \in 1..p |-> <<job[fs[i]].note, fs[i][2]>>] BY <1>4, <2>3 DEF Readings
  <2>5. fs \in Seq(DOMAIN job) BY TypeParts DEF Threads, Handlers
  <2>6. ASSUME NEW k \in 1..p PROVE job[fs[k]].note = n /\ fs[k][2] = k
    <3>1. fs[k] = <<n, k>> /\ fs[k] \in DOMAIN job
      <4>1. DOMAIN fs = 1..Len(fs) BY <2>5, LenProperties
      <4> QED BY <2>3, <2>5, <2>6, <4>1, ElementOfSeq
    <3>2. job[fs[k]].state = "done" BY <1>1, <2>3, <2>6 DEF Ready
    <3>3. fs[k][1] = device.note BY <3>1
    <3>4. Kept(fs[k]) BY <3>1, <3>3 DEF InkInv, Current
    <3> QED BY <3>1, <3>2, <3>3, <3>4 DEF Kept
  <2>7. t \in Seq(({0} \cup Notes) \X Nat) BY ReadingsType DEF Texts
  <2> HIDE DEF n, p, fs, t
  <2>8. \A k \in 1..p : t[k] = <<n, k>> BY <2>4, <2>6
  <2>9. Len(t) = p
    <3>1. DOMAIN t = 1..p BY <2>4
    <3>2. DOMAIN t = 1..Len(t) /\ Len(t) \in Nat BY <2>7, LenProperties
    <3> QED BY <2>2, <3>1, <3>2
  <2> QED BY <2>8, <2>9 DEF n, p, t
<1> QED BY <1>3, <1>4

\* A thread of a note that nothing crosses finds its entry.
LEMMA FindsEntry ==
  ASSUME InkTypeOK, InkInv, NEW r \in DOMAIN request, r \in Page, Gathers(r),
         r[1] = device.note, crossed[r[1]] = "no"
  PROVE  entry # NoEntry /\ Fits(r)
<1>1. Clean /\ Own(r)
  <2>1. Clean BY CleanNote
  <2> QED BY <2>1 DEF InkInv, Current, Tidy
<1>2. entry = [total |-> Pages[r[1]], futures |-> Leading(r[1], r[2] - 1)] BY <1>1 DEF Own
<1>3. r[1] \in Notes /\ r[2] \in 1..Pages[r[1]] /\ r[2] \in Nat /\ Pages[r[1]] \in Nat
  BY PageFacts, NoteFacts
<1>4. Leading(r[1], r[2] - 1) \in Seq(Page) /\ Len(Leading(r[1], r[2] - 1)) = r[2] - 1
  BY <1>3, LeadingFacts
<1>5. entry # NoEntry BY <1>2, <1>3, <1>4, EntryIsEntry
<1>6. entry.total = Pages[r[1]] /\ Len(entry.futures) + 1 = r[2] BY <1>2, <1>3, <1>4
<1> QED BY <1>5, <1>6 DEF Fits

Told == ReadsItsPages /\ RefusedOnlyIfCrossed

LEMMA SameTold == ASSUME Told, shown' = shown, crossed' = crossed PROVE Told'
BY DEF Told, ReadsItsPages, RefusedOnlyIfCrossed

LEMMA ThreadTold == ASSUME InkTypeOK, InkInv, Told, NEW r, Thread(r) PROVE Told'
<1>0. /\ r \in DOMAIN request /\ r \in Page /\ crossed' = crossed
      /\ <<>> \in Texts /\ Readings(r) \in Texts
      /\ "refused" \in Outcomes /\ "read" \in Outcomes /\ "error" \in Outcomes
  <2>1. r \in DOMAIN request /\ r \in Page BY ThreadRuns
  <2>2. crossed' = crossed BY <2>1, ThreadAside DEF Aside
  <2> QED BY <2>1, <2>2, EmptyTexts, ReadingsType DEF Outcomes
<1>1. ReadsItsPages /\ RefusedOnlyIfCrossed BY DEF Told
<1>2. CASE shown' = shown BY <1>0, <1>2, SameTold
<1>3. CASE Shows(r, "refused", <<>>) /\ (Check(r) \/ AppendLost(r)) /\ shown' # shown
  <2>1. ASSUME r[1] = device.note, crossed[r[1]] = "no" PROVE FALSE
    <3>1. CASE Check(r)
      <4>1. ~(r[2] = 1 \/ Fits(r)) /\ request[r].step = "check" BY <1>3, <3>1 DEF Check, On
      <4>2. r[1] \in Notes /\ r[2] \in 1..Pages[r[1]] /\ Pages[r[1]] \in Nat
        BY <1>0, PageFacts, NoteFacts
      <4>3. r[2] > 1 /\ Pages[r[1]] # 1 BY <4>1, <4>2
      <4>4. Gathers(r) BY <4>1, <4>3 DEF Gathers, Single
      <4> QED BY <1>0, <2>1, <4>1, <4>4, FindsEntry
    <3>2. CASE AppendLost(r)
      <4>1. entry = NoEntry /\ request[r].step = "append" BY <3>2 DEF AppendLost, On
      <4>2. ~Single(r[1]) BY <1>0, <4>1 DEF InkInv, Stepped
      <4>3. Gathers(r) BY <4>1, <4>2 DEF Gathers
      <4> QED BY <1>0, <2>1, <4>1, <4>3, FindsEntry
    <3> QED BY <1>3, <3>1, <3>2
  <2>2. "refused" # "read" OBVIOUS
  <2>3. ReadsItsPages' /\ RefusedOnlyIfCrossed' BY <1>0, <1>1, <1>3, <2>1, <2>2, ToldByShows
  <2> QED BY <2>3 DEF Told
<1>4. CASE AnswerNote(r) /\ Shows(r, "read", Readings(r))
  <2>1. ASSUME r[1] = device.note, crossed[r[1]] # "early"
        PROVE  /\ Len(Readings(r)) = Pages[r[1]]
               /\ \A k \in 1..Pages[r[1]] : Readings(r)[k] = <<r[1], k>>
    <3>1. Clean BY <1>0, <2>1, CleanNote
    <3> QED BY <1>0, <1>4, <2>1, <3>1, AnswersItsPages
  <2>2. "read" # "refused" OBVIOUS
  <2>3. ReadsItsPages' /\ RefusedOnlyIfCrossed' BY <1>0, <1>1, <1>4, <2>1, <2>2, ToldByShows
  <2> QED BY <2>3 DEF Told
<1>5. CASE AnswerNote(r) /\ Shows(r, "error", <<>>)
  <2>1. "error" # "refused" /\ "error" # "read" OBVIOUS
  <2>2. ReadsItsPages' /\ RefusedOnlyIfCrossed' BY <1>0, <1>1, <1>5, <2>1, ToldByShows
  <2> QED BY <2>2 DEF Told
<1>6. CASE shown' # shown
  <2>1. CASE Check(r) BY <1>3, <1>6, <2>1 DEF Check
  <2>2. CASE AppendLost(r) BY <1>3, <1>6, <2>2 DEF AppendLost
  <2>3. CASE AnswerNote(r) BY <1>4, <1>5, <2>3 DEF AnswerNote
  <2> QED BY <1>6, <2>1, <2>2, <2>3
       DEF Thread, BadBody, Save, SubmitPage, AppendLast, AppendInkp, StatusFails
<1> QED BY <1>2, <1>6

LEMMA SendNoteTold == ASSUME InkTypeOK, InkInv, Told, SendNote PROVE Told'
<1> DEFINE n == device.note + 1
<1>0. /\ Newton /\ n \in Notes /\ shown' = shown
      /\ \A m \in Notes : m # n => crossed'[m] = crossed[m]
  <2>1. Newton BY TypeParts
  <2> QED BY <2>1 DEF SendNote, Newton
<1>1. n > device.note BY <1>0, NoteIsNat
<1>2. shown[n].how = "nothing" BY <1>0, <1>1 DEF InkInv, Placed
<1> HIDE DEF n
<1>3. ASSUME NEW m \in Notes, shown'[m].how \in {"read", "refused"}
      PROVE  crossed'[m] = crossed[m]
  BY <1>0, <1>2, <1>3
<1> QED BY <1>0, <1>3 DEF Told, ReadsItsPages, RefusedOnlyIfCrossed

LEMMA GiveUpTold == ASSUME InkTypeOK, Told, GiveUp PROVE Told'
<1>1. /\ crossed' = crossed
      /\ \A n \in Notes : shown'[n] = shown[n] \/ (n = device.note /\ shown'[n].how = "lost")
  BY GiveUpFacts
<1> QED BY <1>1 DEF Told, ReadsItsPages, RefusedOnlyIfCrossed

LEMMA ThreadType == ASSUME InkTypeOK, InkInv, NEW r, Thread(r) PROVE InkTypeOK'
<1>1. r \in DOMAIN request /\ r \in Page BY ThreadRuns
<1>2. request[r].step = "append" => r \in DOMAIN job BY <1>1 DEF InkInv, Stepped
<1>3. CASE Check(r) BY <1>1, <1>3, CheckType
<1>4. CASE Save(r) BY <1>1, <1>4, SaveType
<1>5. CASE SubmitPage(r) BY <1>1, <1>5, SubmitPageType
<1>6. CASE AppendLast(r)
  <2>1. r \in DOMAIN job BY <1>2, <1>6 DEF AppendLast, On
  <2> QED BY <1>1, <1>6, <2>1, AppendLastType
<1>7. CASE AppendInkp(r)
  <2>1. r \in DOMAIN job BY <1>2, <1>7 DEF AppendInkp, On
  <2> QED BY <1>1, <1>7, <2>1, AppendInkpType
<1>8. CASE BadBody(r) \/ AppendLost(r) \/ StatusFails(r) \/ AnswerNote(r)
  BY <1>1, <1>8, EndingsType
<1> QED BY <1>3, <1>4, <1>5, <1>6, <1>7, <1>8 DEF Thread

LEMMA InkSteps ==
  ASSUME InkTypeOK, InkInv, Told, [InkNext]_inkVars PROVE InkTypeOK' /\ InkInv' /\ Told'
<1>1. CASE SendNote
  <2>1. InkInv' BY <1>1, SendNoteInv
  <2> QED BY <1>1, <2>1, SendNoteType, SendNoteTold
<1>2. CASE GiveUp BY <1>2, GiveUpType, GiveUpInv, GiveUpTold
<1>3. ASSUME NEW r \in Page, Thread(r) PROVE InkTypeOK' /\ InkInv' /\ Told'
  BY <1>3, ThreadType, ThreadInv, ThreadTold
<1>4. ASSUME NEW r \in Page, Start(r) \/ Finish(r) PROVE InkTypeOK' /\ InkInv' /\ Told'
  <2>1. shown' = shown /\ crossed' = crossed BY <1>4 DEF Start, Finish
  <2> QED BY <1>4, <2>1, PoolType, PoolInv, SameTold
<1>5. CASE UNCHANGED inkVars
  <2>1. UNCHANGED <<device, shown, request, entry, picture, job, crossed>> BY <1>5 DEF inkVars
  <2>2. InkTypeOK' BY <2>1 DEF InkTypeOK
  <2>3. InkInv'
    BY <2>1 DEF InkInv, Stepped, Placed, Current, Clean, Tidy, Own, Gathers, Kept, Single, File
  <2> QED BY <2>1, <2>2, <2>3, SameTold
<1> QED BY <1>1, <1>2, <1>3, <1>4, <1>5 DEF InkNext

LEMMA InkStarts == InkInit => InkTypeOK /\ InkInv /\ Told
<1> SUFFICES ASSUME InkInit PROVE InkTypeOK /\ InkInv /\ Told
  OBVIOUS
<1>1. /\ device = [note |-> 0, page |-> 0, waits |-> FALSE]
      /\ shown = [n \in Notes |-> [how |-> "nothing", text |-> <<>>]]
      /\ DOMAIN request = {} /\ request \in [DOMAIN request -> {}]
      /\ entry = NoEntry
      /\ picture = [k \in {0} \cup {r[2] : r \in Page} |-> 0]
      /\ DOMAIN job = {} /\ job \in [DOMAIN job -> {}]
      /\ crossed = [n \in Notes |-> "no"]
  BY DEF InkInit
<1>2. Newton
  <2>1. <<>> \in Texts /\ "nothing" \in Outcomes BY EmptyTexts DEF Outcomes
  <2> QED BY <1>1, <2>1 DEF Newton
<1>3. Threads /\ Slot /\ Pool BY <1>1 DEF Threads, Slot, Pool
<1>4. Drawn BY <1>1 DEF Drawn, Files
<1>5. InkTypeOK BY <1>2, <1>3, <1>4, TypeParts
<1>6. Stepped /\ Current BY <1>1 DEF Stepped, Current, Clean
<1>7. Placed BY <1>1 DEF Placed
<1>8. Told BY <1>1 DEF Told, ReadsItsPages, RefusedOnlyIfCrossed
<1> QED BY <1>5, <1>6, <1>7, <1>8 DEF InkInv

\* The fields of the Newton, the threads, the entry, the files and the pool keep
\* their types, and a thread and an entry refer only to pages given to the pool
\* (do_POST for /ink, ink_parts, INK_POOL).
THEOREM InkTypes == InkSpec => []InkTypeOK
<1>1. InkInit => InkTypeOK /\ InkInv /\ Told BY InkStarts
<1>2. InkTypeOK /\ InkInv /\ Told /\ [InkNext]_inkVars => InkTypeOK' /\ InkInv' /\ Told'
  BY InkSteps
<1> QED BY <1>1, <1>2, PTL DEF InkSpec

\* For any notes of any number of pages, and any size of the pool: a reading the
\* Newton files is of the note's own pages, all of them and in order, unless a
\* thread of an older note had still to draw or to append when the note began.
THEOREM ReadsOwn == InkSpec => []ReadsItsPages
<1>1. InkInit => InkTypeOK /\ InkInv /\ Told BY InkStarts
<1>2. InkTypeOK /\ InkInv /\ Told /\ [InkNext]_inkVars => InkTypeOK' /\ InkInv' /\ Told'
  BY InkSteps
<1>3. Told => ReadsItsPages BY DEF Told
<1> QED BY <1>1, <1>2, <1>3, PTL DEF InkSpec

\* And no page of a note is refused if no thread of an older one was left when
\* the note began, whatever entry or files that one left behind.
THEOREM NotSpoiled == InkSpec => []RefusedOnlyIfCrossed
<1>1. InkInit => InkTypeOK /\ InkInv /\ Told BY InkStarts
<1>2. InkTypeOK /\ InkInv /\ Told /\ [InkNext]_inkVars => InkTypeOK' /\ InkInv' /\ Told'
  BY InkSteps
<1>3. Told => RefusedOnlyIfCrossed BY DEF Told
<1> QED BY <1>1, <1>2, <1>3, PTL DEF InkSpec
=============================================================================
