----------------------------- MODULE ToolBroker -----------------------------
(***************************************************************************)
(* ToolBroker of pkg_publisher.py: one `pending` slot and one `outcome`    *)
(* slot behind one condition variable.  HTTP threads call submit, one      *)
(* thread per Newton socket runs serve, and the older HTTP route uses poll *)
(* and complete.  A block under `with self.condition` is one action; a     *)
(* wait, a send or a readline ends it.                                     *)
(*                                                                         *)
(* 0 stands for None in the two slots and for the heartbeat's id "0":      *)
(* next_id starts at 1, so no request ever carries it.                     *)
(***************************************************************************)
EXTENDS Naturals

CONSTANTS
    Callers,   \* threads that may be inside POST /tools
    Conns,     \* Newton sockets, each served by one thread, once
    NoConn,    \* self.connection is None
    MaxId      \* bound on the ids a behaviour issues

ASSUME ToolBrokerAssumption == NoConn \notin Conns /\ MaxId \in Nat

VARIABLES
    nextId, pending, outcome, connection,   \* the broker's own fields
    callerPc, callerId, result,             \* submit, per caller
    threadPc, threadReq,                    \* serve, per connection
    handed                                  \* ids given to the Newton

slots == <<nextId, pending, outcome>>
callers == <<callerPc, callerId, result>>
threads == <<connection, threadPc, threadReq>>
vars == <<slots, callers, threads, handed>>

Ids == 1..MaxId
NoResult == [status |-> "none", id |-> 0]
Statuses == {"none", "refused", "timeout", "outcome"}
ThreadStates == {"new", "wait", "send", "reply", "poll", "leave", "gone"}

TypeOK ==
    /\ nextId \in 1..(MaxId + 1)
    /\ pending \in 0..MaxId
    /\ outcome \in 0..MaxId
    /\ connection \in Conns \union {NoConn}
    /\ callerPc \in [Callers -> {"idle", "waiting"}]
    /\ callerId \in [Callers -> 0..MaxId]
    /\ result \in [Callers -> [status : Statuses, id : 0..MaxId]]
    /\ threadPc \in [Conns -> ThreadStates]
    /\ threadReq \in [Conns -> 0..MaxId]
    /\ handed \subseteq Ids

Init ==
    /\ nextId = 1
    /\ pending = 0
    /\ outcome = 0
    /\ connection = NoConn
    /\ callerPc = [s \in Callers |-> "idle"]
    /\ callerId = [s \in Callers |-> 0]
    /\ result = [s \in Callers |-> NoResult]
    /\ threadPc = [c \in Conns |-> "new"]
    /\ threadReq = [c \in Conns |-> 0]
    /\ handed = {}

-----------------------------------------------------------------------------
(* submit: from its entry to wait_for, then from wait_for to its return.   *)

SubmitIdAfterIncrement(s) ==
    /\ callerPc[s] = "idle"
    /\ pending = 0
    /\ nextId <= MaxId
    /\ nextId' = nextId + 1
    /\ pending' = nextId + 1
    /\ outcome' = 0
    /\ callerPc' = [callerPc EXCEPT ![s] = "waiting"]
    /\ callerId' = [callerId EXCEPT ![s] = nextId + 1]
    /\ result' = [result EXCEPT ![s] = NoResult]
    /\ UNCHANGED <<threads, handed>>

Submit(s) ==
    /\ callerPc[s] = "idle"
    /\ pending = 0
    /\ nextId <= MaxId
    /\ nextId' = nextId + 1
    /\ pending' = nextId
    /\ outcome' = 0
    /\ callerPc' = [callerPc EXCEPT ![s] = "waiting"]
    /\ callerId' = [callerId EXCEPT ![s] = nextId]
    /\ result' = [result EXCEPT ![s] = NoResult]
    /\ UNCHANGED <<threads, handed>>

\* RuntimeError("tool request already pending"), answered 409.
Refuse(s) ==
    /\ callerPc[s] = "idle"
    /\ pending # 0
    /\ result' = [result EXCEPT ![s] = [status |-> "refused", id |-> 0]]
    /\ UNCHANGED <<slots, callerPc, callerId, threads, handed>>

ReturnWith(s, r) ==
    /\ callerPc' = [callerPc EXCEPT ![s] = "idle"]
    /\ result' = [result EXCEPT ![s] = r]
    /\ UNCHANGED <<nextId, callerId, threads, handed>>

\* wait_for sees an outcome: whichever waiter gets the lock first takes it.
Wake(s) ==
    /\ callerPc[s] = "waiting"
    /\ outcome # 0
    /\ ReturnWith(s, [status |-> "outcome", id |-> outcome])
    /\ pending' = 0
    /\ outcome' = 0

TimeOutLeavingPending(s) ==
    /\ callerPc[s] = "waiting"
    /\ outcome = 0
    /\ ReturnWith(s, [status |-> "timeout", id |-> callerId[s]])
    /\ UNCHANGED <<pending, outcome>>

TimeOutNever(s) == FALSE

\* wait_for runs out of time; both slots are cleared whoever they belong to.
TimeOut(s) ==
    /\ callerPc[s] = "waiting"
    /\ outcome = 0
    /\ ReturnWith(s, [status |-> "timeout", id |-> callerId[s]])
    /\ pending' = 0
    /\ outcome' = 0

-----------------------------------------------------------------------------
(* complete: a late or repeated answer finds another id, or none, pending. *)

CompleteUnchecked(i) ==
    /\ outcome' = i
    /\ pending' = 0
    /\ UNCHANGED nextId

CompleteLeavingPending(i) ==
    /\ outcome' = IF pending = i THEN i ELSE outcome
    /\ UNCHANGED <<nextId, pending>>

Complete(i) ==
    /\ IF pending = i
       THEN outcome' = i /\ pending' = 0
       ELSE UNCHANGED <<outcome, pending>>
    /\ UNCHANGED nextId

-----------------------------------------------------------------------------
(* serve: one thread per persistent Newton connection.                     *)

Goto(c, pc) == threadPc' = [threadPc EXCEPT ![c] = pc]

\* The newcomer takes the slot.  Closing the old socket object does not
\* interrupt its thread: the stream made from it keeps the descriptor open.
Connect(c) ==
    /\ threadPc[c] = "new"
    /\ connection' = c
    /\ Goto(c, "wait")
    /\ UNCHANGED <<slots, callers, threadReq, handed>>

\* wait_for ends: replaced, or a request is pending, or 3 s passed (heartbeat,
\* id 0).  The request is carried out of the lock.
Fetch(c) ==
    /\ threadPc[c] = "wait"
    /\ IF connection # c
       THEN Goto(c, "leave") /\ UNCHANGED threadReq
       ELSE Goto(c, "send") /\ threadReq' = [threadReq EXCEPT ![c] = pending]
    /\ UNCHANGED <<slots, callers, connection, handed>>

\* sendall, outside the lock: the caller may have given up meanwhile.
Send(c) ==
    /\ threadPc[c] = "send"
    /\ Goto(c, "reply")
    /\ handed' = handed \union ({threadReq[c]} \ {0})
    /\ UNCHANGED <<slots, callers, connection, threadReq>>

\* Three lines come back with the id that was sent.
Answer(c) ==
    /\ threadPc[c] = "reply"
    /\ Goto(c, "poll")
    /\ IF threadReq[c] = 0 THEN UNCHANGED slots ELSE Complete(threadReq[c])
    /\ UNCHANGED <<callers, connection, threadReq, handed>>

\* The POLL line that asks for the next request.
Poll(c) ==
    /\ threadPc[c] = "poll"
    /\ Goto(c, "wait")
    /\ UNCHANGED <<slots, callers, connection, threadReq, handed>>

\* The peer is gone, answered another id or status, or did not say POLL.
Break(c) ==
    /\ threadPc[c] \in {"send", "reply", "poll"}
    /\ Goto(c, "leave")
    /\ UNCHANGED <<slots, callers, connection, threadReq, handed>>

\* The finally block.
Leave(c) ==
    /\ threadPc[c] = "leave"
    /\ Goto(c, "gone")
    /\ connection' = IF connection = c THEN NoConn ELSE connection
    /\ UNCHANGED <<slots, callers, threadReq, handed>>

-----------------------------------------------------------------------------
(* The older route: GET /tools/poll, then POST /tools/outcome, which an    *)
(* HTTP client may repeat or send late.                                    *)

HttpPoll ==
    /\ pending # 0
    /\ handed' = handed \union {pending}
    /\ UNCHANGED <<slots, callers, threads>>

HttpOutcome(i) ==
    /\ i \in handed
    /\ Complete(i)
    /\ UNCHANGED <<callers, threads, handed>>

CallerStep(s) == Submit(s) \/ Refuse(s) \/ Wake(s) \/ TimeOut(s)

ThreadStep(c) ==
    Connect(c) \/ Fetch(c) \/ Send(c) \/ Answer(c) \/ Poll(c) \/ Break(c) \/ Leave(c)

Next ==
    \/ \E s \in Callers : CallerStep(s)
    \/ \E c \in Conns : ThreadStep(c)
    \/ HttpPoll
    \/ \E i \in Ids : HttpOutcome(i)

Spec == Init /\ [][Next]_vars

\* wait_for has a deadline and the lock is never held across a wait, so a
\* waiting caller is not passed over for ever.  Nothing is assumed of the Newton.
FairSpec == Spec /\ \A s \in Callers : WF_vars(Wake(s) \/ TimeOut(s))

-----------------------------------------------------------------------------
(* Properties.                                                             *)

\* `pending` always has its own submitter still waiting for it.  A request
\* left behind would refuse every later caller with 409 and would be handed to
\* each Newton that reconnects, for nobody.
PendingHasItsCaller ==
    pending # 0 => \E s \in Callers : callerPc[s] = "waiting" /\ callerId[s] = pending

\* An accepted outcome excludes a pending request, and the caller whose id it
\* carries is still inside submit: complete never accepts an answer after its
\* caller has left, however late or often the Newton answers.
OutcomeHasItsCaller ==
    outcome # 0 =>
        /\ pending = 0
        /\ \E s \in Callers : callerPc[s] = "waiting" /\ callerId[s] = outcome

\* A caller that returns an outcome returns the outcome of its own request
\* ("correlated with its eventual outcome", pkg_publisher.py:82).
Correlated ==
    \A s \in Callers : result[s].status = "outcome" => result[s].id = callerId[s]

\* Every call ends, with or without a Newton.
EveryCallReturns ==
    \A s \in Callers : callerPc[s] = "waiting" ~> callerPc[s] = "idle"

\* Seen from its callers the broker is the service of ToolService.
Service == INSTANCE ToolService WITH issued <- nextId - 1
ImplementsService == Service!Spec
=============================================================================
