---------------------------- MODULE ToolService ----------------------------
(***************************************************************************)
(* What a caller of `POST /tools` is promised, with the broker's slots,    *)
(* threads and sockets hidden: a call gets an id of its own, may be handed *)
(* to the Newton, and ends refused, timed out, or with an answer to that   *)
(* very id -- and only when the Newton was given it.                       *)
(***************************************************************************)
EXTENDS Naturals

CONSTANTS Callers, MaxId

VARIABLES
    issued,      \* number of ids issued so far
    callerPc,    \* "idle" or "waiting", for each caller
    callerId,    \* id of the caller's latest call (0: none yet)
    result,      \* how that call ended
    handed       \* ids the Newton has been given

vars == <<issued, callerPc, callerId, result, handed>>

NoResult == [status |-> "none", id |-> 0]

Init ==
    /\ issued = 0
    /\ callerPc = [s \in Callers |-> "idle"]
    /\ callerId = [s \in Callers |-> 0]
    /\ result = [s \in Callers |-> NoResult]
    /\ handed = {}

Issue(s) ==
    /\ callerPc[s] = "idle"
    /\ issued < MaxId
    /\ issued' = issued + 1
    /\ callerPc' = [callerPc EXCEPT ![s] = "waiting"]
    /\ callerId' = [callerId EXCEPT ![s] = issued + 1]
    /\ result' = [result EXCEPT ![s] = NoResult]
    /\ UNCHANGED handed

Refuse(s) ==
    /\ callerPc[s] = "idle"
    /\ result' = [result EXCEPT ![s] = [status |-> "refused", id |-> 0]]
    /\ UNCHANGED <<issued, callerPc, callerId, handed>>

Hand(i) ==
    /\ i \in 1..issued
    /\ handed' = handed \union {i}
    /\ UNCHANGED <<issued, callerPc, callerId, result>>

Answer(s) ==
    /\ callerPc[s] = "waiting"
    /\ callerId[s] \in handed
    /\ callerPc' = [callerPc EXCEPT ![s] = "idle"]
    /\ result' = [result EXCEPT ![s] = [status |-> "outcome", id |-> callerId[s]]]
    /\ UNCHANGED <<issued, callerId, handed>>

GiveUp(s) ==
    /\ callerPc[s] = "waiting"
    /\ callerPc' = [callerPc EXCEPT ![s] = "idle"]
    /\ result' = [result EXCEPT ![s] = [status |-> "timeout", id |-> callerId[s]]]
    /\ UNCHANGED <<issued, callerId, handed>>

Next ==
    \/ \E s \in Callers : Issue(s) \/ Refuse(s) \/ Answer(s) \/ GiveUp(s)
    \/ \E i \in 1..MaxId : Hand(i)

Spec == Init /\ [][Next]_vars
=============================================================================
