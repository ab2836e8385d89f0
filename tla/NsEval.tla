------------------------------- MODULE NsEval -------------------------------
(***************************************************************************)
(* runtime/ns_eval.py: short-lived processes that have one emulator        *)
(* evaluate NewtonScript through a channel without request ids.  An eval   *)
(* is queued, and what it prints is appended to the one result file        *)
(* (containers/patches/einstein-control-socket.patch), which every new     *)
(* eval removes first.  A file lock admits one process at a time; a marker *)
(* file holds the emulator's start time while an eval is in doubt.         *)
(* emulator/control.py uses the same channel over HTTP, without the lock.  *)
(*                                                                         *)
(* Each client is one process and runs once; its name also names its eval. *)
(***************************************************************************)
EXTENDS Integers, Sequences

CONSTANTS
    Clients,        \* ns_eval processes
    HttpCalls,      \* POST /newtonscript requests
    Nobody,         \* no lock holder; whatever prints without an eval
    MaxBoots,       \* bound: starts of the emulator's container
    MaxPieces       \* bound: pieces in the result file

ASSUME NamesAssumption == Nobody \notin Clients /\ Clients \cap HttpCalls = {}
ASSUME BoundsAssumption == MaxBoots \in Nat \ {0} /\ MaxPieces \in Nat

VARIABLES
    lock,       \* the client that holds the flock
    poison,     \* the start time in the marker file; 0: no marker
    pc,         \* of every client
    token,      \* the start time a client read
    answer,     \* the text a client read and returns
    boot,       \* the container's start time
    queue,      \* evals the emulator has accepted and not finished
    result,     \* the pieces in the result file
    uncovered   \* the guard was bypassed since the container started

host == <<lock, poison, pc, token, answer>>
emulator == <<boot, queue, result>>
vars == <<host, emulator, uncovered>>

Evals == Clients \cup HttpCalls
Piece == [eval : Evals \cup {Nobody}, kind : {"value", "Exception"}]
Steps == {"inspect", "check", "mark", "send", "poll", "unmark"}

Init ==
    /\ lock = Nobody /\ poison = 0
    /\ pc = [c \in Clients |-> "new"]
    /\ token = [c \in Clients |-> 0]
    /\ answer = [c \in Clients |-> <<>>]
    /\ boot = 1 /\ queue = <<>> /\ result = <<>>
    /\ uncovered = FALSE

-----------------------------------------------------------------------------
(* One client: run()                                                       *)

Goes(c, from, to) == pc[c] = from /\ pc' = [pc EXCEPT ![c] = to]

\* The process exits: its descriptor goes, and the lock with it.
Exit(c) ==
    /\ pc' = [pc EXCEPT ![c] = "done"]
    /\ lock' = Nobody
    /\ token' = [token EXCEPT ![c] = 0]
    /\ answer' = [answer EXCEPT ![c] = <<>>]

\* (Mutant of Lock: the lock is not looked at.)
LockFree(c) ==
    /\ Goes(c, "new", "inspect") /\ lock' = c
    /\ UNCHANGED <<poison, token, answer, emulator, uncovered>>

(* flock with LOCK_NB: a second process is refused at once. *)
Lock(c) ==
    /\ \/ lock = Nobody /\ Goes(c, "new", "inspect") /\ lock' = c
       \/ lock # Nobody /\ Goes(c, "new", "done") /\ lock' = lock
    /\ UNCHANGED <<poison, token, answer, emulator, uncovered>>

Inspect(c) ==
    /\ Goes(c, "inspect", "check")
    /\ token' = [token EXCEPT ![c] = boot]
    /\ UNCHANGED <<lock, poison, answer, emulator, uncovered>>

\* (Mutant of Check: any marker is taken to be an old one.)
CheckForgiving(c) ==
    /\ Goes(c, "check", "mark")
    /\ poison' = 0
    /\ UNCHANGED <<lock, token, answer, emulator, uncovered>>

(* A marker of this start of the container refuses the eval; an older one  *)
(* is removed.                                                             *)
Check(c) ==
    /\ \/ pc[c] = "check" /\ poison = token[c] /\ Exit(c) /\ poison' = poison
       \/ /\ poison # token[c] /\ Goes(c, "check", "mark") /\ poison' = 0
          /\ UNCHANGED <<lock, token, answer>>
    /\ UNCHANGED <<emulator, uncovered>>

Mark(c) ==
    /\ Goes(c, "mark", "send")
    /\ poison' = token[c]
    /\ UNCHANGED <<lock, token, answer, emulator, uncovered>>

\* The emulator's side of "ns <source>".
Accept(e) == queue' = Append(queue, e) /\ result' = <<>> /\ boot' = boot

Send(c) ==
    /\ Goes(c, "send", "poll")
    /\ Accept(c)
    /\ UNCHANGED <<lock, poison, token, answer, uncovered>>

\* A lone "Exception" line is taken as the first half of an answer.
Complete(text) == text # <<>> /\ (text[1].kind = "Exception" => Len(text) > 1)

Read(c) ==
    /\ Complete(result)
    /\ Goes(c, "poll", "unmark")
    /\ answer' = [answer EXCEPT ![c] = result]
    /\ UNCHANGED <<lock, poison, token, emulator, uncovered>>

Unmark(c) ==
    /\ pc[c] = "unmark"
    /\ poison' = 0
    /\ Exit(c)
    /\ UNCHANGED <<emulator, uncovered>>

\* (Mutant of Leave: the marker is cleaned up on every exit.)
LeaveClean(c) ==
    /\ pc[c] \in Steps
    /\ Exit(c) /\ poison' = 0
    /\ UNCHANGED <<emulator, uncovered>>

(* The deadline passes, a podman command fails or its reply is lost, or    *)
(* the process is killed: the marker stays.                                *)
Leave(c) ==
    /\ pc[c] \in Steps
    /\ Exit(c)
    /\ UNCHANGED <<poison, emulator, uncovered>>

-----------------------------------------------------------------------------
(* The emulator and its other users.                                       *)

\* control.py hands a line to the emulator without looking at the lock.
Command(e) == Accept(e) /\ uncovered' = TRUE

(* POST /newtonscript; the reply says "queued" and no more.                *)
HttpEval(h) ==
    /\ \A i \in 1..Len(queue) : queue[i] # h
    /\ Command(h)
    /\ UNCHANGED host

(* The eval at the head prints; with `last` it is then over.  An exception *)
(* is a line of its own before its text.                                   *)
PrintLine(kind, last) ==
    /\ queue # <<>> /\ Len(result) < MaxPieces
    /\ kind = "Exception" => ~last
    /\ result' = Append(result, [eval |-> Head(queue), kind |-> kind])
    /\ queue' = IF last THEN Tail(queue) ELSE queue
    /\ uncovered' = (uncovered \/ (~last /\ Complete(result')))
    /\ UNCHANGED <<boot, host>>

(* Every line the guest prints goes to the result file: also one of        *)
(* another program, or of a call an eval deferred and that runs when the   *)
(* eval is over.                                                           *)
PrintOther(kind) ==
    /\ Len(result) < MaxPieces
    /\ result' = Append(result, [eval |-> Nobody, kind |-> kind])
    /\ uncovered' = (uncovered \/ \E c \in Clients : pc[c] = "poll")
    /\ UNCHANGED <<boot, queue, host>>

(* The container is restarted, or made anew by emulator_boot: evals are    *)
(* gone, the state volume stays or is emptied.                             *)
Restart ==
    /\ boot < MaxBoots
    /\ boot' = boot + 1 /\ queue' = <<>> /\ result' \in {result, <<>>}
    /\ uncovered' = \E c \in Clients : \/ pc[c] \in {"check", "mark", "send"}
                                      \/ (pc[c] = "poll" /\ uncovered)
    /\ UNCHANGED host

ClientStep(c) ==
    Inspect(c) \/ Check(c) \/ Mark(c) \/ Send(c) \/ Read(c) \/ Unmark(c) \/ Leave(c)

Next ==
    \/ \E c \in Clients : Lock(c) \/ ClientStep(c)
    \/ \E h \in HttpCalls : HttpEval(h)
    \/ \E kind \in {"value", "Exception"}, last \in BOOLEAN : PrintLine(kind, last)
    \/ \E kind \in {"value", "Exception"} : PrintOther(kind)
    \/ Restart

Spec == Init /\ [][Next]_vars

-----------------------------------------------------------------------------
(* Properties.  `uncovered` is set by what the guard does not see: an eval *)
(* over HTTP, a text that looks complete before its eval is over, a line   *)
(* printed by something else while a client waits, a restart between       *)
(* reading the start time and sending.                                     *)

TypeOK ==
    /\ lock \in Clients \cup {Nobody}
    /\ poison \in Nat /\ boot \in Nat \ {0} /\ uncovered \in BOOLEAN
    /\ pc \in [Clients -> Steps \cup {"new", "done"}]
    /\ token \in [Clients -> Nat]
    /\ answer \in [Clients -> Seq(Piece)]
    /\ queue \in Seq(Evals) /\ result \in Seq(Piece)
    /\ \A c \in Clients : pc[c] \in Steps <=> lock = c

(* "Per-request correlation" the channel lacks and the guard stands in     *)
(* for: what a process returns was printed by its own eval, whatever was   *)
(* killed, timed out or restarted before (ns_eval.py:76).                  *)
OwnAnswer ==
    [][\A c \in Clients :
           answer'[c] # answer[c] /\ ~uncovered =>
               \A i \in 1..Len(answer'[c]) : answer'[c][i].eval = c]_vars

(* Whoever may send finds the emulator idle: while nobody holds the lock   *)
(* and no marker names this start of the container, no eval is pending.    *)
ClearMeansIdle ==
    lock = Nobody /\ poison # boot /\ ~uncovered => queue = <<>>

(* An emulator that still owes an answer to a process that is gone is not  *)
(* sent another eval: the channel stays refused until a restart.           *)
RefusedUntilRestart ==
    [][\A c \in Clients :
           pc[c] = "send" /\ pc'[c] = "poll" /\ ~uncovered => queue = <<>>]_vars

(* docs/emulator-nseval-wedge.md:116: "leaves the channel marked           *)
(* POISONED, so a retry cannot consume or erase an old request's result".  *)
(* The code violates this where `uncovered`: no configuration lists it.    *)
OwnAnswerAlways ==
    [][\A c \in Clients : \A i \in 1..Len(answer'[c]) : answer'[c][i].eval = c]_vars
=============================================================================
