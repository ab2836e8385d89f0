---------------------------- MODULE NsEvalProofs ----------------------------
(***************************************************************************)
(* NsEval for any number of clients, requests over HTTP and restarts: as   *)
(* long as nothing has bypassed the guard, no client sends to an emulator  *)
(* that still owes an answer, and none returns another one's text.         *)
(***************************************************************************)
EXTENDS NsEval, SequenceTheorems, TLAPS

(* The emulator and the holder of the lock while the guard is complete.    *)
Guarded ==
    /\ Len(queue) <= 1
    /\ queue # <<>> => poison = boot
    /\ \A c \in Clients : pc[c] \in {"check", "mark", "send"} => token[c] = boot
    /\ \A c \in Clients : pc[c] \in {"mark", "send", "unmark"} => queue = <<>>
    /\ \A c \in Clients : pc[c] = "send" => poison = boot

(* What a client that polls may find.                                      *)
Awaited(c) ==
    /\ \A i \in 1..Len(result) : result[i].eval = c
    /\ queue # <<>> => queue[1] = c /\ ~Complete(result)

Inv ==
    /\ TypeOK
    /\ ~uncovered => Guarded /\ \A c \in Clients : pc[c] = "poll" => Awaited(c)

-----------------------------------------------------------------------------
LEMMA InitInv == Init => Inv
  <1> SUFFICES ASSUME Init PROVE Inv
    OBVIOUS
  <1>1. "new" \notin Steps
    BY DEF Steps
  <1>2. <<>> \in Seq(Piece) /\ <<>> \in Seq(Evals)
    OBVIOUS
  <1>3. TypeOK
    <2>1. pc \in [Clients -> Steps \cup {"new", "done"}] /\ token \in [Clients -> Nat]
      BY DEF Init
    <2>2. answer \in [Clients -> Seq(Piece)]
      BY <1>2 DEF Init
    <2>3. \A c \in Clients : pc[c] \in Steps <=> lock = c
      BY <1>1, NamesAssumption DEF Init
    <2>4. lock \in Clients \cup {Nobody} /\ poison \in Nat /\ boot \in Nat \ {0}
      BY DEF Init
    <2>5. uncovered \in BOOLEAN
      BY DEF Init
    <2>6. queue \in Seq(Evals) /\ result \in Seq(Piece)
      BY <1>2 DEF Init
    <2> QED
      BY <2>1, <2>2, <2>3, <2>4, <2>5, <2>6 DEF TypeOK
  <1>4. Guarded /\ \A c \in Clients : pc[c] # "poll"
    BY DEF Init, Guarded
  <1> QED
    BY <1>3, <1>4 DEF Inv

(* One process at a time is between flock and its end.                     *)
LEMMA OneHolder ==
    ASSUME TypeOK, NEW c \in Clients, pc[c] \in Steps
    PROVE  lock = c /\ \A d \in Clients : pc[d] \in Steps => d = c
  BY DEF TypeOK

-----------------------------------------------------------------------------
(* Types.                                                                  *)

LEMMA ExitType ==
    ASSUME TypeOK, NEW c \in Clients, pc[c] \in Steps, Exit(c)
    PROVE  /\ pc' \in [Clients -> Steps \cup {"new", "done"}]
           /\ token' \in [Clients -> Nat]
           /\ answer' \in [Clients -> Seq(Piece)]
           /\ lock' \in Clients \cup {Nobody}
           /\ \A d \in Clients : pc'[d] \in Steps <=> lock' = d
  <1>1. "done" \notin Steps
    BY DEF Steps
  <1>2. <<>> \in Seq(Piece)
    OBVIOUS
  <1>3. answer' \in [Clients -> Seq(Piece)]
    BY <1>2 DEF Exit, TypeOK
  <1> QED
    BY <1>1, <1>3, OneHolder, NamesAssumption DEF Exit, TypeOK

LEMMA GoesType ==
    ASSUME TypeOK, NEW c \in Clients, NEW from \in Steps, NEW to \in Steps,
           Goes(c, from, to), lock' = lock
    PROVE  /\ pc' \in [Clients -> Steps \cup {"new", "done"}]
           /\ \A d \in Clients : pc'[d] \in Steps <=> lock' = d
  BY DEF Goes, TypeOK

LEMMA AcceptType ==
    ASSUME TypeOK, NEW e \in Evals, Accept(e)
    PROVE  queue' \in Seq(Evals) /\ result' \in Seq(Piece) /\ boot' = boot
  <1>1. queue \in Seq(Evals)
    BY DEF TypeOK
  <1>2. Append(queue, e) \in Seq(Evals)
    BY <1>1
  <1> QED
    BY <1>2 DEF Accept

LEMMA StepType == ASSUME TypeOK, [Next]_vars PROVE TypeOK'
  <1> USE DEF host, emulator
  <1>1. ASSUME NEW c \in Clients, Lock(c) PROVE TypeOK'
    <2>1. CASE lock = Nobody /\ Goes(c, "new", "inspect") /\ lock' = c
      <3>1. \A d \in Clients : pc[d] \notin Steps
        BY <2>1, NamesAssumption DEF TypeOK
      <3>2. pc' \in [Clients -> Steps \cup {"new", "done"}]
        BY <2>1 DEF Goes, TypeOK, Steps
      <3>3. \A d \in Clients : pc'[d] \in Steps <=> lock' = d
        BY <2>1, <3>1 DEF Goes, TypeOK, Steps
      <3> QED
        BY <1>1, <2>1, <3>2, <3>3 DEF Lock, TypeOK
    <2>2. CASE lock # Nobody /\ Goes(c, "new", "done") /\ lock' = lock
      <3>1. lock # c /\ "done" \notin Steps
        BY <2>2 DEF Goes, TypeOK, Steps
      <3>2. pc' \in [Clients -> Steps \cup {"new", "done"}]
        BY <2>2 DEF Goes, TypeOK, Steps
      <3>3. \A d \in Clients : pc'[d] \in Steps <=> lock' = d
        BY <2>2, <3>1 DEF Goes, TypeOK
      <3> QED
        BY <1>1, <2>2, <3>2, <3>3 DEF Lock, TypeOK
    <2> QED
      BY <1>1, <2>1, <2>2 DEF Lock
  <1>2. ASSUME NEW c \in Clients, Inspect(c) PROVE TypeOK'
    <2>1. "inspect" \in Steps /\ "check" \in Steps
      BY DEF Steps
    <2>2. token' \in [Clients -> Nat]
      BY <1>2 DEF Inspect, TypeOK
    <2> QED
      BY <1>2, <2>1, <2>2, GoesType DEF Inspect, TypeOK
  <1>3. ASSUME NEW c \in Clients, Check(c) PROVE TypeOK'
    <2>1. "check" \in Steps /\ "mark" \in Steps
      BY DEF Steps
    <2>2. CASE pc[c] = "check" /\ Exit(c) /\ poison' = poison
      BY <1>3, <2>1, <2>2, ExitType DEF Check, TypeOK
    <2>3. CASE Goes(c, "check", "mark") /\ poison' = 0 /\ UNCHANGED <<lock, token, answer>>
      BY <1>3, <2>1, <2>3, GoesType DEF Check, TypeOK
    <2> QED
      BY <1>3, <2>2, <2>3 DEF Check
  <1>4. ASSUME NEW c \in Clients, Mark(c) PROVE TypeOK'
    <2>1. "send" \in Steps /\ "mark" \in Steps
      BY DEF Steps
    <2>2. poison' \in Nat
      BY <1>4 DEF Mark, TypeOK
    <2> QED
      BY <1>4, <2>1, <2>2, GoesType DEF Mark, TypeOK
  <1>5. ASSUME NEW c \in Clients, Send(c) PROVE TypeOK'
    <2>1. "send" \in Steps /\ "poll" \in Steps /\ c \in Evals
      BY DEF Steps, Evals
    <2>2. queue' \in Seq(Evals) /\ result' \in Seq(Piece) /\ boot' = boot
      BY <1>5, <2>1, AcceptType DEF Send
    <2> QED
      BY <1>5, <2>1, <2>2, GoesType DEF Send, TypeOK
  <1>6. ASSUME NEW c \in Clients, Read(c) PROVE TypeOK'
    <2>1. "unmark" \in Steps /\ "poll" \in Steps
      BY DEF Steps
    <2>2. answer' \in [Clients -> Seq(Piece)]
      BY <1>6 DEF Read, TypeOK
    <2> QED
      BY <1>6, <2>1, <2>2, GoesType DEF Read, TypeOK
  <1>7. ASSUME NEW c \in Clients, Unmark(c) PROVE TypeOK'
    <2>1. pc[c] \in Steps
      BY <1>7 DEF Unmark, Steps
    <2> QED
      BY <1>7, <2>1, ExitType DEF Unmark, TypeOK
  <1>8. ASSUME NEW c \in Clients, Leave(c) PROVE TypeOK'
    BY <1>8, ExitType DEF Leave, TypeOK
  <1>9. ASSUME NEW h \in HttpCalls, HttpEval(h) PROVE TypeOK'
    <2>1. h \in Evals
      BY DEF Evals
    <2> QED
      BY <1>9, <2>1, AcceptType DEF HttpEval, Command, TypeOK
  <1>10. ASSUME NEW kind \in {"value", "Exception"}, NEW last \in BOOLEAN, PrintLine(kind, last)
         PROVE TypeOK'
    <2>1. Head(queue) \in Evals /\ Tail(queue) \in Seq(Evals)
      BY <1>10 DEF PrintLine, TypeOK
    <2>2. [eval |-> Head(queue), kind |-> kind] \in Piece
      BY <2>1 DEF Piece
    <2>3. result' \in Seq(Piece) /\ queue' \in Seq(Evals)
      BY <1>10, <2>1, <2>2 DEF PrintLine, TypeOK
    <2>4. uncovered' \in BOOLEAN
      BY <1>10 DEF PrintLine, TypeOK
    <2> QED
      BY <1>10, <2>3, <2>4 DEF PrintLine, TypeOK
  <1>13. ASSUME NEW kind \in {"value", "Exception"}, PrintOther(kind) PROVE TypeOK'
    <2>1. [eval |-> Nobody, kind |-> kind] \in Piece
      BY DEF Piece
    <2>2. result' \in Seq(Piece)
      BY <1>13, <2>1 DEF PrintOther, TypeOK
    <2>3. uncovered' \in BOOLEAN
      BY <1>13 DEF PrintOther, TypeOK
    <2> QED
      BY <1>13, <2>2, <2>3 DEF PrintOther, TypeOK
  <1>11. ASSUME Restart PROVE TypeOK'
    <2>1. boot' \in Nat \ {0} /\ queue' \in Seq(Evals) /\ uncovered' \in BOOLEAN
      BY <1>11 DEF Restart, TypeOK
    <2>2. result' \in Seq(Piece)
      BY <1>11, EmptySeq DEF Restart, TypeOK
    <2>3. UNCHANGED <<lock, poison, pc, token, answer>>
      BY <1>11 DEF Restart, host
    <2> QED
      BY <2>1, <2>2, <2>3 DEF TypeOK
  <1>12. CASE UNCHANGED vars
    BY <1>12 DEF vars, TypeOK
  <1> QED
    BY <1>1, <1>2, <1>3, <1>4, <1>5, <1>6, <1>7, <1>8, <1>9, <1>10, <1>11, <1>12, <1>13
    DEF Next, ClientStep

-----------------------------------------------------------------------------
(* The guard.  Every step of a client starts from what the holder of the   *)
(* lock knows: nobody else is between flock and its end.                   *)

LEMMA OneLine == <<>> \in Seq(Piece) /\ ~Complete(<<>>)
  BY DEF Complete

LEMMA OneItem ==
    ASSUME NEW S, NEW q \in Seq(S), q # <<>>, Len(q) <= 1
    PROVE  Head(q) = q[1] /\ Tail(q) = <<>>
  <1>1. Len(q) \in Nat /\ (Len(q) = 0 => q = <<>>)
    BY EmptySeq, LenProperties
  <1>2. Len(q) = 1
    BY <1>1
  <1>3. Head(q) = q[1] /\ Tail(q) \in Seq(S) /\ Len(Tail(q)) = Len(q) - 1
    BY HeadTailProperties
  <1>4. Len(Tail(q)) = 0
    BY <1>2, <1>3
  <1> QED
    BY <1>3, <1>4, EmptySeq

(* A client that stops between flock and its end takes nothing with it.    *)
LEMMA ExitInv ==
    ASSUME Inv, TypeOK', NEW c \in Clients, pc[c] \in Steps, Exit(c), UNCHANGED emulator,
           UNCHANGED uncovered, poison' = poison \/ queue = <<>>
    PROVE  Inv'
  <1>1. TypeOK
    BY DEF Inv
  <1>2. \A d \in Clients : pc'[d] \notin Steps
    BY OneHolder, <1>1 DEF Exit, TypeOK, Steps
  <1>3. \A d \in Clients : pc'[d] \notin {"check", "mark", "send", "unmark", "poll"}
    BY <1>2 DEF Steps
  <1>4. ~uncovered' => Guarded'
    BY <1>3 DEF Inv, Guarded, emulator
  <1> QED
    BY <1>3, <1>4 DEF Inv

(* A client that goes on: the others are outside, so what is to be shown   *)
(* is about this one.                                                      *)
LEMMA GoesInv ==
    ASSUME Inv, TypeOK', NEW c \in Clients, NEW from \in Steps, NEW to \in Steps,
           Goes(c, from, to),
           ~uncovered' =>
               /\ Len(queue') <= 1
               /\ queue' # <<>> => poison' = boot'
               /\ to \in {"check", "mark", "send"} => token'[c] = boot'
               /\ to \in {"mark", "send", "unmark"} => queue' = <<>>
               /\ to = "send" => poison' = boot'
               /\ to = "poll" => Awaited(c)'
    PROVE  Inv'
  <1>1. TypeOK
    BY DEF Inv
  <1>2. pc'[c] = to
    BY <1>1 DEF Goes, TypeOK
  <1>3. \A d \in Clients : d # c => pc'[d] \notin Steps
    BY OneHolder, <1>1 DEF Goes, TypeOK
  <1>4. \A d \in Clients : d # c => pc'[d] \notin {"check", "mark", "send", "unmark", "poll"}
    BY <1>3 DEF Steps
  <1>5. ~uncovered' => Guarded'
    BY <1>2, <1>4 DEF Guarded
  <1>6. ~uncovered' => \A d \in Clients : pc'[d] = "poll" => Awaited(d)'
    BY <1>2, <1>4
  <1> QED
    BY <1>5, <1>6 DEF Inv

LEMMA StepInv == ASSUME Inv, [Next]_vars PROVE Inv'
  <1>1. TypeOK
    BY DEF Inv
  <1>2. TypeOK'
    BY <1>1, StepType
  <1>3. ASSUME NEW c \in Clients, Lock(c) PROVE Inv'
    <2>1. \A d \in Clients : pc'[d] \in {"check", "mark", "send", "unmark", "poll"}
                                => pc'[d] = pc[d]
      BY <1>1, <1>3 DEF Lock, Goes, TypeOK
    <2>2. UNCHANGED <<poison, token, boot, queue, result, uncovered>>
      BY <1>3 DEF Lock, emulator
    <2>3. ~uncovered' => Guarded'
      BY <2>1, <2>2 DEF Inv, Guarded
    <2>4. ~uncovered' => \A d \in Clients : pc'[d] = "poll" => Awaited(d)'
      BY <2>1, <2>2 DEF Inv, Awaited, Complete
    <2> QED
      BY <1>2, <2>3, <2>4 DEF Inv
  <1>4. ASSUME NEW c \in Clients, Inspect(c) PROVE Inv'
    <2>1. token'[c] = boot /\ UNCHANGED <<poison, boot, queue, uncovered>>
      BY <1>1, <1>4 DEF Inspect, emulator, TypeOK
    <2>2. Goes(c, "inspect", "check") /\ "inspect" \in Steps /\ "check" \in Steps
      BY <1>4 DEF Inspect, Steps
    <2> QED
      BY <1>2, <2>1, <2>2, GoesInv DEF Inv, Guarded
  <1>5. ASSUME NEW c \in Clients, Check(c) PROVE Inv'
    <2>1. UNCHANGED <<boot, queue, result, uncovered>> /\ UNCHANGED emulator
      BY <1>5 DEF Check, emulator
    <2>2. "check" \in Steps /\ "mark" \in Steps
      BY DEF Steps
    <2>3. CASE pc[c] = "check" /\ poison = token[c] /\ Exit(c) /\ poison' = poison
      BY <1>2, <2>1, <2>2, <2>3, ExitInv
    <2>4. CASE /\ poison # token[c] /\ Goes(c, "check", "mark") /\ poison' = 0
               /\ UNCHANGED <<lock, token, answer>>
      <3>1. ~uncovered => queue = <<>> /\ token[c] = boot
        BY <2>4 DEF Inv, Guarded, Goes
      <3> QED
        BY <1>2, <2>1, <2>2, <2>4, <3>1, GoesInv
    <2> QED
      BY <1>5, <2>3, <2>4 DEF Check
  <1>6. ASSUME NEW c \in Clients, Mark(c) PROVE Inv'
    <2>1. UNCHANGED <<boot, queue, token, uncovered>> /\ poison' = token[c]
      BY <1>6 DEF Mark, emulator
    <2>2. Goes(c, "mark", "send") /\ "mark" \in Steps /\ "send" \in Steps
      BY <1>6 DEF Mark, Steps
    <2>3. ~uncovered => queue = <<>> /\ token[c] = boot
      BY <2>2 DEF Inv, Guarded, Goes
    <2> QED
      BY <1>2, <2>1, <2>2, <2>3, GoesInv
  <1>7. ASSUME NEW c \in Clients, Send(c) PROVE Inv'
    <2>1. UNCHANGED <<boot, poison, uncovered>> /\ queue' = Append(queue, c) /\ result' = <<>>
      BY <1>7 DEF Send, Accept
    <2>2. Goes(c, "send", "poll") /\ "send" \in Steps /\ "poll" \in Steps
      BY <1>7 DEF Send, Steps
    <2>3. ~uncovered => queue = <<>> /\ poison = boot
      BY <2>2 DEF Inv, Guarded, Goes
    <2>4. ~uncovered => Len(queue') <= 1 /\ queue'[1] = c
      BY <2>1, <2>3
    <2>5. ~uncovered => Awaited(c)'
      BY <2>1, <2>4, OneLine DEF Awaited, Complete
    <2> QED
      BY <1>2, <2>1, <2>2, <2>3, <2>4, <2>5, GoesInv
  <1>8. ASSUME NEW c \in Clients, Read(c) PROVE Inv'
    <2>1. UNCHANGED <<boot, poison, queue, uncovered>>
      BY <1>8 DEF Read, emulator
    <2>2. Goes(c, "poll", "unmark") /\ "poll" \in Steps /\ "unmark" \in Steps
      BY <1>8 DEF Read, Steps
    <2>3. ~uncovered => queue = <<>>
      BY <1>8, <2>2 DEF Inv, Awaited, Read, Goes
    <2>4. ~uncovered => Len(queue) <= 1
      BY DEF Inv, Guarded
    <2> QED
      BY <1>2, <2>1, <2>2, <2>3, <2>4, GoesInv
  <1>9. ASSUME NEW c \in Clients, Unmark(c) PROVE Inv'
    <2>1. pc[c] = "unmark" /\ pc[c] \in Steps /\ Exit(c) /\ UNCHANGED <<emulator, uncovered>>
      BY <1>9 DEF Unmark, Steps
    <2>2. CASE uncovered
      <3>1. uncovered'
        BY <2>1, <2>2
      <3> QED
        BY <1>2, <3>1 DEF Inv
    <2>3. CASE ~uncovered
      <3>1. queue = <<>>
        BY <2>1, <2>3 DEF Inv, Guarded
      <3> QED
        BY <1>2, <2>1, <3>1, ExitInv
    <2> QED
      BY <2>2, <2>3
  <1>10. ASSUME NEW c \in Clients, Leave(c) PROVE Inv'
    BY <1>2, <1>10, ExitInv DEF Leave
  <1>11. ASSUME NEW h \in HttpCalls, HttpEval(h) PROVE Inv'
    BY <1>2, <1>11 DEF HttpEval, Command, Inv
  <1>12. ASSUME NEW kind \in {"value", "Exception"}, NEW last \in BOOLEAN, PrintLine(kind, last)
         PROVE Inv'
    <2> SUFFICES ASSUME ~uncovered' PROVE Inv'
      BY <1>2 DEF Inv
    <2>1. ~uncovered /\ (~last => ~Complete(result'))
      BY <1>12 DEF PrintLine
    <2>2. Guarded /\ \A c \in Clients : pc[c] = "poll" => Awaited(c)
      BY <2>1 DEF Inv
    <2>3. queue # <<>> /\ queue \in Seq(Evals) /\ result \in Seq(Piece) /\ Len(queue) <= 1
      BY <1>1, <1>12, <2>2 DEF PrintLine, Guarded, TypeOK
    <2>4. Head(queue) = queue[1] /\ Tail(queue) = <<>>
      BY <2>3, OneItem
    <2>5. queue' = IF last THEN <<>> ELSE queue
      BY <1>12, <2>4 DEF PrintLine
    <2>6. UNCHANGED <<lock, poison, pc, token, boot>>
      BY <1>12 DEF PrintLine, host
    <2>7. Guarded'
      BY <2>2, <2>5, <2>6 DEF Guarded
    <2>8. ASSUME NEW c \in Clients, pc'[c] = "poll" PROVE Awaited(c)'
      <3>1. Awaited(c)
        BY <2>2, <2>6, <2>8
      <3>2. queue[1] = c
        BY <2>3, <3>1 DEF Awaited
      <3>3. result' = Append(result, [eval |-> c, kind |-> kind])
        BY <1>12, <2>4, <3>2 DEF PrintLine
      <3>4. \A i \in 1..Len(result') : result'[i].eval = c
        BY <2>3, <3>1, <3>3 DEF Awaited
      <3> QED
        BY <2>1, <2>5, <3>2, <3>4 DEF Awaited, Complete
    <2> QED
      BY <1>2, <2>7, <2>8 DEF Inv
  <1>15. ASSUME NEW kind \in {"value", "Exception"}, PrintOther(kind) PROVE Inv'
    <2>1. UNCHANGED <<poison, pc, token, boot, queue>>
      BY <1>15 DEF PrintOther, host
    <2>2. ~uncovered' => ~uncovered /\ \A c \in Clients : pc[c] # "poll"
      BY <1>15 DEF PrintOther
    <2>3. ~uncovered' => Guarded'
      BY <2>1, <2>2 DEF Inv, Guarded
    <2> QED
      BY <1>2, <2>1, <2>2, <2>3 DEF Inv
  <1>13. ASSUME Restart PROVE Inv'
    <2> SUFFICES ASSUME ~uncovered' PROVE Inv'
      BY <1>2 DEF Inv
    <2>1. queue' = <<>> /\ UNCHANGED <<lock, poison, pc, token>>
      BY <1>13 DEF Restart, host
    <2>2. result' = result \/ result' = <<>>
      BY <1>13 DEF Restart
    <2>3. \A c \in Clients : pc[c] \notin {"check", "mark", "send"} /\ (pc[c] = "poll" => ~uncovered)
      BY <1>13 DEF Restart
    <2>4. Guarded'
      BY <2>1, <2>3 DEF Guarded
    <2>5. ASSUME NEW c \in Clients, pc'[c] = "poll" PROVE Awaited(c)'
      <3>1. CASE result' = result
        BY <2>1, <2>3, <2>5, <3>1 DEF Inv, Awaited
      <3>2. CASE result' = <<>>
        BY <2>1, <3>2, OneLine DEF Awaited, Complete
      <3> QED
        BY <2>2, <3>1, <3>2
    <2> QED
      BY <1>2, <2>4, <2>5 DEF Inv
  <1>14. CASE UNCHANGED vars
    BY <1>14 DEF vars, host, emulator, Inv, TypeOK, Guarded, Awaited, Complete
  <1> QED
    BY <1>3, <1>4, <1>5, <1>6, <1>7, <1>8, <1>9, <1>10, <1>11, <1>12, <1>13, <1>14, <1>15
    DEF Next, ClientStep

LEMMA AlwaysInv == Spec => []Inv
  BY InitInv, StepInv, PTL DEF Spec

-----------------------------------------------------------------------------
(* One process at a time is between flock and its end, and all variables   *)
(* keep their types.                                                       *)
THEOREM Types == Spec => []TypeOK
  <1>1. Inv => TypeOK
    BY DEF Inv
  <1> QED
    BY AlwaysInv, <1>1, PTL

(* While nobody holds the lock and no marker names this start of the       *)
(* container, the emulator owes nobody an answer.                          *)
THEOREM ClearIdle == Spec => []ClearMeansIdle
  <1>1. Inv => ClearMeansIdle
    BY DEF Inv, Guarded, ClearMeansIdle
  <1> QED
    BY AlwaysInv, <1>1, PTL

(* A client sends only to an emulator that owes no answer, whatever was    *)
(* killed or timed out before.                                             *)
THEOREM Refused == Spec => RefusedUntilRestart
  <1>1. ASSUME Inv, [Next]_vars
        PROVE  [\A c \in Clients :
                   pc[c] = "send" /\ pc'[c] = "poll" /\ ~uncovered => queue = <<>>]_vars
    BY <1>1 DEF Inv, Guarded
  <1> QED
    BY AlwaysInv, <1>1, PTL DEF Spec, RefusedUntilRestart

(* What a client returns was printed by its own eval.                      *)
THEOREM OwnText == Spec => OwnAnswer
  <1>1. ASSUME Inv, Next, NEW c \in Clients, answer'[c] # answer[c], ~uncovered
        PROVE  \A i \in 1..Len(answer'[c]) : answer'[c][i].eval = c
    <2>1. ASSUME NEW d \in Clients, Exit(d) PROVE answer'[c] = <<>> \/ answer'[c] = answer[c]
      BY <1>1, <2>1 DEF Exit, Inv, TypeOK
    <2>2. ASSUME NEW d \in Clients, Read(d)
          PROVE  answer'[c] = answer[c] \/ (d = c /\ answer'[c] = result)
      BY <1>1, <2>2 DEF Read, Inv, TypeOK
    <2>3. ASSUME Read(c) PROVE \A i \in 1..Len(result) : result[i].eval = c
      BY <1>1, <2>3 DEF Read, Goes, Inv, Awaited
    <2>4. \/ answer' = answer \/ \E d \in Clients : Exit(d) \/ Read(d)
      BY <1>1 DEF Next, ClientStep, Lock, Inspect, Check, Mark, Send, Unmark, Leave,
                  HttpEval, PrintLine, PrintOther, Restart, host
    <2> QED
      BY <1>1, <2>1, <2>2, <2>3, <2>4
  <1>2. ASSUME Inv, [Next]_vars
        PROVE  [\A c \in Clients :
                   answer'[c] # answer[c] /\ ~uncovered =>
                       \A i \in 1..Len(answer'[c]) : answer'[c][i].eval = c]_vars
    BY <1>1, <1>2
  <1> QED
    BY AlwaysInv, <1>2, PTL DEF Spec, OwnAnswer

=============================================================================
