-------------------------- MODULE NativeLinkProofs --------------------------
(***************************************************************************)
(* The Newton's client against native_mode, for every number of sequence   *)
(* numbers, retries, reply lines, prompts and connections: what the client *)
(* applies is what the host sent, in order and without gaps, up to         *)
(* immediate repeats; and a reply shown is a run of lines of one turn,     *)
(* each turn shown at most once.                                           *)
(*                                                                         *)
(* The argument: the host gives send_frame one frame at a time and writes  *)
(* it again only until its ACK, so what is on the way to the client is a   *)
(* walk over the frames sent that never skips one and never goes back; two *)
(* neighbours differ, so a repeat is recognised by comparing it with the   *)
(* last frame applied.  Which ACKs arrive, and when, does not matter.      *)
(* The frames sent are one turn after the other, so the reply being        *)
(* gathered is always of the turn of the last frame applied, and what was  *)
(* shown is of turns that have no line left to come.                       *)
(*                                                                         *)
(* In the other direction: a prompt runs whole, as issued and once, and    *)
(* the client is told so by an ACK only when it is so.                     *)
(***************************************************************************)
EXTENDS NativeLink, SequenceTheorems, FiniteSetTheorems, TLAPS

Chunks == [id : Nat, part : Nat, cmd : BOOLEAN]
Says ==
    [op : {"READY", "THINKING", "PROGRESS", "ERROR", "TEXT", "PROMPT"},
     turn : Nat, part : Nat]
Answers ==
    [kind : {"ACK"}, seq : Nat]
    \union [kind : {"NAK"}, seq : Nat, why : {"CHECKSUM", "LENGTH", "PART", "OP", "BUSY"}]
Frames ==
    [kind : {"FRAME"}, seq : 0..SeqSpace, op : {"HELLO", "MSG", "MSGP", "none"},
     k : Nat, n : 0..LongParts, chunk : Chunks, fault : {"none", "CHECKSUM", "LENGTH"}]
HostFrames ==
    [kind : {"FRAME"}, seq : Nat, turn : Nat, part : Nat,
     op : {"READY", "THINKING", "PROGRESS", "ERROR", "TEXT", "PROMPT"}]
Handlers ==
    [pc : {"idle", "send", "await", "agent", "closed"},
     lastRx : 0..SeqSpace, txSeq : 0..(SeqSpace - 1), hello : BOOLEAN,
     parts : Seq(Chunks), total : Nat, todo : Seq(Says),
     after : {"idle", "agent"}, tries : 0..(FrameRetries + 1), beats : Nat]

\* A handler that sends has something to send and an attempt left; the parts
\* buffer respects the prompt limit and the announced total.
Sane(s) ==
    /\ s \in Handlers
    /\ s.pc \in {"send", "await"} => s.todo # <<>>
    /\ s.pc = "send" => s.tries <= FrameRetries
    /\ Len(s.parts) <= MaxChunks /\ Len(s.parts) <= s.total

ServerTyped ==
    /\ toServer \in Seq(Answers \union Frames)
    /\ toClient \in Seq(Answers \union HostFrames)
    /\ Sane(srv)
    /\ accepted \in Seq(Frames)
    /\ ran \in Seq(Seq(Chunks))

-----------------------------------------------------------------------------
(* What the operators of NativeServer return.                              *)

LEMMA Constants ==
  /\ SeqSpace \in Nat /\ SeqSpace > 1 /\ FrameRetries \in Nat
  /\ MaxChunks \in Nat /\ MaxChunks > 0 /\ MaxReply \in Nat /\ MaxProgress \in Nat
  /\ LongParts \in Nat /\ LongParts > 1 /\ LongParts <= MaxChunks
BY WireAssumption, NativeServerAssumption, NewtonClientAssumption, NativeLinkAssumption

LEMMA AppendFacts ==
  ASSUME NEW S, NEW s \in Seq(S), NEW e \in S
  PROVE  /\ Append(s, e) \in Seq(S) /\ Append(s, e) # <<>>
         /\ Len(Append(s, e)) = Len(s) + 1 /\ Len(s) \in Nat
         /\ \A i \in 1..Len(s) : Append(s, e)[i] = s[i]
         /\ Append(s, e)[Len(s) + 1] = e
BY AppendProperties, LenProperties

LEMMA SayType ==
  ASSUME NEW op \in {"READY", "THINKING", "PROGRESS", "ERROR", "TEXT", "PROMPT"},
         NEW turn \in Nat, NEW part \in Nat
  PROVE  Say(op, turn, part) \in Says
BY DEF Say, Says

LEMMA OneSay == ASSUME NEW say \in Says PROVE <<say>> \in Seq(Says) /\ <<say>> # <<>>
OBVIOUS

LEMMA TextsType ==
  ASSUME NEW turn \in Nat, NEW n \in 1..MaxReply
  PROVE  Texts(turn, n) \in Seq(Says)
<1>1. n \in Nat BY Constants
<1>2. \A i \in 1..n : Say("TEXT", turn, i) \in Says
  BY <1>1, SayType
<1>3. [i \in 1..n |-> Say("TEXT", turn, i)] \in [1..n -> Says]
  BY <1>2
<1> QED BY <1>1, <1>3 DEF Texts

LEMMA Joined ==
  ASSUME NEW s \in Seq(Says), NEW t \in Seq(Says), t # <<>>
  PROVE  s \o t \in Seq(Says) /\ s \o t # <<>>
<1>1. /\ s \o t \in Seq(Says)
      /\ Len(s \o t) = Len(s) + Len(t)
  BY ConcatProperties
<1>2. Len(s) \in Nat /\ Len(t) \in Nat /\ Len(t) # 0
  BY LenProperties, EmptySeq
<1> QED BY <1>1, <1>2

LEMMA RepliesType ==
  ASSUME NEW turn \in Nat
  PROVE  /\ ErrorReply(turn) \in Seq(Says) /\ ErrorReply(turn) # <<>>
         /\ \A n \in 1..MaxReply :
                /\ Texts(turn, n) \o Prompt(turn) \in Seq(Says)
                /\ Texts(turn, n) \o Prompt(turn) # <<>>
                /\ <<Say("READY", turn, 0)>> \o Texts(turn, n) \o Prompt(turn) \in Seq(Says)
                /\ <<Say("READY", turn, 0)>> \o Texts(turn, n) \o Prompt(turn) # <<>>
<1>1. Prompt(turn) \in Seq(Says) /\ Prompt(turn) # <<>>
  BY SayType, OneSay DEF Prompt
<1>2. /\ <<Say("ERROR", turn, 0)>> \in Seq(Says)
      /\ <<Say("READY", turn, 0)>> \in Seq(Says) /\ <<Say("READY", turn, 0)>> # <<>>
  BY SayType, OneSay
<1>3. ErrorReply(turn) \in Seq(Says) /\ ErrorReply(turn) # <<>>
  BY <1>1, <1>2, Joined DEF ErrorReply
<1>4. ASSUME NEW n \in 1..MaxReply
      PROVE  /\ Texts(turn, n) \o Prompt(turn) \in Seq(Says)
             /\ Texts(turn, n) \o Prompt(turn) # <<>>
             /\ <<Say("READY", turn, 0)>> \o Texts(turn, n) \o Prompt(turn) \in Seq(Says)
             /\ <<Say("READY", turn, 0)>> \o Texts(turn, n) \o Prompt(turn) # <<>>
  <2>1. Texts(turn, n) \in Seq(Says) BY TextsType
  <2> DEFINE ready == <<Say("READY", turn, 0)>>
             texts == Texts(turn, n)
  <2>3. ready \in Seq(Says) /\ texts \in Seq(Says) BY <1>2, <2>1
  <2> HIDE DEF ready, texts
  <2>4. ready \o texts \in Seq(Says) BY <2>3, ConcatProperties
  <2>2. <<Say("READY", turn, 0)>> \o Texts(turn, n) \in Seq(Says)
    BY <2>4 DEF ready, texts
  <2> QED BY <1>1, <2>1, <2>2, Joined
<1> QED BY <1>3, <1>4

-----------------------------------------------------------------------------
(* What the host says, and in which order (Follows, Closes).               *)

\* The frame that carries a thing to say.
Carries(f, say) == f.op = say.op /\ f.turn = say.turn /\ f.part = say.part

\* What may be the last thing said while backend.chat runs.
Working(f, turn) == f.op \in {"THINKING", "PROGRESS"} /\ f.turn = turn

Chained(q) == \A i \in 1..(Len(q) - 1) : Follows(q[i], q[i + 1])

\* What is left to send is about this turn, or the READY of a HELLO, and leads to
\* where the handler goes on; nothing but the end of it closes the turn.
Script(todo, after, turn) ==
    /\ Chained(todo)
    /\ after = "idle" => Closes(todo[Len(todo)])
    /\ after = "agent" => Working(todo[Len(todo)], turn)
    /\ \A k \in 1..Len(todo) :
           todo[k].turn = turn \/ (todo[k].op = "READY" /\ todo[k].turn = 0)
    /\ \A k \in 1..(Len(todo) - 1) : ~Closes(todo[k])

LEMMA ClosedThen ==
  ASSUME NEW a, Closes(a), NEW b, b.op \in {"THINKING", "READY", "ERROR"}
  PROVE  Follows(a, b)
BY DEF Closes, Follows

LEMMA WorkingThen ==
  ASSUME NEW turn, NEW a, Working(a, turn),
         NEW b, b.op \in {"PROGRESS", "TEXT", "ERROR"}, b.part <= 1, b.turn = turn
  PROVE  Follows(a, b)
BY DEF Working, Follows

\* A frame that carries a thing to say is followed by what that is followed by.
LEMMA CarriedThen ==
  ASSUME NEW f, NEW say, Carries(f, say), NEW b
  PROVE  /\ Follows(say, b) => Follows(f, b)
         /\ Follows(b, say) => Follows(b, f)
         /\ Closes(say) => Closes(f)
         /\ \A turn : Working(say, turn) => Working(f, turn)
BY DEF Carries, Follows, Closes, Working

\* One more frame behind the last.
LEMMA ChainedAppend ==
  ASSUME NEW S, NEW q \in Seq(S), Chained(q), NEW f \in S,
         q # <<>> => Follows(q[Len(q)], f)
  PROVE  /\ Append(q, f) \in Seq(S) /\ Chained(Append(q, f))
         /\ Append(q, f) # <<>> /\ Append(q, f)[Len(Append(q, f))] = f
<1> DEFINE r == Append(q, f)
<1>1. /\ r \in Seq(S) /\ Len(r) = Len(q) + 1 /\ Len(q) \in Nat /\ r # <<>>
      /\ \A i \in 1..Len(q) : r[i] = q[i]
      /\ r[Len(q) + 1] = f
  BY AppendFacts, AppendProperties
<1>2. q = <<>> <=> Len(q) = 0 BY EmptySeq
<1> HIDE DEF r
<1>3. ASSUME NEW i \in 1..(Len(r) - 1) PROVE Follows(r[i], r[i + 1])
  <2>1. CASE i < Len(q)
    <3>1. r[i] = q[i] /\ r[i + 1] = q[i + 1] /\ i \in 1..(Len(q) - 1) BY <1>1, <2>1
    <3> QED BY <3>1 DEF Chained
  <2>2. CASE i = Len(q) BY <1>1, <1>2, <2>2
  <2> QED BY <1>1, <2>1, <2>2
<1>4. Chained(r) BY <1>3 DEF Chained
<1> QED BY <1>1, <1>4 DEF r

LEMMA ChainedTail ==
  ASSUME NEW S, NEW q \in Seq(S), q # <<>>, Chained(q), Tail(q) # <<>>
  PROVE  /\ Chained(Tail(q)) /\ Follows(q[1], Tail(q)[1])
         /\ Tail(q)[Len(Tail(q))] = q[Len(q)]
<1> DEFINE r == Tail(q)
<1>1. Len(q) \in Nat /\ Len(q) # 0 /\ Len(r) = Len(q) - 1 /\ r \in Seq(S)
  BY LenProperties, EmptySeq, HeadTailProperties
<1>2. \A i \in 1..Len(r) : r[i] = q[i + 1] BY HeadTailProperties
<1>3. Len(r) # 0 BY <1>1, EmptySeq
<1> HIDE DEF r
<1>4. ASSUME NEW i \in 1..(Len(r) - 1) PROVE Follows(r[i], r[i + 1])
  <2>1. r[i] = q[i + 1] /\ r[i + 1] = q[i + 2] /\ i + 1 \in 1..(Len(q) - 1)
    BY <1>1, <1>2
  <2>2. Follows(q[i + 1], q[(i + 1) + 1]) BY <2>1 DEF Chained
  <2> QED BY <2>1, <2>2
<1>5. Chained(r) BY <1>4 DEF Chained
<1>6. Follows(q[1], q[1 + 1]) BY <1>1, <1>3 DEF Chained
<1>7. r[1] = q[2] /\ r[Len(r)] = q[Len(q)] BY <1>1, <1>2, <1>3
<1> QED BY <1>5, <1>6, <1>7 DEF r

\* A reply is its lines, numbered from 1, and the PROMPT.
LEMMA ReplyScript ==
  ASSUME NEW turn \in Nat, NEW n \in 1..MaxReply
  PROVE  LET reply == Texts(turn, n) \o Prompt(turn)
         IN  /\ reply \in Seq(Says) /\ Len(reply) = n + 1
             /\ \A i \in 1..n : reply[i] = Say("TEXT", turn, i)
             /\ reply[n + 1] = Say("PROMPT", turn, 0)
             /\ Script(reply, "idle", turn)
<1> DEFINE t == Texts(turn, n)
           p == Prompt(turn)
           reply == t \o p
<1>1. n \in Nat /\ n >= 1 BY Constants
<1>2. t \in Seq(Says) /\ Len(t) = n /\ \A i \in 1..n : t[i] = Say("TEXT", turn, i)
  BY <1>1, TextsType DEF Texts
<1>3. p \in Seq(Says) /\ Len(p) = 1 /\ p[1] = Say("PROMPT", turn, 0)
  BY SayType, OneSay DEF Prompt
<1> HIDE DEF t, p
<1>4. /\ reply \in Seq(Says) /\ Len(reply) = n + 1
      /\ \A i \in 1..(n + 1) : reply[i] = IF i <= n THEN t[i] ELSE p[i - n]
  <2>1. /\ t \o p \in Seq(Says) /\ Len(t \o p) = Len(t) + Len(p)
        /\ \A i \in 1..(Len(t) + Len(p)) :
               (t \o p)[i] = IF i <= Len(t) THEN t[i] ELSE p[i - Len(t)]
    BY <1>2, <1>3, ConcatProperties
  <2> QED BY <1>2, <1>3, <2>1
<1> HIDE DEF reply
<1>5. \A i \in 1..n : reply[i] = Say("TEXT", turn, i) BY <1>1, <1>2, <1>4
<1>6. reply[n + 1] = Say("PROMPT", turn, 0)
  <2>1. (n + 1) - n = 1 /\ ~(n + 1 <= n) /\ n + 1 \in 1..(n + 1) BY <1>1
  <2> QED BY <1>3, <1>4, <2>1
<1>7. ASSUME NEW i \in 1..(Len(reply) - 1) PROVE Follows(reply[i], reply[i + 1])
  <2>1. i \in 1..n /\ i \in Nat /\ (i + 1 \in 1..n \/ i + 1 = n + 1) BY <1>1, <1>4
  <2>2. reply[i] = Say("TEXT", turn, i) BY <1>5, <2>1
  <2>3. reply[i + 1] \in {Say("TEXT", turn, i + 1), Say("PROMPT", turn, 0)}
    BY <1>5, <1>6, <2>1
  <2> HIDE DEF reply
  <2> QED BY <2>2, <2>3 DEF Follows, Closes, Say
<1>8. Chained(reply) BY <1>7 DEF Chained
<1>9. Closes(reply[Len(reply)]) BY <1>4, <1>6 DEF Closes, Say
<1>10. ASSUME NEW k \in 1..n PROVE reply[k].turn = turn /\ ~Closes(reply[k])
  <2>1. reply[k] = Say("TEXT", turn, k) BY <1>5
  <2>2. Say("TEXT", turn, k).op = "TEXT" /\ Say("TEXT", turn, k).turn = turn BY DEF Say
  <2> QED BY <2>1, <2>2 DEF Closes
<1>11. reply[n + 1].turn = turn BY <1>6 DEF Say
<1>12. \A k \in 1..(n + 1) : k \in 1..n \/ k = n + 1 BY <1>1
<1>13. (n + 1) - 1 = n BY <1>1
<1>14. Script(reply, "idle", turn)
  BY <1>4, <1>8, <1>9, <1>10, <1>11, <1>12, <1>13 DEF Script
<1> QED BY <1>4, <1>5, <1>6, <1>14 DEF reply, t, p

\* A command's reply is that, behind a READY.
LEMMA CommandScript ==
  ASSUME NEW turn \in Nat \ {0}, NEW n \in 1..MaxReply
  PROVE  LET reply == <<Say("READY", turn, 0)>> \o Texts(turn, n) \o Prompt(turn)
         IN  reply[1] = Say("READY", turn, 0) /\ Script(reply, "idle", turn)
<1> DEFINE a == <<Say("READY", turn, 0)>>
           t == Texts(turn, n)
           p == Prompt(turn)
           at == a \o t
           reply == at \o p
<1>1. n \in Nat /\ n >= 1 BY Constants
<1>2. a \in Seq(Says) /\ Len(a) = 1 /\ a[1] = Say("READY", turn, 0) BY SayType, OneSay
<1>3. t \in Seq(Says) /\ Len(t) = n /\ \A i \in 1..n : t[i] = Say("TEXT", turn, i)
  BY <1>1, TextsType DEF Texts
<1>4. p \in Seq(Says) /\ Len(p) = 1 /\ p[1] = Say("PROMPT", turn, 0)
  BY SayType, OneSay DEF Prompt
<1> HIDE DEF a, t, p
<1>5. /\ at \in Seq(Says) /\ Len(at) = n + 1
      /\ \A i \in 1..(n + 1) : at[i] = IF i <= 1 THEN a[i] ELSE t[i - 1]
  <2>1. /\ a \o t \in Seq(Says) /\ Len(a \o t) = Len(a) + Len(t)
        /\ \A i \in 1..(Len(a) + Len(t)) :
               (a \o t)[i] = IF i <= Len(a) THEN a[i] ELSE t[i - Len(a)]
    BY <1>2, <1>3, ConcatProperties
  <2>2. Len(a) + Len(t) = n + 1 BY <1>1, <1>2, <1>3
  <2> QED BY <1>2, <1>3, <2>1, <2>2
<1> HIDE DEF at
<1>6. /\ reply \in Seq(Says) /\ Len(reply) = n + 2
      /\ \A i \in 1..(n + 2) : reply[i] = IF i <= n + 1 THEN at[i] ELSE p[i - (n + 1)]
  <2>1. /\ at \o p \in Seq(Says) /\ Len(at \o p) = Len(at) + Len(p)
        /\ \A i \in 1..(Len(at) + Len(p)) :
               (at \o p)[i] = IF i <= Len(at) THEN at[i] ELSE p[i - Len(at)]
    BY <1>4, <1>5, ConcatProperties
  <2>2. Len(at) + Len(p) = n + 2 BY <1>1, <1>4, <1>5
  <2> QED BY <1>4, <1>5, <2>1, <2>2 DEF reply
<1> HIDE DEF reply
<1>7. reply[1] = Say("READY", turn, 0) BY <1>1, <1>2, <1>5, <1>6
<1>8. \A i \in 1..n : reply[i + 1] = Say("TEXT", turn, i)
  <2> SUFFICES ASSUME NEW i \in 1..n PROVE reply[i + 1] = Say("TEXT", turn, i)
    OBVIOUS
  <2>1. i + 1 \in 1..(n + 1) /\ i + 1 \in 1..(n + 2) /\ i + 1 <= n + 1
        /\ ~(i + 1 <= 1) /\ (i + 1) - 1 = i
    BY <1>1
  <2> QED BY <1>3, <1>5, <1>6, <2>1
<1>9. reply[n + 2] = Say("PROMPT", turn, 0)
  <2>1. (n + 2) - (n + 1) = 1 /\ ~(n + 2 <= n + 1) /\ n + 2 \in 1..(n + 2) BY <1>1
  <2> QED BY <1>4, <1>6, <2>1
<1>10. ASSUME NEW i \in 1..(Len(reply) - 1) PROVE Follows(reply[i], reply[i + 1])
  <2>1. CASE i = 1
    <3>1. reply[1 + 1] = Say("TEXT", turn, 1) BY <1>1, <1>8
    <3> QED BY <1>7, <2>1, <3>1 DEF Follows, Closes, Say
  <2>2. CASE i # 1
    <3>1. PICK j \in 1..n : i = j + 1
      <4>1. i - 1 \in 1..n /\ i = (i - 1) + 1 BY <1>1, <1>6, <2>2
      <4> QED BY <4>1
    <3>2. reply[i] = Say("TEXT", turn, j) BY <1>8, <3>1
    <3>3. CASE j < n
      <4>1. j + 1 \in 1..n BY <3>3, <1>1
      <4>2. reply[i + 1] = Say("TEXT", turn, j + 1) BY <1>8, <3>1, <4>1
      <4> QED BY <3>2, <4>2 DEF Follows, Closes, Say
    <3>4. CASE j = n
      <4>1. reply[i + 1] = Say("PROMPT", turn, 0)
        <5>1. i + 1 = n + 2 BY <1>1, <3>1, <3>4
        <5> QED BY <1>9, <5>1
      <4> QED BY <3>2, <4>1 DEF Follows, Closes, Say
    <3> QED BY <1>1, <3>3, <3>4
  <2> QED BY <2>1, <2>2
<1>11. Chained(reply) BY <1>10 DEF Chained
<1>12. Closes(reply[Len(reply)]) BY <1>6, <1>9 DEF Closes, Say
<1>13. \A k \in 1..(n + 1) : reply[k].turn = turn /\ ~Closes(reply[k])
  <2> SUFFICES ASSUME NEW k \in 1..(n + 1)
               PROVE  reply[k].turn = turn /\ ~Closes(reply[k])
    OBVIOUS
  <2>1. CASE k = 1 BY <1>7, <2>1 DEF Say, Closes
  <2>2. CASE k # 1
    <3>1. k - 1 \in 1..n /\ (k - 1) + 1 = k BY <1>1, <2>2
    <3>2. reply[k] = Say("TEXT", turn, k - 1) BY <1>8, <3>1
    <3> QED BY <3>2 DEF Say, Closes
  <2> QED BY <2>1, <2>2
<1>15. reply[n + 2].turn = turn BY <1>9 DEF Say
<1>16. \A k \in 1..(n + 2) : k \in 1..(n + 1) \/ k = n + 2 BY <1>1
<1>17. (n + 2) - 1 = n + 1 BY <1>1
<1>18. Script(reply, "idle", turn)
  BY <1>6, <1>11, <1>12, <1>13, <1>15, <1>16, <1>17 DEF Script
<1>14. reply = <<Say("READY", turn, 0)>> \o Texts(turn, n) \o Prompt(turn)
  BY DEF reply, at, a, t, p
<1> QED BY <1>7, <1>14, <1>18

\* The answers of one or two frames.
LEMMA ShortScripts ==
  ASSUME NEW turn \in Nat
  PROVE  /\ ErrorReply(turn)[1] = Say("ERROR", turn, 0)
         /\ Script(ErrorReply(turn), "idle", turn)
         /\ Script(<<Say("READY", 0, 0)>>, "idle", turn)
         /\ Script(<<Say("THINKING", turn, 0)>>, "agent", turn)
         /\ Script(<<Say("PROGRESS", turn, 0)>>, "agent", turn)
<1>1. ASSUME NEW say PROVE Len(<<say>>) = 1 /\ <<say>>[1] = say /\ Chained(<<say>>)
  BY DEF Chained
<1>2. /\ Len(ErrorReply(turn)) = 2
      /\ ErrorReply(turn)[1] = Say("ERROR", turn, 0)
      /\ ErrorReply(turn)[2] = Say("PROMPT", turn, 0)
  <2> DEFINE a == <<Say("ERROR", turn, 0)>>
             p == Prompt(turn)
  <2>1. a \in Seq(Says) /\ Len(a) = 1 /\ a[1] = Say("ERROR", turn, 0) BY SayType, OneSay
  <2>2. p \in Seq(Says) /\ Len(p) = 1 /\ p[1] = Say("PROMPT", turn, 0)
    BY SayType, OneSay DEF Prompt
  <2>3. ErrorReply(turn) = a \o p BY DEF ErrorReply
  <2> HIDE DEF a, p
  <2>4. /\ a \o p \in Seq(Says) /\ Len(a \o p) = Len(a) + Len(p)
        /\ \A i \in 1..(Len(a) + Len(p)) :
               (a \o p)[i] = IF i <= Len(a) THEN a[i] ELSE p[i - Len(a)]
    BY <2>1, <2>2, ConcatProperties
  <2> QED BY <2>1, <2>2, <2>3, <2>4
<1>3. Follows(Say("ERROR", turn, 0), Say("PROMPT", turn, 0)) BY DEF Follows, Closes, Say
<1>4. /\ Chained(ErrorReply(turn)) /\ Len(ErrorReply(turn)) = 2
      /\ ErrorReply(turn)[1] = Say("ERROR", turn, 0)
      /\ ErrorReply(turn)[2] = Say("PROMPT", turn, 0)
  BY <1>2, <1>3 DEF Chained
<1>5. Closes(Say("PROMPT", turn, 0)) /\ Closes(Say("READY", 0, 0)) BY DEF Closes, Say
<1>6. Working(Say("THINKING", turn, 0), turn) /\ Working(Say("PROGRESS", turn, 0), turn)
  BY DEF Working, Say
<1>7. Script(ErrorReply(turn), "idle", turn)
  <2>1. ErrorReply(turn)[1].turn = turn /\ ErrorReply(turn)[2].turn = turn
        /\ ~Closes(ErrorReply(turn)[1])
    BY <1>4 DEF Say, Closes
  <2>2. 2 - 1 = 1 /\ \A k \in 1..2 : k = 1 \/ k = 2 OBVIOUS
  <2> QED BY <1>4, <1>5, <2>1, <2>2 DEF Script
<1>11. 1 - 1 = 0 /\ 1..0 = {} /\ \A k \in 1..1 : k = 1 OBVIOUS
<1>8. Script(<<Say("READY", 0, 0)>>, "idle", turn)
  <2> DEFINE say == Say("READY", 0, 0)
  <2>1. say.op = "READY" /\ say.turn = 0 /\ Closes(say) BY <1>5 DEF Say
  <2> HIDE DEF say
  <2>2. Script(<<say>>, "idle", turn) BY <1>1, <1>11, <2>1 DEF Script
  <2> QED BY <2>2 DEF say
<1>9. ASSUME NEW say, Working(say, turn) PROVE Script(<<say>>, "agent", turn)
  BY <1>1, <1>9, <1>11 DEF Script, Working
<1> QED BY <1>4, <1>6, <1>7, <1>8, <1>9

-----------------------------------------------------------------------------
(* What the operators of NativeServer leave in the handler.                *)

LEMMA AfterType == ASSUME NEW seq \in 0..(SeqSpace - 1) PROVE After(seq) \in 0..(SeqSpace - 1)
BY Constants DEF After

LEMMA AfterDiffers == ASSUME NEW seq \in 0..(SeqSpace - 1) PROVE After(seq) # seq
<1>1. SeqSpace \in Nat /\ SeqSpace > 1 BY WireAssumption
<1>2. CASE seq = SeqSpace - 1 BY <1>1, <1>2 DEF After
<1>3. CASE seq < SeqSpace - 1
  <2>1. seq + 1 \in 0..(SeqSpace - 1) BY <1>1, <1>3
  <2>2. (seq + 1) % SeqSpace = seq + 1 BY <1>1, <2>1
  <2> QED BY <1>1, <2>2 DEF After
<1> QED BY <1>1, <1>2, <1>3

LEMMA QueueFields ==
  ASSUME NEW s \in Handlers, NEW todo \in Seq(Says), NEW after \in {"idle", "agent"}
  PROVE  LET q == Queue(s, todo, after)
         IN  /\ q \in Handlers
             /\ q.pc = "send" /\ q.todo = todo /\ q.after = after /\ q.tries = 0
             /\ q.parts = s.parts /\ q.total = s.total /\ q.hello = s.hello
             /\ q.txSeq = s.txSeq /\ q.beats = s.beats /\ q.lastRx = s.lastRx
<1> DEFINE s1 == [s EXCEPT !.pc = "send"]
           s2 == [s1 EXCEPT !.todo = todo]
           s3 == [s2 EXCEPT !.after = after]
           q == [s3 EXCEPT !.tries = 0]
<1>0. 0 \in 0..(FrameRetries + 1) BY Constants
<1>1. s1 \in Handlers /\ s1.pc = "send" /\ s1.parts = s.parts /\ s1.total = s.total
      /\ s1.hello = s.hello /\ s1.txSeq = s.txSeq /\ s1.beats = s.beats
      /\ s1.lastRx = s.lastRx
  BY DEF Handlers
<1> HIDE DEF s1
<1>2. s2 \in Handlers /\ s2.pc = s1.pc /\ s2.parts = s1.parts /\ s2.total = s1.total
      /\ s2.hello = s1.hello /\ s2.todo = todo /\ s2.txSeq = s1.txSeq /\ s2.beats = s1.beats
      /\ s2.lastRx = s1.lastRx
  BY <1>1 DEF Handlers
<1> HIDE DEF s2
<1>3. s3 \in Handlers /\ s3.pc = s2.pc /\ s3.parts = s2.parts /\ s3.total = s2.total
      /\ s3.hello = s2.hello /\ s3.todo = s2.todo /\ s3.after = after
      /\ s3.txSeq = s2.txSeq /\ s3.beats = s2.beats /\ s3.lastRx = s2.lastRx
  BY <1>2 DEF Handlers
<1> HIDE DEF s3
<1>4. q \in Handlers /\ q.pc = s3.pc /\ q.parts = s3.parts /\ q.total = s3.total
      /\ q.hello = s3.hello /\ q.todo = s3.todo /\ q.after = s3.after /\ q.tries = 0
      /\ q.txSeq = s3.txSeq /\ q.beats = s3.beats /\ q.lastRx = s3.lastRx
  BY <1>0, <1>3 DEF Handlers
<1>5. q = Queue(s, todo, after) BY DEF q, s3, s2, s1, Queue
<1> HIDE DEF q
<1> QED BY <1>1, <1>2, <1>3, <1>4, <1>5

\* Queueing lines keeps a handler sane.
LEMMA QueueSane ==
  ASSUME NEW s \in Handlers, Len(s.parts) <= MaxChunks, Len(s.parts) <= s.total,
         NEW todo \in Seq(Says), todo # <<>>, NEW after \in {"idle", "agent"}
  PROVE  Sane(Queue(s, todo, after))
BY QueueFields, Constants DEF Sane

LEMMA AckedFields ==
  ASSUME NEW s, Sane(s), s.pc = "await"
  PROVE  LET a == Acked(s)
         IN  /\ Sane(a)
             /\ a.pc = IF Tail(s.todo) = <<>> THEN s.after ELSE "send"
             /\ a.todo = Tail(s.todo) /\ a.after = s.after /\ a.tries = 0
             /\ a.parts = s.parts /\ a.total = s.total /\ a.hello = s.hello
             /\ a.txSeq = After(s.txSeq) /\ a.beats = s.beats /\ a.lastRx = s.lastRx
<1>0. s \in Handlers /\ s.todo \in Seq(Says) /\ s.todo # <<>> BY DEF Sane, Handlers
<1>1. /\ Tail(s.todo) \in Seq(Says) /\ After(s.txSeq) \in 0..(SeqSpace - 1)
      /\ 0 \in 0..(FrameRetries + 1) /\ 0 <= FrameRetries
  BY <1>0, HeadTailProperties, AfterType, Constants DEF Handlers
<1> DEFINE pc == IF Tail(s.todo) = <<>> THEN s.after ELSE "send"
           s1 == [s EXCEPT !.pc = pc]
           s2 == [s1 EXCEPT !.todo = Tail(s.todo)]
           s3 == [s2 EXCEPT !.txSeq = After(s.txSeq)]
           a == [s3 EXCEPT !.tries = 0]
<1>2. pc \in {"idle", "agent", "send"} /\ (pc = "send" => Tail(s.todo) # <<>>)
  BY <1>0 DEF Handlers
<1> HIDE DEF pc
<1>3. s1 \in Handlers /\ s1.pc = pc /\ s1.after = s.after
      /\ s1.parts = s.parts /\ s1.total = s.total /\ s1.hello = s.hello
      /\ s1.beats = s.beats /\ s1.lastRx = s.lastRx
  BY <1>0, <1>2 DEF Handlers
<1> HIDE DEF s1
<1>4. s2 \in Handlers /\ s2.pc = s1.pc /\ s2.after = s1.after /\ s2.todo = Tail(s.todo)
      /\ s2.parts = s1.parts /\ s2.total = s1.total /\ s2.hello = s1.hello
      /\ s2.beats = s1.beats /\ s2.lastRx = s1.lastRx
  BY <1>1, <1>3 DEF Handlers
<1> HIDE DEF s2
<1>5. s3 \in Handlers /\ s3.pc = s2.pc /\ s3.after = s2.after /\ s3.todo = s2.todo
      /\ s3.txSeq = After(s.txSeq)
      /\ s3.parts = s2.parts /\ s3.total = s2.total /\ s3.hello = s2.hello
      /\ s3.beats = s2.beats /\ s3.lastRx = s2.lastRx
  BY <1>1, <1>4 DEF Handlers
<1> HIDE DEF s3
<1>6. a \in Handlers /\ a.pc = s3.pc /\ a.after = s3.after /\ a.todo = s3.todo
      /\ a.tries = 0 /\ a.txSeq = s3.txSeq
      /\ a.parts = s3.parts /\ a.total = s3.total /\ a.hello = s3.hello
      /\ a.beats = s3.beats /\ a.lastRx = s3.lastRx
  BY <1>1, <1>5 DEF Handlers
<1>7. a = Acked(s) BY DEF a, s3, s2, s1, pc, Acked
<1> HIDE DEF a
<1>8. Sane(a) BY <1>1, <1>2, <1>3, <1>4, <1>5, <1>6 DEF Sane
<1> QED BY <1>3, <1>4, <1>5, <1>6, <1>7, <1>8 DEF pc

LEMMA ClosedSane ==
  ASSUME NEW s, Sane(s) PROVE Sane([s EXCEPT !.pc = "closed"])
BY DEF Sane, Handlers

LEMMA GivenUpSane ==
  ASSUME NEW s, Sane(s), s.pc = "await"
  PROVE  Sane(GivenUp(s))
<1>1. s.todo \in Seq(Says) /\ s.todo # <<>> BY DEF Sane, Handlers
<1>2. Head(s.todo) \in Says BY <1>1, HeadTailProperties
<1>3. Head(s.todo).turn \in Nat BY <1>2 DEF Says
<1>4. ErrorReply(Head(s.todo).turn) \in Seq(Says) /\ ErrorReply(Head(s.todo).turn) # <<>>
  BY <1>3, RepliesType
<1>5. Sane(Queue(s, ErrorReply(Head(s.todo).turn), "idle"))
  BY <1>4, QueueSane DEF Sane
<1> QED BY <1>5, ClosedSane DEF GivenUp

LEMMA RetrySane ==
  ASSUME NEW s, Sane(s), s.pc = "await"
  PROVE  Sane(Retry(s))
<1>1. CASE s.tries <= FrameRetries BY <1>1, Constants DEF Retry, Sane, Handlers
<1>2. CASE ~(s.tries <= FrameRetries) BY <1>2, GivenUpSane DEF Retry
<1> QED BY <1>1, <1>2

-----------------------------------------------------------------------------
(* Every variable keeps its type.                                          *)

LEMMA ReadType ==
  ASSUME ServerTyped, NEW pc, Reads(pc)
  PROVE  /\ Line \in Answers \union Frames /\ toServer' \in Seq(Answers \union Frames)
         /\ IsFrame(Line) => Line \in Frames
<1>1. toServer \in Seq(Answers \union Frames) /\ toServer # <<>> BY DEF ServerTyped, Reads
<1>2. Line \in Answers \union Frames /\ Tail(toServer) \in Seq(Answers \union Frames)
  BY <1>1, HeadTailProperties DEF Line
<1> QED BY <1>2 DEF Reads, IsFrame, Answers

LEMMA ReplyType ==
  ASSUME ServerTyped, NEW m \in Answers \union HostFrames, Reply(m)
  PROVE  toClient' \in Seq(Answers \union HostFrames)
BY AppendProperties DEF ServerTyped, Reply

LEMMA AnswerTypes ==
  /\ \A seq \in Nat : AckLine(seq) \in Answers
  /\ \A seq \in Nat : \A why \in {"CHECKSUM", "LENGTH", "PART", "OP", "BUSY"} :
         NakLine(seq, why) \in Answers
BY DEF AckLine, NakLine, Answers

LEMMA FrameFields ==
  ASSUME NEW m \in Frames
  PROVE  /\ m.seq \in 0..SeqSpace /\ m.seq \in Nat /\ m.k \in Nat
         /\ m.n \in Nat /\ m.n <= LongParts
         /\ m.chunk \in Chunks /\ m.chunk.id \in Nat
         /\ ~Sound(m) => m.fault \in {"CHECKSUM", "LENGTH"}
BY Constants DEF Frames, Sound, IsFrame, Chunks

-----------------------------------------------------------------------------
(* What the handler queues.                                                *)

\* A whole prompt: its turn is the next one, and opens with READY or THINKING.
Opens(s) ==
    /\ srv' \in {Queue(s, todo, after) : todo \in Seq(Says) \ {<<>>}, after \in {"idle", "agent"}}
    /\ Script(srv'.todo, srv'.after, Len(ran) + 1)
    /\ srv'.todo[1].op \in {"READY", "THINKING"} /\ ~Closes(srv'.todo[1])

LEMMA RunQueues ==
  ASSUME srv \in Handlers, ran \in Seq(Seq(Chunks)), NEW prompt \in Seq(Chunks),
         NEW seq \in 0..SeqSpace, Run(prompt, seq)
  PROVE  /\ ran' = Append(ran, prompt)
         /\ \E s \in Handlers :
                /\ s.parts = <<>> /\ s.total = 0 /\ s.txSeq = srv.txSeq
                /\ s.hello = srv.hello /\ s.lastRx = seq /\ s.beats = 0
                /\ Opens(s)
<1> DEFINE s0 == [srv EXCEPT !.lastRx = seq]
           s1 == [s0 EXCEPT !.parts = <<>>]
           s2 == [s1 EXCEPT !.total = 0]
           s == [s2 EXCEPT !.beats = 0]
           turn == Len(ran) + 1
<1>1. s0 \in Handlers /\ s0.txSeq = srv.txSeq /\ s0.hello = srv.hello /\ s0.lastRx = seq
  BY DEF Handlers
<1> HIDE DEF s0
<1>2. s1 \in Handlers /\ s1.txSeq = s0.txSeq /\ s1.hello = s0.hello
      /\ s1.lastRx = s0.lastRx /\ s1.parts = <<>>
  BY <1>1, EmptySeq DEF Handlers
<1> HIDE DEF s1
<1>3. s2 \in Handlers /\ s2.txSeq = s1.txSeq /\ s2.hello = s1.hello
      /\ s2.lastRx = s1.lastRx /\ s2.parts = s1.parts /\ s2.total = 0
  BY <1>2 DEF Handlers
<1> HIDE DEF s2
<1>4. s \in Handlers /\ s.txSeq = s2.txSeq /\ s.hello = s2.hello /\ s.lastRx = s2.lastRx
      /\ s.parts = s2.parts /\ s.total = s2.total /\ s.beats = 0
  BY <1>3 DEF Handlers
<1>5. s = [srv EXCEPT !.lastRx = seq, !.parts = <<>>, !.total = 0, !.beats = 0]
  BY DEF s, s2, s1, s0
<1> HIDE DEF s
<1>6. turn \in Nat \ {0} BY LenProperties
<1> HIDE DEF turn
<1>7. Opens(s)
  <2>1. CASE IsCommand(prompt)
    <3>1. PICK n \in 1..MaxReply :
              srv' = Queue(s, <<Say("READY", turn, 0)>> \o Texts(turn, n) \o Prompt(turn), "idle")
      BY <1>5, <2>1 DEF Run, turn
    <3> DEFINE todo == <<Say("READY", turn, 0)>> \o Texts(turn, n) \o Prompt(turn)
    <3>2. /\ todo \in Seq(Says) /\ todo # <<>> /\ todo[1] = Say("READY", turn, 0)
          /\ Script(todo, "idle", turn)
      BY <1>6, RepliesType, CommandScript
    <3>3. srv' = Queue(s, todo, "idle") BY <3>1
    <3> HIDE DEF todo
    <3>4. srv'.todo = todo /\ srv'.after = "idle" BY <1>4, <3>2, <3>3, QueueFields
    <3>5. todo[1].op = "READY" /\ ~Closes(todo[1]) BY <1>6, <3>2 DEF Say, Closes
    <3> QED BY <3>2, <3>3, <3>4, <3>5 DEF Opens, turn
  <2>2. CASE ~IsCommand(prompt)
    <3> DEFINE todo == <<Say("THINKING", turn, 0)>>
    <3>1. srv' = Queue(s, todo, "agent") BY <1>5, <2>2 DEF Run, turn
    <3>2. todo \in Seq(Says) /\ todo # <<>> /\ Script(todo, "agent", turn)
      BY <1>6, SayType, OneSay, ShortScripts
    <3>3. todo[1].op = "THINKING" /\ ~Closes(todo[1]) BY DEF Say, Closes
    <3> HIDE DEF todo
    <3>4. srv'.todo = todo /\ srv'.after = "agent" BY <1>4, <3>1, <3>2, QueueFields
    <3> QED BY <3>1, <3>2, <3>3, <3>4 DEF Opens, turn
  <2> QED BY <2>1, <2>2
<1>8. s.parts = <<>> /\ s.total = 0 /\ s.txSeq = srv.txSeq /\ s.hello = srv.hello
      /\ s.lastRx = seq /\ s.beats = 0
  BY <1>1, <1>2, <1>3, <1>4
<1> QED BY <1>4, <1>7, <1>8 DEF Run

LEMMA HelloQueues ==
  ASSUME ServerTyped, Line \in Frames, AcceptHello
  PROVE  /\ Sane(srv')
         /\ srv'.pc = "send" /\ srv'.tries = 0 /\ srv'.txSeq = srv.txSeq
         /\ srv'.todo[1].op = "READY" /\ Closes(srv'.todo[1])
         /\ \A turn \in Nat : Script(srv'.todo, srv'.after, turn)
<1> DEFINE s0 == [srv EXCEPT !.lastRx = Line.seq]
           s == [s0 EXCEPT !.hello = TRUE]
           todo == <<Say("READY", 0, 0)>>
<1>1. s0 \in Handlers /\ s0.txSeq = srv.txSeq /\ s0.parts = srv.parts /\ s0.total = srv.total
  BY FrameFields DEF ServerTyped, Sane, Handlers
<1> HIDE DEF s0
<1>2. s \in Handlers /\ s.txSeq = srv.txSeq /\ s.parts = srv.parts /\ s.total = srv.total
  BY <1>1 DEF Handlers
<1>3. srv' = Queue(s, todo, "idle") BY DEF AcceptHello, s, s0
<1> HIDE DEF s
<1>4. todo \in Seq(Says) /\ todo # <<>> /\ \A turn \in Nat : Script(todo, "idle", turn)
  BY SayType, OneSay, ShortScripts
<1>5. todo[1].op = "READY" /\ Closes(todo[1]) BY DEF Say, Closes
<1> HIDE DEF todo
<1>6. Sane(srv') BY <1>2, <1>3, <1>4, QueueSane DEF ServerTyped, Sane
<1>7. srv'.todo = todo /\ srv'.after = "idle" /\ srv'.pc = "send" /\ srv'.tries = 0
      /\ srv'.txSeq = srv.txSeq
  BY <1>2, <1>3, <1>4, QueueFields
<1> QED BY <1>4, <1>5, <1>6, <1>7

LEMMA OpensSane ==
  ASSUME NEW s \in Handlers, s.parts = <<>>, s.total = 0, Opens(s)
  PROVE  Sane(srv') /\ srv'.pc = "send" /\ srv'.tries = 0 /\ srv'.txSeq = s.txSeq
<1>1. PICK todo \in Seq(Says) \ {<<>>}, after \in {"idle", "agent"} : srv' = Queue(s, todo, after)
  BY DEF Opens
<1>2. Len(s.parts) <= MaxChunks /\ Len(s.parts) <= s.total BY Constants, EmptySeq
<1> QED BY <1>1, <1>2, QueueSane, QueueFields

\* The parts buffer holds as many parts as the last one said, which is no more
\* than the client's longest prompt has.
LEMMA BufferType ==
  ASSUME ServerTyped, Line \in Frames, ValidPart(Line)
  PROVE  /\ Buffer(Line) \in Seq(Chunks) /\ Len(Buffer(Line)) = Line.k
         /\ Line.k <= Line.n /\ Line.k \in Nat /\ Line.n \in Nat
         /\ Len(Buffer(Line)) <= MaxChunks
<1>1. Line.chunk \in Chunks /\ Line.k \in Nat /\ Line.n \in Nat /\ Line.k <= Line.n
      /\ Line.n <= LongParts
  BY FrameFields DEF ValidPart
<1>2. srv.parts \in Seq(Chunks) BY DEF ServerTyped, Sane, Handlers
<1>3. Line.k <= MaxChunks BY <1>1, Constants
<1>4. CASE Line.k = 1 BY <1>1, <1>3, <1>4 DEF Buffer
<1>5. CASE Line.k # 1
  <2>1. Buffer(Line) = Append(srv.parts, Line.chunk) BY <1>5 DEF Buffer
  <2>2. Line.k = Len(srv.parts) + 1 BY <1>5 DEF ValidPart
  <2> QED BY <1>1, <1>2, <1>3, <2>1, <2>2, AppendProperties
<1> QED BY <1>4, <1>5

\* A part is kept for later, or completes a prompt that runs.
LEMMA PartEffect ==
  ASSUME ServerTyped, Line \in Frames, AcceptPart
  PROVE  \/ /\ Line.k < Line.n /\ ran' = ran /\ Sane(srv') /\ srv'.parts = Buffer(Line)
            /\ srv'.total = Line.n /\ srv'.hello = srv.hello /\ srv'.lastRx = Line.seq
            /\ srv'.pc = "idle" /\ srv'.txSeq = srv.txSeq
         \/ Line.k = Line.n /\ Run(Buffer(Line), Line.seq)
<1>1. /\ Buffer(Line) \in Seq(Chunks) /\ Len(Buffer(Line)) = Line.k
      /\ Line.k <= Line.n /\ Line.k \in Nat /\ Line.n \in Nat /\ Line.seq \in 0..SeqSpace
      /\ Len(Buffer(Line)) <= MaxChunks /\ ~(Len(Buffer(Line)) > MaxChunks)
  BY BufferType, FrameFields, Constants DEF AcceptPart
<1>2. srv \in Handlers /\ srv.pc = "idle"
  BY DEF ServerTyped, Sane, AcceptPart, Reads
<1> DEFINE buffer == Buffer(Line)
           s == [srv EXCEPT !.lastRx = Line.seq]
           t == [s EXCEPT !.parts = buffer]
<1>3. CASE Line.k < Line.n
  <2>1. srv' = [s EXCEPT !.parts = buffer, !.total = Line.n] /\ ran' = ran
    BY <1>1, <1>3 DEF AcceptPart
  <2>2. srv' = [t EXCEPT !.total = Line.n] BY <2>1
  <2>3. s \in Handlers /\ s.pc = "idle" /\ s.txSeq = srv.txSeq /\ s.hello = srv.hello
        /\ s.lastRx = Line.seq
    BY <1>1, <1>2 DEF Handlers
  <2> HIDE DEF s
  <2>4. t \in Handlers /\ t.pc = "idle" /\ t.txSeq = s.txSeq /\ t.hello = s.hello
        /\ t.lastRx = s.lastRx /\ t.parts = buffer
    BY <1>1, <2>3 DEF Handlers
  <2> HIDE DEF t
  <2>5. srv' \in Handlers /\ srv'.pc = "idle" /\ srv'.txSeq = t.txSeq /\ srv'.hello = t.hello
        /\ srv'.lastRx = t.lastRx /\ srv'.parts = t.parts /\ srv'.total = Line.n
    BY <1>1, <2>2, <2>4 DEF Handlers
  <2>6. Sane(srv') BY <1>1, <2>4, <2>5 DEF Sane
  <2> QED BY <1>3, <2>1, <2>3, <2>4, <2>5, <2>6
<1>4. CASE ~(Line.k < Line.n)
  <2>1. Run(buffer, Line.seq) BY <1>1, <1>4 DEF AcceptPart
  <2>2. Line.k = Line.n BY <1>1, <1>4
  <2> QED BY <2>1, <2>2
<1> QED BY <1>3, <1>4

\* What the agent says goes on with the turn.
LEMMA AgentQueues ==
  ASSUME ServerTyped, Agent \/ AgentProgress
  PROVE  /\ Sane(srv') /\ srv'.pc = "send" /\ srv'.tries = 0 /\ srv'.txSeq = srv.txSeq
         /\ Script(srv'.todo, srv'.after, Len(ran))
         /\ srv'.todo[1].op \in {"PROGRESS", "TEXT", "ERROR"} /\ srv'.todo[1].part <= 1
<1>1. srv \in Handlers /\ Len(srv.parts) <= MaxChunks /\ Len(srv.parts) <= srv.total
  BY DEF ServerTyped, Sane
<1> DEFINE turn == Len(ran)
<1>2. turn \in Nat BY LenProperties DEF ServerTyped
<1> HIDE DEF turn
<1>3. ASSUME NEW todo \in Seq(Says), todo # <<>>, NEW after \in {"idle", "agent"}
      PROVE  LET q == Queue(srv, todo, after)
             IN  /\ Sane(q) /\ q \in Handlers /\ q.pc = "send" /\ q.tries = 0
                 /\ q.txSeq = srv.txSeq /\ q.todo = todo /\ q.after = after
                 /\ q.beats = srv.beats
  <2> DEFINE q == Queue(srv, todo, after)
  <2>1. Sane(q) BY <1>1, <1>3, QueueSane
  <2>2. /\ q \in Handlers /\ q.pc = "send" /\ q.tries = 0 /\ q.beats = srv.beats
        /\ q.txSeq = srv.txSeq /\ q.todo = todo /\ q.after = after
    BY <1>1, QueueFields
  <2> QED BY <2>1, <2>2
<1>4. CASE AgentProgress
  <2> DEFINE todo == <<Say("PROGRESS", turn, 0)>>
             q == Queue(srv, todo, "agent")
  <2>1. todo \in Seq(Says) /\ todo # <<>> /\ Script(todo, "agent", turn)
    BY <1>2, SayType, OneSay, ShortScripts
  <2>2. todo[1].op = "PROGRESS" /\ todo[1].part <= 1 BY DEF Say
  <2>3. srv' = [q EXCEPT !.beats = @ + 1] BY <1>4 DEF AgentProgress, turn
  <2> HIDE DEF todo
  <2>4. Sane(q) /\ q \in Handlers /\ q.pc = "send" /\ q.tries = 0
        /\ q.txSeq = srv.txSeq /\ q.todo = todo /\ q.after = "agent"
    BY <1>3, <2>1
  <2> HIDE DEF q
  <2>5. /\ srv' \in Handlers /\ srv'.pc = q.pc /\ srv'.tries = q.tries /\ srv'.txSeq = q.txSeq
        /\ srv'.todo = q.todo /\ srv'.after = q.after /\ srv'.parts = q.parts
        /\ srv'.total = q.total
    BY <2>3, <2>4 DEF Handlers
  <2>6. Sane(srv') BY <2>4, <2>5 DEF Sane
  <2> QED BY <2>1, <2>2, <2>4, <2>5, <2>6 DEF turn
<1>5. CASE AgentReplies
  <2>1. PICK n \in 1..MaxReply : srv' = Queue(srv, Texts(turn, n) \o Prompt(turn), "idle")
    BY <1>5 DEF AgentReplies, turn
  <2> DEFINE todo == Texts(turn, n) \o Prompt(turn)
  <2>2. todo \in Seq(Says) /\ todo # <<>> /\ Script(todo, "idle", turn)
    BY <1>2, RepliesType, ReplyScript
  <2>3. todo[1] = Say("TEXT", turn, 1)
    <3>1. 1 \in 1..n BY Constants
    <3> QED BY <1>2, <3>1, ReplyScript
  <2>4. todo[1].op = "TEXT" /\ todo[1].part <= 1 BY <2>3 DEF Say
  <2>5. srv' = Queue(srv, todo, "idle") BY <2>1
  <2> HIDE DEF todo
  <2> QED BY <1>3, <2>2, <2>4, <2>5 DEF turn
<1>6. CASE AgentFails
  <2> DEFINE todo == ErrorReply(turn)
  <2>1. srv' = Queue(srv, todo, "idle") BY <1>6 DEF AgentFails, turn
  <2>2. todo \in Seq(Says) /\ todo # <<>> /\ todo[1] = Say("ERROR", turn, 0)
        /\ Script(todo, "idle", turn)
    BY <1>2, RepliesType, ShortScripts
  <2>3. todo[1].op = "ERROR" /\ todo[1].part <= 1 BY <2>2 DEF Say
  <2> HIDE DEF todo
  <2> QED BY <1>3, <2>1, <2>2, <2>3 DEF turn
<1> QED BY <1>4, <1>5, <1>6 DEF Agent

-----------------------------------------------------------------------------
(* Every step of the handler is one of seven phases.                       *)

\* Nothing but an answer to a frame of the client is written.
Quiet ==
    /\ sent' = sent
    /\ toClient' = toClient \/ \E m \in Answers : toClient' = Append(toClient, m)

Waits ==
    /\ srv.pc = "idle" /\ srv'.pc \in {"idle", "closed"}
    /\ srv'.txSeq = srv.txSeq /\ ran' = ran

\* Something new is to be sent.
Starts == srv'.pc = "send" /\ srv'.tries = 0 /\ srv'.txSeq = srv.txSeq

\* The handler answers a HELLO, or a turn begins.
Begins ==
    /\ srv.pc = "idle" /\ Starts
    /\ srv'.todo[1].op \in {"READY", "THINKING"}
    /\ Script(srv'.todo, srv'.after, Len(ran'))
    /\ \/ ran' = ran /\ Closes(srv'.todo[1])
       \/ \E prompt \in Seq(Chunks) : ran' = Append(ran, prompt)

\* The agent's turn goes on.
Continues ==
    /\ srv.pc = "agent" /\ Starts /\ ran' = ran
    /\ srv'.todo[1].op \in {"PROGRESS", "TEXT", "ERROR"} /\ srv'.todo[1].part <= 1
    /\ Script(srv'.todo, srv'.after, Len(ran))

\* The handler ends before the first line of an answer.
Breaks == srv.pc = "send" /\ srv' = [srv EXCEPT !.pc = "closed"] /\ ran' = ran

Phases ==
    \/ Quiet /\ srv' = srv /\ ran' = ran
    \/ Quiet /\ (Waits \/ Begins \/ Continues)
    \/ Quiet /\ srv.pc = "await" /\ srv' \in {Acked(srv), Retry(srv), GivenUp(srv)}
             /\ ran' = ran
    \/ Quiet /\ Breaks
    \/ Transmit

Types ==
    /\ toServer' \in Seq(Answers \union Frames)
    /\ toClient' \in Seq(Answers \union HostFrames)
    /\ Sane(srv')
    /\ accepted' \in Seq(Frames)
    /\ ran' \in Seq(Seq(Chunks))

LEMMA QuietType ==
  ASSUME ServerTyped, Quiet PROVE toClient' \in Seq(Answers \union HostFrames)
<1>1. toClient \in Seq(Answers \union HostFrames) BY DEF ServerTyped
<1>2. CASE toClient' = toClient BY <1>1, <1>2
<1>3. CASE \E m \in Answers : toClient' = Append(toClient, m)
  <2>1. PICK m \in Answers : toClient' = Append(toClient, m) BY <1>3
  <2>2. m \in Answers \union HostFrames OBVIOUS
  <2> QED BY <1>1, <2>1, <2>2, AppendProperties
<1> QED BY <1>2, <1>3 DEF Quiet

Accepts == AcceptHello \/ AcceptMsg \/ AcceptPart

LEMMA AcceptStep == ASSUME ServerTyped, Accepts PROVE Types /\ Phases
<1>1. /\ Line \in Frames /\ Reads("idle") /\ Accept(Line) /\ sent' = sent
      /\ toServer' \in Seq(Answers \union Frames)
  BY ReadType DEF Accepts, AcceptHello, AcceptMsg, AcceptPart, Fresh, Sound
<1>2. AckLine(Line.seq) \in Answers BY <1>1, FrameFields, AnswerTypes
<1>3. Quiet BY <1>1, <1>2 DEF Quiet, Accept, Reply
<1>4. accepted' \in Seq(Frames) BY <1>1, AppendProperties DEF Accept, ServerTyped
<1>5. ran \in Seq(Seq(Chunks)) /\ Len(ran) \in Nat /\ srv \in Handlers /\ srv.pc = "idle"
  BY <1>1, LenProperties DEF ServerTyped, Sane, Reads
<1>6. ASSUME NEW prompt \in Seq(Chunks), Run(prompt, Line.seq)
      PROVE  Sane(srv') /\ ran' \in Seq(Seq(Chunks)) /\ Begins
  <2>1. ran' = Append(ran, prompt) BY <1>1, <1>5, <1>6, FrameFields, RunQueues
  <2>2. PICK s \in Handlers : /\ s.parts = <<>> /\ s.total = 0 /\ s.txSeq = srv.txSeq
                              /\ Opens(s)
    BY <1>1, <1>5, <1>6, FrameFields, RunQueues
  <2>3. Sane(srv') /\ Starts BY <2>2, OpensSane DEF Starts
  <2>4. ran' \in Seq(Seq(Chunks)) /\ Len(ran') = Len(ran) + 1
    BY <1>5, <2>1, AppendProperties
  <2> QED BY <1>5, <2>1, <2>2, <2>3, <2>4 DEF Begins, Opens
<1>7. CASE AcceptHello
  <2>1. ran' = ran BY <1>7 DEF AcceptHello
  <2> QED BY <1>1, <1>3, <1>4, <1>5, <1>7, <2>1, HelloQueues, QuietType
        DEF Types, Phases, Begins, Starts
<1>8. CASE AcceptMsg
  <2>1. <<Line.chunk>> \in Seq(Chunks) BY <1>1, FrameFields
  <2>2. Run(<<Line.chunk>>, Line.seq) BY <1>8 DEF AcceptMsg
  <2> QED BY <1>1, <1>3, <1>4, <1>6, <2>1, <2>2, QuietType DEF Types, Phases
<1>9. CASE AcceptPart
  <2>1. Buffer(Line) \in Seq(Chunks) BY <1>1, <1>9, BufferType DEF AcceptPart
  <2>2. CASE Run(Buffer(Line), Line.seq)
    BY <1>1, <1>3, <1>4, <1>6, <2>1, <2>2, QuietType DEF Types, Phases
  <2>3. CASE ~Run(Buffer(Line), Line.seq)
    BY <1>1, <1>3, <1>4, <1>5, <1>9, <2>3, PartEffect, QuietType DEF Types, Phases, Waits
  <2> QED BY <2>2, <2>3
<1> QED BY <1>7, <1>8, <1>9 DEF Accepts

\* Lines that are answered or dropped without being applied.
LEMMA AnswerStep ==
  ASSUME ServerTyped,
         SkipLine \/ RejectFault \/ ReAck \/ RejectFrame \/ StaleLine \/ FrameWhileBusy
  PROVE  /\ Quiet /\ (srv' = srv \/ (Waits /\ Sane(srv')))
         /\ toServer' \in Seq(Answers \union Frames) /\ accepted' = accepted /\ ran' = ran
<1>1. CASE SkipLine
  BY <1>1, ReadType DEF SkipLine, serverVars, Quiet
<1>2. CASE StaleLine
  BY <1>2, ReadType DEF StaleLine, serverVars, Quiet
<1>3. CASE RejectFault
  <2>1. Line \in Frames BY <1>3, ReadType DEF RejectFault
  <2>2. NakLine(Line.seq, Line.fault) \in Answers
    BY <1>3, <2>1, FrameFields, AnswerTypes DEF RejectFault
  <2>3. Quiet BY <1>3, <2>2 DEF RejectFault, Quiet, Reply
  <2>4. Waits /\ Sane(srv')
    BY <1>3 DEF RejectFault, Waits, Reads, ServerTyped, Sane, Handlers
  <2> QED BY <1>3, <2>3, <2>4, ReadType DEF RejectFault
<1>4. CASE ReAck
  <2>1. Line \in Frames BY <1>4, ReadType DEF ReAck, Sound
  <2>2. AckLine(Line.seq) \in Answers BY <2>1, FrameFields, AnswerTypes
  <2> QED BY <1>4, <2>2, ReadType DEF ReAck, serverVars, Quiet, Reply
<1>5. CASE RejectFrame
  <2>1. Line \in Frames BY <1>5, ReadType DEF RejectFrame, Fresh, Sound
  <2>2. NakLine(Line.seq, "PART") \in Answers /\ NakLine(Line.seq, "OP") \in Answers
    BY <2>1, FrameFields, AnswerTypes
  <2> QED BY <1>5, <2>2, ReadType DEF RejectFrame, serverVars, Quiet, Reply
<1>6. CASE FrameWhileBusy
  <2>1. Line \in Frames BY <1>6, ReadType DEF FrameWhileBusy
  <2>2. BusyReply(Line) \in Answers BY <2>1, FrameFields, AnswerTypes DEF BusyReply
  <2> QED BY <1>6, <2>2, ReadType DEF FrameWhileBusy, serverVars, Quiet, Reply
<1> QED BY <1>1, <1>2, <1>3, <1>4, <1>5, <1>6

LEMMA TransmitType == ASSUME ServerTyped, Transmit PROVE Types
<1>1. srv.pc = "send" /\ srv.todo \in Seq(Says) /\ srv.todo # <<>>
      /\ srv.tries <= FrameRetries /\ srv \in Handlers
  BY DEF Transmit, ServerTyped, Sane, Handlers
<1>2. Head(srv.todo) \in Says BY <1>1, HeadTailProperties
<1>3. HostFrame(srv.txSeq, Head(srv.todo)) \in HostFrames
  BY <1>1, <1>2, Constants DEF HostFrame, HostFrames, Says, Handlers
<1>4. toClient' \in Seq(Answers \union HostFrames)
  BY <1>3, ReplyType DEF Transmit
<1> DEFINE s == [srv EXCEPT !.pc = "await"]
<1>5. s \in Handlers /\ s.tries = srv.tries /\ s.pc = "await" /\ s.todo = srv.todo
      /\ s.parts = srv.parts /\ s.total = srv.total
  BY <1>1 DEF Handlers
<1>6. srv' = [s EXCEPT !.tries = srv.tries + 1] BY DEF Transmit
<1> HIDE DEF s
<1>7. srv.tries + 1 \in 0..(FrameRetries + 1) BY <1>1, Constants DEF Handlers
<1>8. /\ srv' \in Handlers /\ srv'.pc = "await" /\ srv'.todo = srv.todo
      /\ srv'.parts = srv.parts /\ srv'.total = srv.total
  BY <1>5, <1>6, <1>7 DEF Handlers
<1> QED BY <1>1, <1>4, <1>8 DEF Transmit, Types, ServerTyped, Sane

LEMMA ServerStep == ASSUME ServerTyped, ServerNext PROVE Types /\ Phases
<1>0. Sane(srv) /\ toServer \in Seq(Answers \union Frames) /\ accepted \in Seq(Frames)
      /\ ran \in Seq(Seq(Chunks))
  BY DEF ServerTyped
<1>1. CASE Accepts BY <1>1, AcceptStep
<1>2. CASE SkipLine \/ RejectFault \/ ReAck \/ RejectFrame \/ StaleLine \/ FrameWhileBusy
  BY <1>0, <1>2, AnswerStep, QuietType DEF Types, Phases
<1>3. CASE Transmit BY <1>3, TransmitType DEF Phases
<1>4. CASE AckArrives \/ NakArrives \/ FrameTimeout \/ TurnTimesOut
  <2>1. /\ srv.pc = "await" /\ srv' \in {Acked(srv), Retry(srv), GivenUp(srv)}
        /\ Quiet /\ ran' = ran /\ accepted' = accepted
        /\ toServer' \in Seq(Answers \union Frames)
    BY <1>0, <1>4, ReadType
       DEF AckArrives, NakArrives, FrameTimeout, TurnTimesOut, Reads, Quiet
  <2>2. Sane(srv') BY <1>0, <2>1, AckedFields, RetrySane, GivenUpSane
  <2> QED BY <1>0, <2>1, <2>2, QuietType DEF Types, Phases
<1>5. CASE Agent \/ AgentProgress
  <2>1. /\ Quiet /\ ran' = ran /\ accepted' = accepted /\ toServer' = toServer
        /\ srv.pc = "agent"
    BY <1>5 DEF Agent, AgentReplies, AgentFails, AgentProgress, Quiet
  <2> QED BY <1>0, <1>5, <2>1, AgentQueues, QuietType DEF Types, Phases, Continues, Starts
<1>6. CASE CommandRaises
  <2>1. /\ Quiet /\ Breaks /\ accepted' = accepted /\ toServer' = toServer /\ ran' = ran
        /\ srv' = [srv EXCEPT !.pc = "closed"]
    BY <1>6 DEF CommandRaises, Quiet, Breaks
  <2>2. Sane(srv') BY <1>0, <2>1, ClosedSane
  <2> QED BY <1>0, <2>1, <2>2, QuietType DEF Types, Phases
<1> QED BY <1>1, <1>2, <1>3, <1>4, <1>5, <1>6 DEF ServerNext, MainLoop, Sender, Accepts
-----------------------------------------------------------------------------
(* The client keeps its types too.                                         *)

\* A prompt has one part, or the parts of a long one.
Prompts == {p \in Seq(Chunks) : Len(p) <= LongParts}
Lines == [turn : Nat, part : Nat]
Clients ==
    [pc : {"down", "dialing", "up"}, ready : BOOLEAN, inFlight : BOOLEAN,
     txSeq : 0..(SeqSpace - 1), draft : 0..SeqSpace, parts : Prompts,
     partIndex : Nat, resp : Seq(Lines), pending : Prompts, dials : Nat]

ClientTyped ==
    /\ cli \in Clients
    /\ issued \in Seq(Seq(Chunks))
    /\ got \in Seq(HostFrames) /\ sent \in Seq(HostFrames)
    /\ shown \in Seq(Seq(Lines))

\* Without a connection nothing is on the way, and no handler has work to do.
Apart ==
    cli.pc # "up" =>
        /\ toServer = <<>> /\ toClient = <<>> /\ srv.pc \in {"idle", "closed"}
        /\ cli.ready = FALSE

TypeInv == ServerTyped /\ ClientTyped /\ Apart

LEMMA NoPrompt == <<>> \in Prompts /\ Nothing \in Prompts /\ Nothing = <<>>
<1>1. <<>> \in Seq(Chunks) /\ Len(<<>>) = 0 BY EmptySeq
<1> QED BY <1>1, Constants DEF Prompts, Nothing

LEMMA PromptFields ==
  ASSUME NEW p \in Prompts
  PROVE  p \in Seq(Chunks) /\ Len(p) \in 0..LongParts /\ (p # <<>> => p[1] \in Chunks)
<1>1. p \in Seq(Chunks) /\ Len(p) <= LongParts BY DEF Prompts
<1>2. Len(p) \in Nat BY <1>1, LenProperties
<1>3. p # <<>> => p[1] \in Chunks BY <1>1, <1>2, EmptySeq, ElementOfSeq
<1> QED BY <1>1, <1>2, <1>3, Constants

LEMMA FrameType ==
  ASSUME NEW seq \in 0..SeqSpace, NEW op \in {"HELLO", "MSG", "MSGP"},
         NEW k \in Nat, NEW n \in 0..LongParts, NEW chunk \in Chunks
  PROVE  ClientFrame(seq, op, k, n, chunk) \in Frames
BY DEF ClientFrame, Frames

LEMMA SendBodyType ==
  ASSUME NEW c \in Clients
  PROVE  LET s == SendBody(c)
         IN  /\ s \in Clients /\ s.pc = c.pc /\ s.ready = c.ready /\ s.resp = c.resp
             /\ s.inFlight = c.inFlight /\ s.parts = c.parts /\ s.partIndex = c.partIndex
             /\ s.pending = c.pending /\ s.dials = c.dials
             /\ s.draft = c.txSeq /\ s.txSeq = After(c.txSeq)
<1> DEFINE s1 == [c EXCEPT !.draft = c.txSeq]
           s == [s1 EXCEPT !.txSeq = After(c.txSeq)]
<1>1. c.txSeq \in 0..SeqSpace /\ After(c.txSeq) \in 0..(SeqSpace - 1)
  BY AfterType, Constants DEF Clients
<1>2. /\ s1 \in Clients /\ s1.pc = c.pc /\ s1.ready = c.ready /\ s1.resp = c.resp
      /\ s1.inFlight = c.inFlight /\ s1.parts = c.parts /\ s1.partIndex = c.partIndex
      /\ s1.pending = c.pending /\ s1.dials = c.dials
      /\ s1.draft = c.txSeq /\ s1.txSeq = c.txSeq
  BY <1>1 DEF Clients
<1>3. s = SendBody(c) BY <1>2 DEF SendBody
<1> HIDE DEF s1
<1>4. /\ s \in Clients /\ s.pc = s1.pc /\ s.ready = s1.ready /\ s.resp = s1.resp
      /\ s.inFlight = s1.inFlight /\ s.parts = s1.parts /\ s.partIndex = s1.partIndex
      /\ s.pending = s1.pending /\ s.dials = s1.dials
      /\ s.draft = s1.draft /\ s.txSeq = After(c.txSeq)
  BY <1>1, <1>2 DEF Clients
<1> HIDE DEF s
<1> QED BY <1>2, <1>3, <1>4

LEMMA SendPartType ==
  ASSUME NEW c \in Clients
  PROVE  LET s == SendPart(c)
         IN  /\ s \in Clients /\ s.pc = c.pc /\ s.ready = c.ready /\ s.resp = c.resp
             /\ s.inFlight = c.inFlight /\ s.parts = c.parts
             /\ s.partIndex = c.partIndex + 1
             /\ s.pending = c.pending /\ s.dials = c.dials
             /\ s.draft = c.txSeq /\ s.txSeq = After(c.txSeq)
<1> DEFINE d == [c EXCEPT !.partIndex = c.partIndex + 1]
<1>0. c.partIndex \in Nat /\ c.partIndex + 1 \in Nat BY DEF Clients
<1>1. /\ d \in Clients /\ d.pc = c.pc /\ d.ready = c.ready /\ d.resp = c.resp
      /\ d.inFlight = c.inFlight /\ d.parts = c.parts /\ d.partIndex = c.partIndex + 1
      /\ d.pending = c.pending /\ d.dials = c.dials /\ d.txSeq = c.txSeq
  BY <1>0 DEF Clients
<1>2. SendPart(c) = SendBody(d) BY DEF SendPart
<1> HIDE DEF d
<1> QED BY <1>1, <1>2, SendBodyType

\* Sending a prompt: its first frame goes, and a long one stays to be uploaded.
LEMMA SendType ==
  ASSUME NEW c \in Clients, NEW prompt \in Prompts
  PROVE  LET s == Send(c, prompt)
         IN  /\ s \in Clients /\ s.pc = c.pc /\ s.ready = FALSE /\ s.inFlight = TRUE
             /\ s.resp = <<>> /\ s.pending = c.pending /\ s.dials = c.dials
             /\ s.draft = c.txSeq /\ s.txSeq = After(c.txSeq)
             /\ Len(prompt) = 1 => s.parts = <<>> /\ s.partIndex = 0
             /\ Len(prompt) # 1 => s.parts = prompt /\ s.partIndex = 1
<1> DEFINE a1 == [c EXCEPT !.ready = FALSE]
           a2 == [a1 EXCEPT !.inFlight = TRUE]
           a3 == [a2 EXCEPT !.resp = <<>>]
           a == [a3 EXCEPT !.partIndex = 0]
           b == [a EXCEPT !.parts = IF Len(prompt) = 1 THEN Nothing ELSE prompt]
<1>1. a1 \in Clients /\ a1.pc = c.pc /\ a1.ready = FALSE /\ a1.txSeq = c.txSeq
      /\ a1.pending = c.pending /\ a1.dials = c.dials
  BY DEF Clients
<1>2. a = [c EXCEPT !.ready = FALSE, !.inFlight = TRUE, !.resp = <<>>, !.partIndex = 0]
  OBVIOUS
<1>3. Send(c, prompt) = IF Len(prompt) = 1 THEN SendBody(b) ELSE SendPart(b)
  BY <1>2 DEF Send
<1> HIDE DEF a1
<1>4. a2 \in Clients /\ a2.pc = a1.pc /\ a2.ready = a1.ready /\ a2.txSeq = a1.txSeq
      /\ a2.pending = a1.pending /\ a2.dials = a1.dials /\ a2.inFlight = TRUE
  BY <1>1 DEF Clients
<1> HIDE DEF a2
<1>5. a3 \in Clients /\ a3.pc = a2.pc /\ a3.ready = a2.ready /\ a3.txSeq = a2.txSeq
      /\ a3.pending = a2.pending /\ a3.dials = a2.dials /\ a3.inFlight = a2.inFlight
      /\ a3.resp = <<>>
  BY <1>4, EmptySeq DEF Clients
<1> HIDE DEF a3
<1>6. a \in Clients /\ a.pc = a3.pc /\ a.ready = a3.ready /\ a.txSeq = a3.txSeq
      /\ a.pending = a3.pending /\ a.dials = a3.dials /\ a.inFlight = a3.inFlight
      /\ a.resp = a3.resp /\ a.partIndex = 0
  BY <1>5 DEF Clients
<1> HIDE DEF a
<1>7. b \in Clients /\ b.pc = a.pc /\ b.ready = a.ready /\ b.txSeq = a.txSeq
      /\ b.pending = a.pending /\ b.dials = a.dials /\ b.inFlight = a.inFlight
      /\ b.resp = a.resp /\ b.partIndex = a.partIndex
      /\ b.parts = IF Len(prompt) = 1 THEN Nothing ELSE prompt
  BY <1>6, NoPrompt DEF Clients
<1> HIDE DEF b
<1>8. CASE Len(prompt) = 1
  BY <1>1, <1>3, <1>4, <1>5, <1>6, <1>7, <1>8, SendBodyType, NoPrompt
<1>9. CASE Len(prompt) # 1
  BY <1>1, <1>3, <1>4, <1>5, <1>6, <1>7, <1>9, SendPartType
<1> QED BY <1>8, <1>9

LEMMA FirstFrameType ==
  ASSUME NEW c \in Clients, NEW prompt \in Prompts, prompt # <<>>
  PROVE  FirstFrame(c, prompt) \in Frames
<1>1. c.txSeq \in 0..SeqSpace BY Constants DEF Clients
<1>2. prompt[1] \in Chunks /\ Len(prompt) \in 0..LongParts /\ 1 \in 0..LongParts
  BY PromptFields, Constants
<1> QED BY <1>1, <1>2, FrameType DEF FirstFrame

LEMMA StoppedType ==
  ASSUME NEW c \in Clients
  PROVE  LET s == Stopped(c)
         IN  /\ s \in Clients /\ s.pc = "down" /\ s.ready = FALSE /\ s.inFlight = FALSE
             /\ s.draft = NoSeq /\ s.parts = <<>> /\ s.partIndex = 0 /\ s.pending = <<>>
             /\ s.resp = c.resp /\ s.txSeq = c.txSeq /\ s.dials = c.dials
<1> DEFINE s1 == [c EXCEPT !.pc = "down"]
           s2 == [s1 EXCEPT !.ready = FALSE]
           s3 == [s2 EXCEPT !.inFlight = FALSE]
           s4 == [s3 EXCEPT !.draft = NoSeq]
           s5 == [s4 EXCEPT !.parts = Nothing]
           s6 == [s5 EXCEPT !.partIndex = 0]
           s == [s6 EXCEPT !.pending = Nothing]
<1>0. NoSeq \in 0..SeqSpace /\ Nothing = <<>> /\ Nothing \in Prompts
  BY Constants, NoPrompt DEF NoSeq
<1>1. s = Stopped(c) BY DEF Stopped
<1>2. s1 \in Clients /\ s1.pc = "down" /\ s1.resp = c.resp /\ s1.txSeq = c.txSeq
      /\ s1.dials = c.dials
  BY DEF Clients
<1> HIDE DEF s1
<1>3. s2 \in Clients /\ s2.pc = s1.pc /\ s2.resp = s1.resp /\ s2.txSeq = s1.txSeq
      /\ s2.dials = s1.dials /\ s2.ready = FALSE
  BY <1>2 DEF Clients
<1> HIDE DEF s2
<1>4. s3 \in Clients /\ s3.pc = s2.pc /\ s3.resp = s2.resp /\ s3.txSeq = s2.txSeq
      /\ s3.dials = s2.dials /\ s3.ready = s2.ready /\ s3.inFlight = FALSE
  BY <1>3 DEF Clients
<1> HIDE DEF s3
<1>5. s4 \in Clients /\ s4.pc = s3.pc /\ s4.resp = s3.resp /\ s4.txSeq = s3.txSeq
      /\ s4.dials = s3.dials /\ s4.ready = s3.ready /\ s4.inFlight = s3.inFlight
      /\ s4.draft = NoSeq
  BY <1>0, <1>4 DEF Clients
<1> HIDE DEF s4
<1>6. s5 \in Clients /\ s5.pc = s4.pc /\ s5.resp = s4.resp /\ s5.txSeq = s4.txSeq
      /\ s5.dials = s4.dials /\ s5.ready = s4.ready /\ s5.inFlight = s4.inFlight
      /\ s5.draft = s4.draft /\ s5.parts = Nothing
  BY <1>0, <1>5 DEF Clients
<1> HIDE DEF s5
<1>7. s6 \in Clients /\ s6.pc = s5.pc /\ s6.resp = s5.resp /\ s6.txSeq = s5.txSeq
      /\ s6.dials = s5.dials /\ s6.ready = s5.ready /\ s6.inFlight = s5.inFlight
      /\ s6.draft = s5.draft /\ s6.parts = s5.parts /\ s6.partIndex = 0
  BY <1>6 DEF Clients
<1> HIDE DEF s6
<1>8. s \in Clients /\ s.pc = s6.pc /\ s.resp = s6.resp /\ s.txSeq = s6.txSeq
      /\ s.dials = s6.dials /\ s.ready = s6.ready /\ s.inFlight = s6.inFlight
      /\ s.draft = s6.draft /\ s.parts = s6.parts /\ s.partIndex = s6.partIndex
      /\ s.pending = Nothing
  BY <1>0, <1>7 DEF Clients
<1> HIDE DEF s
<1> QED BY <1>0, <1>1, <1>2, <1>3, <1>4, <1>5, <1>6, <1>7, <1>8

-----------------------------------------------------------------------------
(* What the client's actions do to the channels, and to what it applied.   *)

ClientTypes ==
    /\ cli' \in Clients
    /\ issued' \in Seq(Seq(Chunks))
    /\ got' \in Seq(HostFrames)
    /\ shown' \in Seq(Seq(Lines))
    /\ toServer' \in Seq(Answers \union Frames)
    /\ toClient' \in Seq(Answers \union HostFrames)

\* The connection goes, and what was on the way with it.
HangsUp ==
    /\ cli'.pc # "up" /\ cli'.ready = FALSE
    /\ toServer' = <<>> /\ toClient' = <<>>
    /\ got' = got /\ shown' = shown

\* A frame is written on the connection that is up; the reply so far is dropped.
Writes ==
    /\ cli.pc = "up" /\ cli'.pc = "up" /\ toClient' = toClient
    /\ got' = got /\ shown' = shown /\ cli'.resp = <<>>

LEMMA NewPromptType ==
  ASSUME TypeInv, NEW n \in {1, LongParts}, NEW cmd \in BOOLEAN
  PROVE  NewPrompt(n, cmd) \in Prompts /\ NewPrompt(n, cmd) # <<>>
         /\ Len(NewPrompt(n, cmd)) = n
<1>1. n \in Nat /\ n > 0 /\ n <= LongParts BY Constants
<1>2. Len(issued) + 1 \in Nat BY LenProperties DEF TypeInv, ClientTyped
<1> DEFINE id == Len(issued) + 1
<1>3. \A i \in 1..n : Chunk(id, i, cmd) \in Chunks
  BY <1>1, <1>2 DEF Chunk, Chunks
<1> HIDE DEF id
<1>4. [i \in 1..n |-> Chunk(id, i, cmd)] \in [1..n -> Chunks] BY <1>3
<1>5. NewPrompt(n, cmd) = [i \in 1..n |-> Chunk(id, i, cmd)] BY DEF NewPrompt, id
<1> DEFINE prompt == [i \in 1..n |-> Chunk(id, i, cmd)]
<1>6. prompt \in Seq(Chunks) /\ Len(prompt) = n BY <1>1, <1>4
<1> HIDE DEF prompt
<1>7. prompt # <<>> BY <1>1, <1>6, EmptySeq
<1>8. prompt \in Prompts BY <1>1, <1>6 DEF Prompts
<1> QED BY <1>5, <1>6, <1>7, <1>8 DEF prompt

LEMMA SendNowEffect ==
  ASSUME TypeInv, NEW prompt \in Prompts, prompt # <<>>, cli.ready = TRUE, SendNow(prompt)
  PROVE  /\ cli' \in Clients /\ toServer' \in Seq(Answers \union Frames)
         /\ cli.pc = "up" /\ cli'.pc = "up" /\ toClient' = toClient /\ cli'.resp = <<>>
<1>1. cli \in Clients /\ cli.pc = "up" BY DEF TypeInv, ClientTyped, Apart
<1>2. cli' \in Clients /\ cli'.pc = "up" /\ cli'.resp = <<>> BY <1>1, SendType DEF SendNow
<1>3. FirstFrame(cli, prompt) \in Answers \union Frames BY <1>1, FirstFrameType
<1>4. toServer' \in Seq(Answers \union Frames)
  BY <1>3, AppendProperties DEF SendNow, TypeInv, ServerTyped
<1> QED BY <1>1, <1>2, <1>4 DEF SendNow

LEMMA ConnectEffect ==
  ASSUME TypeInv, NEW prompt \in Prompts, QueueAndConnect(prompt)
  PROVE  /\ cli' \in Clients /\ cli'.pc = "dialing" /\ cli'.ready = FALSE
         /\ toServer' = <<>> /\ toClient' = <<>>
<1> DEFINE s == Stopped(cli)
           d == [s EXCEPT !.pc = "dialing"]
<1>1. s \in Clients /\ s.ready = FALSE BY StoppedType DEF TypeInv, ClientTyped
<1>2. cli' = [d EXCEPT !.pending = prompt] BY DEF QueueAndConnect
<1> HIDE DEF s
<1>3. d \in Clients /\ d.pc = "dialing" /\ d.ready = FALSE BY <1>1 DEF Clients
<1> HIDE DEF d
<1>4. cli' \in Clients /\ cli'.pc = "dialing" /\ cli'.ready = FALSE
  BY <1>2, <1>3 DEF Clients
<1> QED BY <1>4 DEF QueueAndConnect

LEMMA IssueType ==
  ASSUME TypeInv, NEW prompt \in Prompts, Issue(prompt)
  PROVE  issued' \in Seq(Seq(Chunks)) /\ got' = got /\ shown' = shown
BY AppendProperties, PromptFields DEF Issue, TypeInv, ClientTyped

\* A tap sends on the connection there is, or gives it up and dials.
LEMMA TapEffect ==
  ASSUME TypeInv, Taps
  PROVE  ClientTypes /\ ((HangsUp /\ cli'.pc = "dialing") \/ Writes)
<1>0. cli.ready \in BOOLEAN BY DEF TypeInv, ClientTyped, Clients
<1>1. PICK n \in {1, LongParts}, cmd \in BOOLEAN :
         /\ Issue(NewPrompt(n, cmd))
         /\ \/ cli.ready = TRUE /\ SendNow(NewPrompt(n, cmd))
            \/ QueueAndConnect(NewPrompt(n, cmd))
  BY <1>0 DEF Taps, TapSend, TapAsk, TapNew
<1> DEFINE prompt == NewPrompt(n, cmd)
<1>2. prompt \in Prompts /\ prompt # <<>> BY NewPromptType
<1>3. Issue(prompt) /\ ((cli.ready = TRUE /\ SendNow(prompt)) \/ QueueAndConnect(prompt))
  BY <1>1
<1> HIDE DEF prompt
<1>4. issued' \in Seq(Seq(Chunks)) /\ got' = got /\ shown' = shown
      /\ got \in Seq(HostFrames) /\ shown \in Seq(Seq(Lines))
  BY <1>2, <1>3, IssueType DEF TypeInv, ClientTyped
<1>5. toClient \in Seq(Answers \union HostFrames) BY DEF TypeInv, ServerTyped
<1>6. CASE cli.ready = TRUE /\ SendNow(prompt)
  BY <1>2, <1>4, <1>5, <1>6, SendNowEffect DEF ClientTypes, Writes
<1>7. CASE QueueAndConnect(prompt)
  BY <1>2, <1>4, <1>7, ConnectEffect, EmptySeq DEF ClientTypes, HangsUp
<1> QED BY <1>3, <1>6, <1>7

\* The line the client reads, and the rest of the input.
LEMMA HeardType ==
  ASSUME TypeInv, Hears
  PROVE  /\ Heard \in Answers \union HostFrames
         /\ toClient' \in Seq(Answers \union HostFrames)
         /\ Heard.kind = "FRAME" => Heard \in HostFrames
<1>1. toClient \in Seq(Answers \union HostFrames) /\ toClient # <<>>
  BY DEF TypeInv, ServerTyped, Hears
<1>2. Heard \in Answers \union HostFrames /\ Tail(toClient) \in Seq(Answers \union HostFrames)
  BY <1>1, HeadTailProperties DEF Heard
<1> QED BY <1>2 DEF Hears, Answers

\* A line that is not a host frame leaves what was applied alone.
Answered ==
    /\ Hears /\ ~IsFrame(Heard) /\ cli'.pc = "up"
    /\ got' = got /\ shown' = shown /\ cli'.resp = cli.resp

\* A status leaves the reply alone, or READY sends the queued prompt and drops
\* it; an error replaces it, text extends it, and PROMPT shows it.
Tells ==
    \/ /\ Heard.op \in {"READY", "THINKING", "PROGRESS"}
       /\ shown' = shown /\ cli'.resp \in {cli.resp, <<>>}
    \/ /\ Heard.op = "ERROR"
       /\ shown' = shown /\ cli'.resp = <<[turn |-> Heard.turn, part |-> 0]>>
    \/ /\ Heard.op = "TEXT" /\ shown' = shown
       /\ cli'.resp = Append(cli.resp, [turn |-> Heard.turn, part |-> Heard.part])
    \/ /\ Heard.op = "PROMPT"
       /\ shown' = Append(shown, cli.resp) /\ cli'.resp = <<>>

\* A host frame is acknowledged and applied, once if it is repeated at once.
Applied ==
    /\ Hears /\ IsFrame(Heard) /\ cli'.pc = "up"
    /\ got' = IF Repeated THEN got ELSE Append(got, Heard)
    /\ Tells

LEMMA HearAckEffect ==
  ASSUME TypeInv, HearAck
  PROVE  ClientTypes /\ Answered
<1>1. cli \in Clients /\ cli.pc = "up" BY DEF HearAck, Hears, TypeInv, ClientTyped
<1>0. NoSeq \in 0..SeqSpace BY Constants DEF NoSeq
<1> DEFINE c == [cli EXCEPT !.draft = NoSeq]
<1>2. c \in Clients /\ c.pc = "up" /\ c.parts = cli.parts /\ c.partIndex = cli.partIndex
      /\ c.txSeq = cli.txSeq /\ c.resp = cli.resp
  BY <1>0, <1>1 DEF Clients
<1>3. /\ IF cli.partIndex < Len(cli.parts)
         THEN cli' = SendPart(c) /\ toServer' = Append(toServer, PartFrame(c))
         ELSE cli' = [c EXCEPT !.parts = Nothing] /\ toServer' = toServer
      /\ Hears /\ ~IsFrame(Heard) /\ UNCHANGED <<issued, got, shown>>
  BY DEF HearAck, IsFrame
<1> HIDE DEF c
<1>4. toServer \in Seq(Answers \union Frames) BY DEF TypeInv, ServerTyped
<1>5. CASE cli.partIndex < Len(cli.parts)
  <2>1. cli' \in Clients /\ cli'.pc = "up" /\ cli'.resp = cli.resp
    BY <1>2, <1>3, <1>5, SendPartType
  <2>0. cli.parts \in Prompts BY <1>1 DEF Clients
  <2>2. /\ cli.parts \in Seq(Chunks) /\ cli.partIndex \in Nat /\ cli.txSeq \in 0..SeqSpace
        /\ Len(cli.parts) \in 0..LongParts /\ Len(cli.parts) \in Nat
    BY <1>1, <2>0, Constants, PromptFields, LenProperties DEF Clients
  <2>3. cli.parts[cli.partIndex + 1] \in Chunks BY <1>5, <2>2, ElementOfSeq
  <2>4. PartFrame(c) \in Frames BY <1>2, <2>2, <2>3, FrameType DEF PartFrame
  <2>5. toServer' \in Seq(Answers \union Frames) BY <1>3, <1>4, <1>5, <2>4, AppendProperties
  <2> QED BY <1>3, <2>1, <2>5, HeardType
        DEF ClientTypes, Answered, TypeInv, ClientTyped
<1>6. CASE ~(cli.partIndex < Len(cli.parts))
  <2>1. cli' \in Clients /\ cli'.pc = "up" /\ toServer' = toServer /\ cli'.resp = cli.resp
    BY <1>2, <1>3, <1>6, NoPrompt DEF Clients
  <2> QED BY <1>3, <1>4, <2>1, HeardType
        DEF ClientTypes, Answered, TypeInv, ClientTyped
<1> QED BY <1>5, <1>6

LEMMA HearNakEffect ==
  ASSUME TypeInv, HearNak
  PROVE  ClientTypes /\ Answered
<1>1. cli \in Clients /\ cli.pc = "up" BY DEF HearNak, Hears, TypeInv, ClientTyped
<1> DEFINE s1 == [cli EXCEPT !.draft = NoSeq]
           s2 == [s1 EXCEPT !.parts = Nothing]
           s3 == [s2 EXCEPT !.partIndex = 0]
           s4 == [s3 EXCEPT !.inFlight = FALSE]
<1>2. cli' = [s4 EXCEPT !.ready = TRUE] BY DEF HearNak
<1>0. NoSeq \in 0..SeqSpace BY Constants DEF NoSeq
<1>3. s1 \in Clients /\ s1.pc = "up" /\ s1.resp = cli.resp BY <1>0, <1>1 DEF Clients
<1> HIDE DEF s1
<1>4. s2 \in Clients /\ s2.pc = "up" /\ s2.resp = cli.resp BY <1>3, NoPrompt DEF Clients
<1> HIDE DEF s2
<1>5. s3 \in Clients /\ s3.pc = "up" /\ s3.resp = cli.resp BY <1>4 DEF Clients
<1> HIDE DEF s3
<1>6. s4 \in Clients /\ s4.pc = "up" /\ s4.resp = cli.resp BY <1>5 DEF Clients
<1> HIDE DEF s4
<1>7. cli' \in Clients /\ cli'.pc = "up" /\ cli'.resp = cli.resp BY <1>2, <1>6 DEF Clients
<1>8. Hears /\ ~IsFrame(Heard) /\ UNCHANGED <<issued, got, shown, toServer>>
  BY DEF HearNak, IsFrame
<1> QED BY <1>7, <1>8, HeardType
      DEF ClientTypes, Answered, TypeInv, ClientTyped, ServerTyped

\* The ACK of a host frame goes out, with what the client sends behind it.
LEMMA ApplyEffect ==
  ASSUME TypeInv, NEW op, Hear(op), NEW frames \in Seq(Frames), Apply(frames)
  PROVE  /\ Heard \in HostFrames /\ IsFrame(Heard) /\ Hears
         /\ toServer' \in Seq(Answers \union Frames)
         /\ toClient' \in Seq(Answers \union HostFrames)
         /\ issued' \in Seq(Seq(Chunks)) /\ got' \in Seq(HostFrames)
         /\ got' = IF Repeated THEN got ELSE Append(got, Heard)
         /\ Heard.op = op
<1>1. Hears /\ IsFrame(Heard) /\ Heard \in HostFrames /\ Heard.op = op
  BY HeardType DEF Hear, IsFrame
<1>2. AckLine(Heard.seq) \in Answers BY <1>1, AnswerTypes DEF HostFrames
<1> DEFINE ack == <<AckLine(Heard.seq)>>
           All == Answers \union Frames
<1>3. ack \in Seq(All) BY <1>2
<1>4. frames \in Seq(All) BY ElementOfSeq
<1>5. toServer \in Seq(All) BY DEF TypeInv, ServerTyped
<1>6. toServer' = (toServer \o ack) \o frames
      /\ got' = (IF Repeated THEN got ELSE Append(got, Heard)) /\ issued' = issued
  BY DEF Apply
<1> HIDE DEF ack, All
<1>7. toServer \o ack \in Seq(All) BY <1>3, <1>5, ConcatProperties
<1> DEFINE front == toServer \o ack
<1>8. toServer' = front \o frames /\ front \in Seq(All) BY <1>6, <1>7
<1> HIDE DEF front
<1>9. toServer' \in Seq(All) BY <1>4, <1>8, ConcatProperties
<1>10. got \in Seq(HostFrames) /\ issued \in Seq(Seq(Chunks)) BY DEF TypeInv, ClientTyped
<1>11. got' \in Seq(HostFrames) BY <1>1, <1>6, <1>10, AppendProperties
<1> QED BY <1>1, <1>6, <1>9, <1>10, <1>11, HeardType DEF All

LEMMA HearReadyEffect ==
  ASSUME TypeInv, HearReady
  PROVE  ClientTypes /\ Applied
<1>1. cli \in Clients /\ cli.pc = "up" BY DEF HearReady, Hear, Hears, TypeInv, ClientTyped
<1> DEFINE c0 == [cli EXCEPT !.ready = TRUE]
           c == [c0 EXCEPT !.pending = Nothing]
<1>2. c = [cli EXCEPT !.ready = TRUE, !.pending = Nothing] OBVIOUS
<1>3. /\ Hear("READY") /\ shown' = shown
      /\ IF cli.pending = Nothing \/ cli.inFlight
         THEN cli' = c /\ Apply(<<>>)
         ELSE cli' = Send(c, cli.pending) /\ Apply(<<FirstFrame(c, cli.pending)>>)
  BY <1>2 DEF HearReady
<1> HIDE DEF c
<1>4. c0 \in Clients /\ c0.pc = "up" /\ c0.resp = cli.resp BY <1>1 DEF Clients
<1> HIDE DEF c0
<1>5. c \in Clients /\ c.pc = "up" /\ c.resp = cli.resp BY <1>4, NoPrompt DEF Clients, c
<1>6. <<>> \in Seq(Frames) BY EmptySeq
<1>7. CASE cli.pending = Nothing \/ cli.inFlight
  <2>1. cli' = c /\ Apply(<<>>) BY <1>3, <1>7
  <2>2. Tells BY <1>3, <1>5, <1>6, <2>1, ApplyEffect DEF Tells
  <2> QED BY <1>3, <1>5, <1>6, <2>1, <2>2, ApplyEffect
        DEF ClientTypes, Applied, TypeInv, ClientTyped
<1>8. CASE ~(cli.pending = Nothing \/ cli.inFlight)
  <2>1. cli' = Send(c, cli.pending) /\ Apply(<<FirstFrame(c, cli.pending)>>) BY <1>3, <1>8
  <2>2. cli.pending \in Prompts /\ cli.pending # <<>> BY <1>1, <1>8 DEF Clients, Nothing
  <2>3. cli' \in Clients /\ cli'.pc = "up" /\ cli'.resp = <<>> BY <1>5, <2>1, <2>2, SendType
  <2>4. <<FirstFrame(c, cli.pending)>> \in Seq(Frames) BY <1>5, <2>2, FirstFrameType
  <2>5. Tells BY <1>3, <2>1, <2>3, <2>4, ApplyEffect DEF Tells
  <2> QED BY <1>3, <2>1, <2>3, <2>4, <2>5, ApplyEffect
        DEF ClientTypes, Applied, TypeInv, ClientTyped
<1> QED BY <1>7, <1>8

LEMMA HearErrorEffect ==
  ASSUME TypeInv, HearError
  PROVE  ClientTypes /\ Applied
<1>1. cli \in Clients /\ cli.pc = "up" BY DEF HearError, Hear, Hears, TypeInv, ClientTyped
<1>2. <<>> \in Seq(Frames) BY EmptySeq
<1>3. Hear("ERROR") /\ Apply(<<>>) /\ shown' = shown BY DEF HearError
<1>4. Heard \in HostFrames BY <1>2, <1>3, ApplyEffect
<1>5. Heard.turn \in Nat BY <1>4 DEF HostFrames
<1> DEFINE line == <<[turn |-> Heard.turn, part |-> 0]>>
           s1 == [cli EXCEPT !.ready = TRUE]
           s2 == [s1 EXCEPT !.inFlight = FALSE]
<1>6. line \in Seq(Lines) BY <1>5 DEF Lines
<1>7. cli' = [s2 EXCEPT !.resp = line] BY DEF HearError
<1> HIDE DEF line
<1>8. s1 \in Clients /\ s1.pc = "up" BY <1>1 DEF Clients
<1> HIDE DEF s1
<1>9. s2 \in Clients /\ s2.pc = "up" BY <1>8 DEF Clients
<1> HIDE DEF s2
<1>10. cli' \in Clients /\ cli'.pc = "up" /\ cli'.resp = line
  BY <1>6, <1>7, <1>9 DEF Clients
<1>11. Tells BY <1>2, <1>3, <1>10, ApplyEffect DEF Tells, line
<1> QED BY <1>2, <1>3, <1>10, <1>11, ApplyEffect
      DEF ClientTypes, Applied, TypeInv, ClientTyped

LEMMA HearTextEffect ==
  ASSUME TypeInv, HearText
  PROVE  ClientTypes /\ Applied
<1>1. cli \in Clients /\ cli.pc = "up" BY DEF HearText, Hear, Hears, TypeInv, ClientTyped
<1>2. <<>> \in Seq(Frames) BY EmptySeq
<1>3. Hear("TEXT") /\ Apply(<<>>) /\ shown' = shown BY DEF HearText
<1>4. Heard \in HostFrames BY <1>2, <1>3, ApplyEffect
<1> DEFINE line == [turn |-> Heard.turn, part |-> Heard.part]
<1>5. line \in Lines BY <1>4 DEF Lines, HostFrames
<1>6. cli' = [cli EXCEPT !.resp = Append(cli.resp, line)] BY DEF HearText
<1> HIDE DEF line
<1>7. Append(cli.resp, line) \in Seq(Lines) BY <1>1, <1>5, AppendProperties DEF Clients
<1>8. cli' \in Clients /\ cli'.pc = "up" /\ cli'.resp = Append(cli.resp, line)
  BY <1>1, <1>6, <1>7 DEF Clients
<1>9. Tells BY <1>2, <1>3, <1>8, ApplyEffect DEF Tells, line
<1> QED BY <1>2, <1>3, <1>8, <1>9, ApplyEffect
      DEF ClientTypes, Applied, TypeInv, ClientTyped

LEMMA HearPromptEffect ==
  ASSUME TypeInv, HearPrompt
  PROVE  ClientTypes /\ Applied
<1>1. cli \in Clients /\ cli.pc = "up" BY DEF HearPrompt, Hear, Hears, TypeInv, ClientTyped
<1>2. <<>> \in Seq(Frames) BY EmptySeq
<1>3. Hear("PROMPT") /\ Apply(<<>>) /\ shown' = Append(shown, cli.resp) BY DEF HearPrompt
<1>4. cli.resp \in Seq(Lines) BY <1>1 DEF Clients
<1>5. shown' \in Seq(Seq(Lines)) BY <1>3, <1>4, AppendProperties DEF TypeInv, ClientTyped
<1> DEFINE s1 == [cli EXCEPT !.resp = <<>>]
           s2 == [s1 EXCEPT !.ready = TRUE]
<1>6. cli' = [s2 EXCEPT !.inFlight = FALSE] BY DEF HearPrompt
<1>7. s1 \in Clients /\ s1.pc = "up" /\ s1.resp = <<>> BY <1>1, EmptySeq DEF Clients
<1> HIDE DEF s1
<1>8. s2 \in Clients /\ s2.pc = "up" /\ s2.resp = <<>> BY <1>7 DEF Clients
<1> HIDE DEF s2
<1>9. cli' \in Clients /\ cli'.pc = "up" /\ cli'.resp = <<>> BY <1>6, <1>8 DEF Clients
<1>10. Tells BY <1>2, <1>3, <1>9, ApplyEffect DEF Tells
<1> QED BY <1>2, <1>3, <1>5, <1>9, <1>10, ApplyEffect DEF ClientTypes, Applied

\* Every line the client reads is an answer, or a host frame that is applied.
LEMMA HearEffect ==
  ASSUME TypeInv, HandleLine
  PROVE  ClientTypes /\ (Answered \/ Applied)
<1>1. CASE HearOtherAck
  BY <1>1, HeardType
     DEF HearOtherAck, clientVars, Hears, ClientTypes, Answered, IsFrame,
         TypeInv, ClientTyped, ServerTyped
<1>2. CASE HearStatus
  <2>1. PICK op \in {"THINKING", "PROGRESS"} : Hear(op) BY <1>2 DEF HearStatus
  <2>2. Apply(<<>>) /\ cli' = cli /\ shown' = shown BY <1>2 DEF HearStatus
  <2>3. <<>> \in Seq(Frames) BY EmptySeq
  <2>4. cli.pc = "up" BY <2>1 DEF Hear, Hears
  <2>5. Tells BY <2>1, <2>2, <2>3, ApplyEffect DEF Tells
  <2> QED BY <2>1, <2>2, <2>3, <2>4, <2>5, ApplyEffect
        DEF ClientTypes, Applied, TypeInv, ClientTyped
<1> QED BY <1>1, <1>2, HearAckEffect, HearNakEffect, HearReadyEffect, HearErrorEffect,
           HearTextEffect, HearPromptEffect DEF HandleLine

-----------------------------------------------------------------------------
(* What is on the way to the client.                                       *)

\* A walk over the frames sent: it starts at frame n, the last one applied, each
\* line stays where it is or goes one frame on, and it ends at the last frame.
Aligned(at, c, q, n) ==
    /\ at[0] = n
    /\ at[Len(c)] = Len(q)
    /\ \A i \in 1..Len(c) :
           /\ at[i] \in {at[i - 1], at[i - 1] + 1}
           /\ IsFrame(c[i]) => at[i] \in 1..Len(q) /\ c[i] = q[at[i]]
           /\ ~IsFrame(c[i]) => at[i] = at[i - 1]

Way(c, q, n) == \E at \in [0..Len(c) -> Nat] : Aligned(at, c, q, n)

LEMMA WayEmpty ==
  ASSUME NEW q, Len(q) \in Nat PROVE Way(<<>>, q, Len(q))
<1> DEFINE at == [i \in 0..0 |-> Len(q)]
<1>1. at \in [0..0 -> Nat] /\ at[0] = Len(q) OBVIOUS
<1> HIDE DEF at
<1>2. Len(<<>>) = 0 /\ 1..0 = {} OBVIOUS
<1>3. Aligned(at, <<>>, q, Len(q)) BY <1>1, <1>2 DEF Aligned
<1> QED BY <1>1, <1>2, <1>3 DEF Way

\* An answer leaves the walk where it is; a frame is the last one, old or new.
LEMMA WayAppend ==
  ASSUME NEW S, NEW c \in Seq(S), NEW q \in Seq(HostFrames), NEW n, Way(c, q, n),
         NEW m \in S, NEW r \in Seq(HostFrames), Len(r) \in {Len(q), Len(q) + 1},
         \A i \in 1..Len(q) : r[i] = q[i],
         IsFrame(m) => r # <<>> /\ m = r[Len(r)],
         ~IsFrame(m) => Len(r) = Len(q)
  PROVE  Way(Append(c, m), r, n)
<1>1. PICK at \in [0..Len(c) -> Nat] : Aligned(at, c, q, n) BY DEF Way
<1> DEFINE d == Append(c, m)
           to == [i \in 0..Len(d) |-> IF i <= Len(c) THEN at[i] ELSE Len(r)]
<1>2. /\ Len(c) \in Nat /\ Len(d) = Len(c) + 1 /\ d[Len(c) + 1] = m
      /\ \A i \in 1..Len(c) : d[i] = c[i]
  BY LenProperties, AppendProperties
<1>3. Len(q) \in Nat /\ Len(r) \in Nat /\ (r # <<>> => Len(r) \in 1..Len(r))
  BY LenProperties, EmptySeq
<1> HIDE DEF d
<1>4. /\ to \in [0..Len(d) -> Nat]
      /\ \A i \in 0..Len(c) : to[i] = at[i]
      /\ to[Len(c) + 1] = Len(r)
  BY <1>2, <1>3
<1> HIDE DEF to
<1>5. /\ at[0] = n /\ at[Len(c)] = Len(q)
      /\ \A i \in 1..Len(c) :
             /\ at[i] \in {at[i - 1], at[i - 1] + 1}
             /\ IsFrame(c[i]) => at[i] \in 1..Len(q) /\ c[i] = q[at[i]]
             /\ ~IsFrame(c[i]) => at[i] = at[i - 1]
  BY <1>1 DEF Aligned
<1>6. to[0] = n /\ to[Len(d)] = Len(r) BY <1>2, <1>4, <1>5
<1>7. ASSUME NEW i \in 1..Len(d)
      PROVE  /\ to[i] \in {to[i - 1], to[i - 1] + 1}
             /\ IsFrame(d[i]) => to[i] \in 1..Len(r) /\ d[i] = r[to[i]]
             /\ ~IsFrame(d[i]) => to[i] = to[i - 1]
  <2>1. CASE i \in 1..Len(c)
    <3>1. to[i] = at[i] /\ to[i - 1] = at[i - 1] /\ d[i] = c[i] BY <1>2, <1>4, <2>1
    <3>2. 1..Len(q) \subseteq 1..Len(r) BY <1>3
    <3> QED BY <1>5, <2>1, <3>1, <3>2
  <2>2. CASE i = Len(c) + 1
    <3>1. to[i] = Len(r) /\ to[i - 1] = Len(q) /\ d[i] = m BY <1>2, <1>4, <1>5, <2>2
    <3> QED BY <1>3, <3>1
  <2> QED BY <1>2, <2>1, <2>2
<1>8. Aligned(to, d, r, n) BY <1>6, <1>7 DEF Aligned
<1>9. Way(d, r, n) BY <1>4, <1>8 DEF Way
<1> QED BY <1>9 DEF d

\* The client reads the frame it applied last, or the next one.
LEMMA WayTail ==
  ASSUME NEW S, NEW c \in Seq(S), c # <<>>, NEW q, NEW n \in Nat, Way(c, q, n)
  PROVE  /\ ~IsFrame(Head(c)) => Way(Tail(c), q, n)
         /\ IsFrame(Head(c)) =>
                \E i \in {n, n + 1} : /\ i \in 1..Len(q) /\ Head(c) = q[i]
                                      /\ Way(Tail(c), q, i)
<1>1. PICK at \in [0..Len(c) -> Nat] : Aligned(at, c, q, n) BY DEF Way
<1> DEFINE d == Tail(c)
           to == [i \in 0..Len(d) |-> at[i + 1]]
<1>2. /\ Len(c) \in Nat /\ Len(c) # 0 /\ Len(d) = Len(c) - 1 /\ Head(c) = c[1]
      /\ \A i \in 1..Len(d) : d[i] = c[i + 1]
  BY LenProperties, EmptySeq, HeadTailProperties
<1> HIDE DEF d
<1>3. to \in [0..Len(d) -> Nat] /\ \A i \in 0..Len(d) : to[i] = at[i + 1] BY <1>2
<1> HIDE DEF to
<1>4. /\ at[0] = n /\ at[Len(c)] = Len(q)
      /\ \A i \in 1..Len(c) :
             /\ at[i] \in {at[i - 1], at[i - 1] + 1}
             /\ IsFrame(c[i]) => at[i] \in 1..Len(q) /\ c[i] = q[at[i]]
             /\ ~IsFrame(c[i]) => at[i] = at[i - 1]
  BY <1>1 DEF Aligned
<1>5. to[0] = at[1] /\ to[Len(d)] = Len(q) BY <1>2, <1>3, <1>4
<1>6. ASSUME NEW i \in 1..Len(d)
      PROVE  /\ to[i] \in {to[i - 1], to[i - 1] + 1}
             /\ IsFrame(d[i]) => to[i] \in 1..Len(q) /\ d[i] = q[to[i]]
             /\ ~IsFrame(d[i]) => to[i] = to[i - 1]
  <2>1. to[i] = at[i + 1] /\ to[i - 1] = at[i] /\ d[i] = c[i + 1] /\ i + 1 \in 1..Len(c)
    BY <1>2, <1>3
  <2>2. (i + 1) - 1 = i OBVIOUS
  <2> QED BY <1>4, <2>1, <2>2
<1>7. Aligned(to, d, q, at[1]) BY <1>5, <1>6 DEF Aligned
<1>8. Way(d, q, at[1]) BY <1>3, <1>7 DEF Way
<1>9. /\ at[1] \in {n, n + 1}
      /\ IsFrame(c[1]) => at[1] \in 1..Len(q) /\ c[1] = q[at[1]]
      /\ ~IsFrame(c[1]) => at[1] = n
  <2>1. 1 \in 1..Len(c) /\ 1 - 1 = 0 BY <1>2
  <2> QED BY <1>4, <2>1
<1> QED BY <1>2, <1>8, <1>9 DEF d

-----------------------------------------------------------------------------
(* The order of delivery.                                                  *)

Awaited(s) == s.pc = "await" \/ (s.pc = "send" /\ s.tries # 0)

\* Neighbours differ: by their sequence number, or the second is the error that
\* ends a turn whose progress note was given up.
Numbered(s, q) ==
    /\ \A i \in 1..(Len(q) - 1) : q[i] # q[i + 1]
    /\ s.pc = "await" => s.tries # 0
    /\ Awaited(s) => q # <<>> /\ q[Len(q)] = HostFrame(s.txSeq, s.todo[1])
    /\ q # <<>> /\ ~Awaited(s) /\ s.pc # "closed" =>
           \/ After(q[Len(q)].seq) = s.txSeq
           \/ /\ q[Len(q)].seq = s.txSeq /\ q[Len(q)].op = "PROGRESS"
              /\ s.pc = "send" /\ s.todo[1].op = "ERROR"
    /\ q # <<>> => q[Len(q)].seq \in 0..(SeqSpace - 1)

\* The client has applied a prefix of what was sent.
Prefix == Len(got) <= Len(sent) /\ \A i \in 1..Len(got) : got[i] = sent[i]

LinkInv ==
    /\ Prefix
    /\ Numbered(srv, sent)
    /\ cli.pc = "up" => Way(toClient, sent, Len(got))

\* Writing: the frame is the last one sent, new the first time.
LEMMA TransmitNumbered ==
  ASSUME ServerTyped, sent \in Seq(HostFrames), Numbered(srv, sent), Transmit
  PROVE  /\ sent' \in Seq(HostFrames) /\ Numbered(srv', sent')
         /\ \E f \in HostFrames :
                /\ toClient' = Append(toClient, f)
                /\ sent' # <<>> /\ f = sent'[Len(sent')]
                /\ sent' = sent \/ sent' = Append(sent, f)
<1>1. srv.pc = "send" /\ srv \in Handlers /\ srv.todo \in Seq(Says) /\ srv.todo # <<>>
  BY DEF Transmit, ServerTyped, Sane, Handlers
<1>2. Head(srv.todo) = srv.todo[1] /\ Head(srv.todo) \in Says
  BY <1>1, HeadTailProperties
<1> DEFINE say == srv.todo[1]
           f == HostFrame(srv.txSeq, say)
<1>3. f \in HostFrames /\ f.seq = srv.txSeq /\ f.op = say.op /\ srv.txSeq \in 0..(SeqSpace - 1)
  BY <1>1, <1>2, Constants DEF HostFrame, HostFrames, Says, Handlers
<1>4. /\ srv'.pc = "await" /\ srv'.todo = srv.todo /\ srv'.txSeq = srv.txSeq
      /\ srv'.tries = srv.tries + 1 /\ srv.tries \in Nat
  <2> DEFINE s == [srv EXCEPT !.pc = "await"]
  <2>1. s.pc = "await" /\ s.todo = srv.todo /\ s.txSeq = srv.txSeq /\ s.tries = srv.tries
        /\ s \in Handlers
    BY <1>1 DEF Handlers
  <2>2. srv' = [s EXCEPT !.tries = srv.tries + 1] BY DEF Transmit
  <2> HIDE DEF s
  <2> QED BY <1>1, <2>1, <2>2, Constants DEF Handlers
<1>5. /\ sent' = IF srv.tries = 0 THEN Append(sent, f) ELSE sent
      /\ toClient' = Append(toClient, f)
  BY <1>2 DEF Transmit, Reply
<1>6. f = HostFrame(srv'.txSeq, srv'.todo[1]) BY <1>4
<1> HIDE DEF f
<1>7. CASE srv.tries = 0
  <2>1. /\ sent' = Append(sent, f) /\ sent' \in Seq(HostFrames) /\ sent' # <<>>
        /\ Len(sent') = Len(sent) + 1 /\ Len(sent) \in Nat
        /\ \A i \in 1..Len(sent) : sent'[i] = sent[i]
        /\ sent'[Len(sent) + 1] = f
    BY <1>3, <1>5, <1>7, AppendFacts
  <2>2. sent # <<>> => sent[Len(sent)] # f
    <3> SUFFICES ASSUME sent # <<>> PROVE sent[Len(sent)] # f
      OBVIOUS
    <3>1. \/ After(sent[Len(sent)].seq) = srv.txSeq
          \/ sent[Len(sent)].op = "PROGRESS" /\ say.op = "ERROR"
      BY <1>1, <1>7 DEF Numbered, Awaited
    <3>2. sent[Len(sent)].seq \in 0..(SeqSpace - 1) BY DEF Numbered
    <3>3. After(srv.txSeq) # srv.txSeq BY <1>3, AfterDiffers
    <3> QED BY <1>3, <3>1, <3>2, <3>3
  <2>3. ASSUME NEW i \in 1..(Len(sent') - 1) PROVE sent'[i] # sent'[i + 1]
    <3>1. CASE i < Len(sent)
      <4>1. i \in 1..(Len(sent) - 1) /\ sent'[i] = sent[i] /\ sent'[i + 1] = sent[i + 1]
        BY <2>1, <3>1
      <4> QED BY <4>1 DEF Numbered
    <3>2. CASE i = Len(sent)
      <4>1. sent # <<>> /\ sent'[i] = sent[Len(sent)] /\ sent'[i + 1] = f
        BY <2>1, <3>2, EmptySeq
      <4> QED BY <2>2, <4>1
    <3> QED BY <2>1, <3>1, <3>2
  <2>4. Awaited(srv') /\ srv'.tries # 0 BY <1>4 DEF Awaited
  <2>5. sent'[Len(sent')] = f BY <2>1
  <2>6. Numbered(srv', sent')
    <3>1. sent'[Len(sent')].seq \in 0..(SeqSpace - 1) BY <1>3, <2>5
    <3> QED BY <1>6, <2>1, <2>3, <2>4, <2>5, <3>1 DEF Numbered
  <2> QED BY <1>3, <1>5, <2>1, <2>5, <2>6
<1>8. CASE srv.tries # 0
  <2>1. sent' = sent BY <1>5, <1>8
  <2>2. sent # <<>> /\ sent[Len(sent)] = f BY <1>1, <1>8 DEF Numbered, Awaited, f
  <2>3. Awaited(srv') /\ srv'.tries # 0 BY <1>4 DEF Awaited
  <2>4. Numbered(srv', sent') BY <1>6, <2>1, <2>2, <2>3 DEF Numbered
  <2> QED BY <1>3, <1>5, <2>1, <2>2, <2>4
<1> QED BY <1>7, <1>8

LEMMA AckedNumbered ==
  ASSUME NEW s, Sane(s), s.pc = "await", NEW q, Numbered(s, q)
  PROVE  Numbered(Acked(s), q)
<1> DEFINE a == Acked(s)
<1>1. s.todo \in Seq(Says) /\ s.todo # <<>> /\ s.after \in {"idle", "agent"}
  BY DEF Sane, Handlers
<1>2. /\ a.pc \in {"idle", "agent", "send"} /\ a.tries = 0 /\ a.txSeq = After(s.txSeq)
  BY <1>1, AckedFields
<1> HIDE DEF a
<1>3. q # <<>> /\ q[Len(q)] = HostFrame(s.txSeq, s.todo[1]) BY DEF Numbered, Awaited
<1>4. After(q[Len(q)].seq) = a.txSeq BY <1>2, <1>3 DEF HostFrame
<1>5. ~Awaited(a) /\ a.pc # "await" BY <1>2 DEF Awaited
<1>6. Numbered(a, q) BY <1>4, <1>5 DEF Numbered
<1> QED BY <1>6 DEF a

LEMMA EndedNumbered ==
  ASSUME NEW s \in Handlers, NEW q, Numbered(s, q)
  PROVE  Numbered([s EXCEPT !.pc = "closed"], q)
<1> DEFINE r == [s EXCEPT !.pc = "closed"]
<1>1. r.pc = "closed" BY DEF Handlers
<1> HIDE DEF r
<1>2. Numbered(r, q) BY <1>1 DEF Numbered, Awaited
<1> QED BY <1>2 DEF r

LEMMA GivenUpNumbered ==
  ASSUME NEW s, Sane(s), s.pc = "await", NEW q, Numbered(s, q)
  PROVE  Numbered(GivenUp(s), q)
<1>1. s \in Handlers /\ s.todo \in Seq(Says) /\ s.todo # <<>> BY DEF Sane, Handlers
<1>2. Head(s.todo) = s.todo[1] /\ Head(s.todo) \in Says BY <1>1, HeadTailProperties
<1>3. q # <<>> /\ q[Len(q)] = HostFrame(s.txSeq, s.todo[1]) BY DEF Numbered, Awaited
<1>4. CASE Head(s.todo).op = "PROGRESS"
  <2> DEFINE t == Head(s.todo).turn
             r == Queue(s, ErrorReply(t), "idle")
  <2>1. t \in Nat BY <1>2 DEF Says
  <2>2. GivenUp(s) = r BY <1>4 DEF GivenUp
  <2>3. ErrorReply(t) \in Seq(Says) /\ ErrorReply(t)[1].op = "ERROR"
    BY <2>1, RepliesType, SayType DEF ErrorReply, Say, Prompt
  <2> HIDE DEF t
  <2>4. r.pc = "send" /\ r.tries = 0 /\ r.txSeq = s.txSeq /\ r.todo = ErrorReply(t)
    BY <1>1, <2>3, QueueFields
  <2> HIDE DEF r
  <2>5. q[Len(q)].seq = s.txSeq /\ q[Len(q)].op = "PROGRESS"
    BY <1>2, <1>3, <1>4 DEF HostFrame
  <2>6. ~Awaited(r) /\ r.pc # "await" BY <2>4 DEF Awaited
  <2>7. Numbered(r, q) BY <2>3, <2>4, <2>5, <2>6 DEF Numbered
  <2> QED BY <2>2, <2>7
<1>5. CASE Head(s.todo).op # "PROGRESS"
  BY <1>1, <1>5, EndedNumbered DEF GivenUp
<1> QED BY <1>4, <1>5

LEMMA RetryNumbered ==
  ASSUME NEW s, Sane(s), s.pc = "await", NEW q, Numbered(s, q)
  PROVE  Numbered(Retry(s), q)
<1>1. s \in Handlers BY DEF Sane
<1>2. q # <<>> /\ q[Len(q)] = HostFrame(s.txSeq, s.todo[1]) /\ s.tries # 0
  BY DEF Numbered, Awaited
<1>3. CASE s.tries <= FrameRetries
  <2> DEFINE r == [s EXCEPT !.pc = "send"]
  <2>1. Retry(s) = r BY <1>3 DEF Retry
  <2>2. r.pc = "send" /\ r.tries = s.tries /\ r.txSeq = s.txSeq /\ r.todo = s.todo
    BY <1>1 DEF Handlers
  <2> HIDE DEF r
  <2>3. Numbered(r, q) BY <1>2, <2>2 DEF Numbered, Awaited
  <2> QED BY <2>1, <2>3
<1>4. CASE ~(s.tries <= FrameRetries) BY <1>4, GivenUpNumbered DEF Retry
<1> QED BY <1>3, <1>4

\* What begins or ends outside of send_frame does not touch what was sent.
LEMMA SettledNumbered ==
  ASSUME Numbered(srv, sent), Waits \/ Begins \/ Continues PROVE Numbered(srv', sent)
<1>1. /\ srv.pc \in {"idle", "agent"} /\ srv'.pc \in {"idle", "closed", "send"}
      /\ (srv'.pc = "send" => srv'.tries = 0) /\ srv'.txSeq = srv.txSeq
  BY DEF Waits, Begins, Continues, Starts
<1>2. ~Awaited(srv) /\ ~Awaited(srv') /\ srv'.pc # "await" BY <1>1 DEF Awaited
<1>3. sent # <<>> => After(sent[Len(sent)].seq) = srv'.txSeq
  BY <1>1, <1>2 DEF Numbered
<1> QED BY <1>2, <1>3 DEF Numbered

\* The handler's step: what it writes is the last frame sent, or an answer.
LEMMA ServerNumbered ==
  ASSUME ServerTyped, sent \in Seq(HostFrames), Numbered(srv, sent), ServerNext
  PROVE  /\ sent' \in Seq(HostFrames) /\ Numbered(srv', sent')
         /\ \/ Quiet
            \/ \E f \in HostFrames :
                   /\ toClient' = Append(toClient, f)
                   /\ sent' # <<>> /\ f = sent'[Len(sent')]
                   /\ sent' = sent \/ sent' = Append(sent, f)
<1>0. Sane(srv) BY DEF ServerTyped
<1>1. CASE Transmit BY <1>1, TransmitNumbered
<1>2. CASE Quiet /\ srv' = srv BY <1>2 DEF Quiet
<1>3. CASE Quiet /\ (Waits \/ Begins \/ Continues)
  <2>1. Numbered(srv', sent) /\ sent' = sent BY <1>3, SettledNumbered DEF Quiet
  <2> QED BY <1>3, <2>1
<1>4. CASE Quiet /\ srv.pc = "await" /\ srv' \in {Acked(srv), Retry(srv), GivenUp(srv)}
  <2>1. sent' = sent BY <1>4 DEF Quiet
  <2>2. Numbered(Acked(srv), sent) /\ Numbered(Retry(srv), sent)
        /\ Numbered(GivenUp(srv), sent)
    BY <1>0, <1>4, AckedNumbered, RetryNumbered, GivenUpNumbered
  <2>3. Numbered(srv', sent) BY <1>4, <2>2
  <2> QED BY <1>4, <2>1, <2>3
<1>5. CASE Quiet /\ Breaks
  <2>1. sent' = sent /\ srv \in Handlers BY <1>0, <1>5 DEF Quiet, Sane
  <2>2. Numbered(srv', sent) BY <1>5, <2>1, EndedNumbered DEF Breaks
  <2> QED BY <1>5, <2>1, <2>2
<1> QED BY <1>1, <1>2, <1>3, <1>4, <1>5, ServerStep DEF Phases

-----------------------------------------------------------------------------
(* The whole system, step by step.                                         *)

LEMMA NewHandlerSane == Sane(NewHandler) /\ NewHandler.pc = "idle" /\ NewHandler.tries = 0
BY Constants, EmptySeq DEF NewHandler, Sane, Handlers, NoSeq

LEMMA InitType == Init => TypeInv
<1> SUFFICES ASSUME Init PROVE TypeInv
  OBVIOUS
<1>1. ServerTyped BY NewHandlerSane, EmptySeq DEF Init, ServerInit, ServerTyped
<1>2. cli \in Clients /\ cli.pc = "down" /\ cli.ready = FALSE
  BY Constants, EmptySeq, NoPrompt DEF Init, ClientInit, Clients, NoSeq
<1>3. ClientTyped BY <1>2, EmptySeq DEF Init, ClientInit, ServerInit, ClientTyped
<1>4. Apart BY <1>2, NewHandlerSane DEF Init, ServerInit, Apart
<1> QED BY <1>1, <1>3, <1>4 DEF TypeInv

\* The handler of a lost connection ends where it stands.
LEMMA EndsEffect ==
  ASSUME ServerTyped, HandlerEnds
  PROVE  /\ Sane(srv') /\ srv'.pc = "closed" /\ accepted' = accepted
         /\ ran' = ran /\ sent' = sent /\ srv' = [srv EXCEPT !.pc = "closed"]
<1>1. srv' = [srv EXCEPT !.pc = "closed"] /\ Sane(srv) BY DEF HandlerEnds, ServerTyped
<1>2. Sane(srv') /\ srv'.pc = "closed" BY <1>1 DEF Sane, Handlers
<1> QED BY <1>1, <1>2 DEF HandlerEnds

LEMMA HangUpEffect ==
  ASSUME TypeInv, HangUp
  PROVE  ClientTypes /\ HangsUp
<1>1. cli' \in Clients /\ cli'.pc = "down" /\ cli'.ready = FALSE
  BY StoppedType DEF HangUp, TypeInv, ClientTyped
<1> QED BY <1>1, EmptySeq DEF HangUp, ClientTypes, HangsUp, TypeInv, ClientTyped

LEMMA DialFailsEffect ==
  ASSUME TypeInv, DialFails
  PROVE  ClientTypes /\ HangsUp /\ cli.pc # "up"
<1>1. cli' \in Clients /\ cli'.pc = "down" /\ cli'.ready = FALSE
  BY StoppedType DEF DialFails, TypeInv, ClientTyped
<1>2. toServer = <<>> /\ toClient = <<>> /\ cli.pc # "up"
  BY DEF DialFails, TypeInv, Apart
<1> QED BY <1>1, <1>2, EmptySeq
      DEF DialFails, ClientTypes, HangsUp, TypeInv, ClientTyped

LEMMA DialedEffect ==
  ASSUME TypeInv, Dialed
  PROVE  /\ ClientTypes /\ cli.pc = "dialing" /\ cli'.pc = "up"
         /\ toClient' = <<>> /\ got' = <<>> /\ shown' = shown /\ cli'.resp = <<>>
<1>1. cli \in Clients /\ cli.pc = "dialing" BY DEF Dialed, TypeInv, ClientTyped
<1> DEFINE s1 == [cli EXCEPT !.pc = "up"]
           s2 == [s1 EXCEPT !.txSeq = 1]
           s3 == [s2 EXCEPT !.ready = FALSE]
           s4 == [s3 EXCEPT !.resp = <<>>]
<1>2. cli' = [s4 EXCEPT !.dials = @ + 1] BY DEF Dialed
<1>3. s1 \in Clients /\ s1.pc = "up" BY <1>1 DEF Clients
<1> HIDE DEF s1
<1>0. 1 \in 0..(SeqSpace - 1) BY Constants
<1>4. s2 \in Clients /\ s2.pc = "up" BY <1>0, <1>3 DEF Clients
<1> HIDE DEF s2
<1>5. s3 \in Clients /\ s3.pc = "up" BY <1>4 DEF Clients
<1> HIDE DEF s3
<1>6. s4 \in Clients /\ s4.pc = "up" /\ s4.resp = <<>> BY <1>5, EmptySeq DEF Clients
<1> HIDE DEF s4
<1>7. s4.dials + 1 \in Nat BY <1>6 DEF Clients
<1>8. cli' \in Clients /\ cli'.pc = "up" /\ cli'.resp = <<>>
  BY <1>2, <1>6, <1>7 DEF Clients
<1> DEFINE hello == ClientFrame(0, "HELLO", 1, 1, Chunk(0, 0, FALSE))
<1>9. hello \in Frames
  <2>1. 0 \in 0..SeqSpace /\ 1 \in 0..LongParts /\ Chunk(0, 0, FALSE) \in Chunks
    BY Constants DEF Chunk, Chunks
  <2> QED BY <2>1, FrameType
<1>10. toServer' = <<hello>> BY DEF Dialed
<1> HIDE DEF hello
<1>11. toServer' \in Seq(Answers \union Frames) BY <1>9, <1>10
<1> QED BY <1>1, <1>8, <1>11, EmptySeq DEF Dialed, ClientTypes, TypeInv, ClientTyped

\* Without a connection the handler has nothing to do.
LEMMA ServerNeedsUp == TypeInv /\ ServerNext => cli.pc = "up"
BY DEF TypeInv, Apart, ServerNext, MainLoop, Sender, Agent, SkipLine, RejectFault, ReAck,
       AcceptHello, AcceptMsg, AcceptPart, RejectFrame, Transmit, AckArrives, NakArrives,
       StaleLine, FrameWhileBusy, FrameTimeout, AgentReplies, AgentFails, AgentProgress,
       TurnTimesOut, CommandRaises, Reads

\* The steps of the system, by what they do to the link.  Outside of ServerRuns
\* the handler is left alone, ended, or a new one.
ServerKept == UNCHANGED serverVars
Steps ==
    \/ ServerNext /\ UNCHANGED clientVars
    \/ ClientTypes /\ ServerKept /\ Answered
    \/ ClientTypes /\ ServerKept /\ Applied
    \/ ClientTypes /\ ServerKept /\ Writes
    \/ ClientTypes /\ HangsUp /\ HandlerEnds
    \/ ClientTypes /\ HangsUp /\ ServerKept /\ (cli.pc # "up" \/ srv.pc = "closed")
    \/ /\ ClientTypes /\ Connects /\ cli'.pc = "up" /\ toClient' = <<>>
       /\ got' = <<>> /\ shown' = shown /\ cli'.resp = <<>>
    \/ UNCHANGED vars

LEMMA NextSteps == ASSUME TypeInv, [Next]_vars PROVE Steps
<1>1. CASE ServerRuns BY <1>1 DEF ServerRuns, Steps
<1>2. CASE ClientReads
  BY <1>2, HearEffect DEF ClientReads, Steps, ServerKept
<1>3. CASE UserTaps
  <2>1. ClientTypes /\ ((HangsUp /\ cli'.pc = "dialing") \/ Writes)
    BY <1>3, TapEffect DEF UserTaps
  <2>2. CASE HangsUp /\ cli'.pc = "dialing"
    BY <1>3, <2>1, <2>2 DEF UserTaps, Steps
  <2>3. CASE Writes
    <3>1. cli'.pc # "dialing" BY <2>3 DEF Writes
    <3> QED BY <1>3, <2>1, <2>3, <3>1 DEF UserTaps, Steps, ServerKept
  <2> QED BY <2>1, <2>2, <2>3
<1>4. CASE Connects BY <1>4, DialedEffect DEF Connects, Steps
<1>5. CASE ConnectFails
  BY <1>5, DialFailsEffect DEF ConnectFails, Steps, ServerKept
<1>6. CASE EndOfStream
  BY <1>6, HangUpEffect DEF EndOfStream, Dropped, Steps, ServerKept
<1>7. CASE LinkLost BY <1>7, HangUpEffect DEF LinkLost, Dropped, Steps
<1>8. CASE RadioOff BY <1>8, HangUpEffect DEF RadioOff, RadioExpired, Steps
<1>9. CASE UNCHANGED vars BY <1>9 DEF Steps
<1> QED BY <1>1, <1>2, <1>3, <1>4, <1>5, <1>6, <1>7, <1>8, <1>9 DEF Next

\* Everything keeps its type.
LEMMA StepType == ASSUME TypeInv, Numbered(srv, sent), Steps PROVE TypeInv'
<1>0. /\ ServerTyped /\ ClientTyped /\ Apart /\ sent \in Seq(HostFrames)
      /\ accepted \in Seq(Frames) /\ ran \in Seq(Seq(Chunks)) /\ Sane(srv)
  BY DEF TypeInv, ClientTyped, ServerTyped
<1>1. CASE ServerNext /\ UNCHANGED clientVars
  <2>1. Types BY <1>0, <1>1, ServerStep
  <2>2. sent' \in Seq(HostFrames) BY <1>0, <1>1, ServerNumbered
  <2>3. cli.pc = "up" BY <1>1, ServerNeedsUp
  <2>4. ServerTyped' BY <2>1 DEF Types, ServerTyped
  <2>5. ClientTyped' BY <1>0, <1>1, <2>2 DEF ClientTyped, clientVars
  <2>6. Apart' BY <1>1, <2>3 DEF Apart, clientVars
  <2> QED BY <2>4, <2>5, <2>6 DEF TypeInv
<1>2. CASE ClientTypes /\ ServerKept /\ cli'.pc = "up"
  <2>1. ServerTyped' BY <1>0, <1>2 DEF ServerTyped, ServerKept, serverVars, ClientTypes
  <2>2. ClientTyped' BY <1>0, <1>2 DEF ClientTyped, ServerKept, serverVars, ClientTypes
  <2>3. Apart' BY <1>2 DEF Apart
  <2> QED BY <2>1, <2>2, <2>3 DEF TypeInv
<1>3. CASE ClientTypes /\ HangsUp /\ HandlerEnds
  <2>1. /\ Sane(srv') /\ srv'.pc = "closed" /\ accepted' = accepted
        /\ ran' = ran /\ sent' = sent
    BY <1>0, <1>3, EndsEffect
  <2>2. ServerTyped' BY <1>0, <1>3, <2>1 DEF ServerTyped, ClientTypes
  <2>3. ClientTyped' BY <1>0, <1>3, <2>1 DEF ClientTyped, ClientTypes
  <2>4. Apart' BY <1>3, <2>1 DEF Apart, HangsUp
  <2> QED BY <2>2, <2>3, <2>4 DEF TypeInv
<1>4. CASE ClientTypes /\ HangsUp /\ ServerKept /\ (cli.pc # "up" \/ srv.pc = "closed")
  <2>1. srv' = srv /\ accepted' = accepted /\ ran' = ran /\ sent' = sent
    BY <1>4 DEF ServerKept, serverVars
  <2>2. ServerTyped' BY <1>0, <1>4, <2>1 DEF ServerTyped, ClientTypes
  <2>3. ClientTyped' BY <1>0, <1>4, <2>1 DEF ClientTyped, ClientTypes
  <2>4. Apart' BY <1>0, <1>4, <2>1 DEF Apart, HangsUp
  <2> QED BY <2>2, <2>3, <2>4 DEF TypeInv
<1>5. CASE ClientTypes /\ Connects /\ cli'.pc = "up"
  <2>1. srv' = NewHandler /\ accepted' = <<>> /\ sent' = <<>> /\ ran' = ran
    BY <1>5 DEF Connects
  <2>2. ServerTyped' BY <1>0, <1>5, <2>1, NewHandlerSane, EmptySeq DEF ServerTyped, ClientTypes
  <2>3. ClientTyped' BY <1>5, <2>1, EmptySeq DEF ClientTyped, ClientTypes
  <2>4. Apart' BY <1>5 DEF Apart
  <2> QED BY <2>2, <2>3, <2>4 DEF TypeInv
<1>6. CASE UNCHANGED vars
  BY <1>0, <1>6 DEF TypeInv, vars, serverVars, clientVars, ServerTyped, ClientTyped, Apart
<1> QED BY <1>1, <1>2, <1>3, <1>4, <1>5, <1>6 DEF Steps, Answered, Applied, Writes

-----------------------------------------------------------------------------
(* The link between them is the reliable one.                              *)

LinkStep == [Link!Give \/ Link!Deliver \/ Link!Reconnect]_(Link!vars)

\* The host gives frames to the link, one at a time.
LEMMA ServerGives ==
  ASSUME TypeInv, LinkInv, ServerNext, UNCHANGED clientVars
  PROVE  LinkInv' /\ LinkStep
<1>1. /\ cli.pc = "up" /\ cli' = cli /\ got' = got
      /\ ServerTyped /\ sent \in Seq(HostFrames) /\ got \in Seq(HostFrames)
      /\ toClient \in Seq(Answers \union HostFrames)
  BY ServerNeedsUp DEF clientVars, TypeInv, ClientTyped, ServerTyped
<1>2. Numbered(srv', sent') /\ sent' \in Seq(HostFrames)
  BY <1>1, ServerNumbered DEF LinkInv
<1>3. Way(toClient, sent, Len(got)) BY <1>1 DEF LinkInv
<1>4. Len(sent) \in Nat /\ Len(got) \in Nat BY <1>1, LenProperties
<1>5. CASE Quiet
  <2>1. sent' = sent BY <1>5 DEF Quiet
  <2>2. Way(toClient', sent, Len(got))
    <3>1. CASE toClient' = toClient BY <1>3, <3>1
    <3>2. CASE \E m \in Answers : toClient' = Append(toClient, m)
      <4>1. PICK m \in Answers : toClient' = Append(toClient, m) BY <3>2
      <4>2. ~IsFrame(m) /\ m \in Answers \union HostFrames BY DEF IsFrame, Answers
      <4> QED BY <1>1, <1>3, <1>4, <4>1, <4>2, WayAppend
    <3> QED BY <1>5, <3>1, <3>2 DEF Quiet
  <2>3. LinkInv' BY <1>1, <1>2, <2>1, <2>2 DEF LinkInv, Prefix
  <2>4. UNCHANGED Link!vars BY <1>1, <2>1 DEF Link!vars
  <2> QED BY <2>3, <2>4 DEF LinkStep
<1>6. ASSUME NEW f \in HostFrames, toClient' = Append(toClient, f),
             sent' # <<>>, f = sent'[Len(sent')], sent' = sent \/ sent' = Append(sent, f)
      PROVE  LinkInv' /\ LinkStep
  <2>1. /\ Len(sent') \in {Len(sent), Len(sent) + 1}
        /\ \A i \in 1..Len(sent) : sent'[i] = sent[i]
    <3>1. CASE sent' = sent BY <3>1
    <3>2. CASE sent' = Append(sent, f) BY <1>1, <3>2, AppendFacts
    <3> QED BY <1>6, <3>1, <3>2
  <2>2. IsFrame(f) /\ f \in Answers \union HostFrames BY DEF IsFrame, HostFrames
  <2>3. Way(Append(toClient, f), sent', Len(got))
    BY <1>1, <1>2, <1>3, <1>6, <2>1, <2>2, WayAppend
  <2>4. Prefix'
    <3>1. Len(got) <= Len(sent) /\ \A i \in 1..Len(got) : got[i] = sent[i]
      BY DEF LinkInv, Prefix
    <3>2. Len(got) <= Len(sent') BY <1>4, <2>1, <3>1
    <3>3. 1..Len(got) \subseteq 1..Len(sent) BY <1>4, <3>1
    <3>4. \A i \in 1..Len(got) : got[i] = sent'[i] BY <2>1, <3>1, <3>3
    <3> QED BY <1>1, <3>2, <3>4 DEF Prefix
  <2>5. LinkInv' BY <1>1, <1>2, <1>6, <2>3, <2>4 DEF LinkInv
  <2>6. CASE sent' = sent
    <3>1. UNCHANGED Link!vars BY <1>1, <2>6 DEF Link!vars
    <3> QED BY <2>5, <3>1 DEF LinkStep
  <2>7. CASE sent' = Append(sent, f)
    <3>1. Len(sent') \in DOMAIN sent' BY <1>2, <1>6, LenProperties, EmptySeq
    <3>2. f \in {sent'[i] : i \in DOMAIN sent'} BY <1>6, <3>1
    <3>3. Link!Give BY <1>1, <2>7, <3>2 DEF Link!Give
    <3> QED BY <2>5, <3>3 DEF LinkStep
  <2> QED BY <1>6, <2>6, <2>7
<1> QED BY <1>1, <1>5, <1>6, ServerNumbered DEF LinkInv

\* The frame a client applies is the one it applied last, or the next one sent.
LEMMA TakenEffect ==
  ASSUME TypeInv, LinkInv, ServerKept, Applied
  PROVE  /\ Heard \in HostFrames
         /\ \/ /\ got # <<>> /\ got[Len(got)] = Heard /\ got' = got
               /\ Way(toClient', sent, Len(got))
            \/ /\ Len(got) < Len(sent) /\ Heard = sent[Len(got) + 1]
               /\ got' = Append(got, Heard)
               /\ Way(toClient', sent, Len(got) + 1)
<1>1. /\ cli.pc = "up" /\ sent \in Seq(HostFrames) /\ got \in Seq(HostFrames)
      /\ toClient \in Seq(Answers \union HostFrames) /\ toClient # <<>>
      /\ toClient' = Tail(toClient)
  BY DEF Applied, Hears, TypeInv, ClientTyped, ServerTyped
<1>2. Len(sent) \in Nat /\ Len(got) \in Nat BY <1>1, LenProperties
<1>3. /\ Way(toClient, sent, Len(got)) /\ Numbered(srv, sent)
      /\ Len(got) <= Len(sent) /\ \A i \in 1..Len(got) : got[i] = sent[i]
  BY <1>1 DEF LinkInv, Prefix
<1>4. PICK i \in {Len(got), Len(got) + 1} :
             i \in 1..Len(sent) /\ Heard = sent[i] /\ Way(toClient', sent, i)
  BY <1>1, <1>2, <1>3, WayTail DEF Applied, Heard
<1>5. Heard \in HostFrames BY <1>1, <1>4, ElementOfSeq
<1>6. CASE i = Len(got)
  <2>1. got # <<>> /\ got[Len(got)] = Heard BY <1>2, <1>3, <1>4, <1>6, EmptySeq
  <2>2. got' = got BY <2>1 DEF Applied, Repeated
  <2> QED BY <1>4, <1>5, <1>6, <2>1, <2>2
<1>7. CASE i = Len(got) + 1
  <2>1. Len(got) < Len(sent) /\ Heard = sent[Len(got) + 1] BY <1>2, <1>4, <1>7
  <2>2. ~Repeated
    <3> SUFFICES ASSUME got # <<>> PROVE got[Len(got)] # Heard
      BY DEF Repeated
    <3>1. Len(got) \in 1..(Len(sent) - 1) /\ got[Len(got)] = sent[Len(got)]
      BY <1>1, <1>2, <1>3, <2>1, EmptySeq
    <3>2. sent[Len(got)] # sent[Len(got) + 1] BY <1>3, <3>1 DEF Numbered
    <3> QED BY <2>1, <3>1, <3>2
  <2>3. got' = Append(got, Heard) BY <2>2 DEF Applied
  <2> QED BY <1>4, <1>5, <1>7, <2>1, <2>3
<1> QED BY <1>4, <1>6, <1>7

\* The client takes the next one out of it, or one it already has.
LEMMA ClientTakes ==
  ASSUME TypeInv, LinkInv, ServerKept, Answered \/ Applied
  PROVE  LinkInv' /\ LinkStep
<1>1. /\ cli.pc = "up" /\ cli'.pc = "up" /\ srv' = srv /\ sent' = sent
      /\ sent \in Seq(HostFrames) /\ got \in Seq(HostFrames)
      /\ toClient \in Seq(Answers \union HostFrames) /\ toClient # <<>>
      /\ toClient' = Tail(toClient)
  BY DEF Answered, Applied, Hears, ServerKept, serverVars, TypeInv, ClientTyped, ServerTyped
<1>2. Len(sent) \in Nat /\ Len(got) \in Nat BY <1>1, LenProperties
<1>3. /\ Way(toClient, sent, Len(got)) /\ Numbered(srv, sent)
      /\ Len(got) <= Len(sent) /\ \A i \in 1..Len(got) : got[i] = sent[i]
  BY <1>1 DEF LinkInv, Prefix
<1>4. CASE Answered
  <2>1. Way(toClient', sent, Len(got)) BY <1>1, <1>2, <1>3, <1>4, WayTail DEF Answered, Heard
  <2>2. LinkInv' BY <1>1, <1>3, <1>4, <2>1 DEF Answered, LinkInv, Prefix
  <2>3. UNCHANGED Link!vars BY <1>1, <1>4 DEF Answered, Link!vars
  <2> QED BY <2>2, <2>3 DEF LinkStep
<1>5. CASE Applied /\ got' = got /\ Way(toClient', sent, Len(got))
  <2>1. LinkInv' BY <1>1, <1>3, <1>5 DEF LinkInv, Prefix
  <2>2. UNCHANGED Link!vars BY <1>1, <1>5 DEF Link!vars
  <2> QED BY <2>1, <2>2 DEF LinkStep
<1>6. CASE /\ Len(got) < Len(sent) /\ Heard = sent[Len(got) + 1] /\ Heard \in HostFrames
           /\ got' = Append(got, Heard) /\ Way(toClient', sent, Len(got) + 1)
  <2>1. /\ Len(got') = Len(got) + 1
        /\ \A j \in 1..Len(got) : got'[j] = got[j]
        /\ got'[Len(got) + 1] = Heard
    BY <1>1, <1>6, AppendFacts
  <2>2. \A j \in 1..Len(got') : got'[j] = sent[j]
    <3> SUFFICES ASSUME NEW j \in 1..Len(got') PROVE got'[j] = sent[j]
      OBVIOUS
    <3>1. j \in 1..Len(got) \/ j = Len(got) + 1 BY <1>2, <2>1
    <3> QED BY <1>3, <1>6, <2>1, <3>1
  <2>3. Prefix' BY <1>1, <1>2, <1>6, <2>1, <2>2 DEF Prefix
  <2>4. LinkInv' BY <1>1, <1>3, <1>6, <2>1, <2>3 DEF LinkInv
  <2>5. Link!Deliver BY <1>1, <1>6 DEF Link!Deliver
  <2> QED BY <2>4, <2>5 DEF LinkStep
<1> QED BY <1>4, <1>5, <1>6, TakenEffect

LEMMA LinkNext == ASSUME TypeInv, LinkInv, Steps PROVE LinkInv' /\ LinkStep
<1>1. CASE ServerNext /\ UNCHANGED clientVars BY <1>1, ServerGives
<1>2. CASE ServerKept /\ (Answered \/ Applied) BY <1>2, ClientTakes
<1>3. CASE ServerKept /\ Writes
  <2>1. LinkInv' BY <1>3 DEF LinkInv, Prefix, Writes, ServerKept, serverVars
  <2>2. UNCHANGED Link!vars BY <1>3 DEF Writes, ServerKept, serverVars, Link!vars
  <2> QED BY <2>1, <2>2 DEF LinkStep
<1>4. CASE HangsUp /\ HandlerEnds
  <2>1. sent' = sent /\ got' = got /\ cli'.pc # "up" BY <1>4 DEF HangsUp, HandlerEnds
  <2>2. srv \in Handlers /\ srv' = [srv EXCEPT !.pc = "closed"]
    BY <1>4 DEF HandlerEnds, TypeInv, ServerTyped, Sane
  <2>3. Numbered(srv', sent) BY <2>2, EndedNumbered DEF LinkInv
  <2>4. LinkInv' BY <2>1, <2>3 DEF LinkInv, Prefix
  <2>5. UNCHANGED Link!vars BY <2>1 DEF Link!vars
  <2> QED BY <2>4, <2>5 DEF LinkStep
<1>5. CASE HangsUp /\ ServerKept
  <2>1. LinkInv' BY <1>5 DEF LinkInv, Prefix, HangsUp, ServerKept, serverVars
  <2>2. UNCHANGED Link!vars BY <1>5 DEF HangsUp, ServerKept, serverVars, Link!vars
  <2> QED BY <2>1, <2>2 DEF LinkStep
<1>6. CASE Connects /\ cli'.pc = "up" /\ toClient' = <<>> /\ got' = <<>>
  <2>1. srv' = NewHandler /\ sent' = <<>> BY <1>6 DEF Connects
  <2>2. Len(<<>>) = 0 /\ 1..(0 - 1) = {} OBVIOUS
  <2>3. Numbered(srv', sent') BY <2>1, <2>2, NewHandlerSane DEF Numbered, Awaited
  <2>4. Way(<<>>, <<>>, Len(<<>>)) BY <2>2, WayEmpty
  <2>5. Prefix' BY <1>6, <2>1, <2>2 DEF Prefix
  <2>6. LinkInv' BY <1>6, <2>1, <2>3, <2>4, <2>5 DEF LinkInv
  <2>7. Link!Reconnect BY <1>6, <2>1 DEF Link!Reconnect
  <2> QED BY <2>6, <2>7 DEF LinkStep
<1>7. CASE UNCHANGED vars
  <2>1. LinkInv' BY <1>7 DEF LinkInv, Prefix, vars, serverVars, clientVars
  <2>2. UNCHANGED Link!vars BY <1>7 DEF vars, serverVars, clientVars, Link!vars
  <2> QED BY <2>1, <2>2 DEF LinkStep
<1> QED BY <1>1, <1>2, <1>3, <1>4, <1>5, <1>6, <1>7 DEF Steps

LEMMA InitLink == Init => LinkInv /\ Link!Init
<1> SUFFICES ASSUME Init PROVE LinkInv /\ Link!Init
  OBVIOUS
<1>1. srv = NewHandler /\ sent = <<>> /\ got = <<>> /\ cli.pc = "down"
  BY DEF Init, ServerInit, ClientInit
<1>2. Len(<<>>) = 0 /\ 1..(0 - 1) = {} OBVIOUS
<1>3. Numbered(srv, sent) BY <1>1, <1>2, NewHandlerSane DEF Numbered, Awaited
<1> QED BY <1>1, <1>2, <1>3 DEF LinkInv, Prefix, Link!Init

\* Up to immediate repeats, what the client applies is what the host gave to
\* send_frame, in order and without gaps, on every connection: ACKs that are late,
\* lost with the connection or of another frame, retries and progress notes given
\* up never make HandleLine skip a frame or go back to one.
THEOREM InOrder == Spec => DeliversInOrder
<1>1. Init => TypeInv /\ LinkInv /\ Link!Init BY InitType, InitLink
<1>2. TypeInv /\ LinkInv /\ [Next]_vars => TypeInv' /\ LinkInv' /\ LinkStep
  BY NextSteps, StepType, LinkNext DEF LinkInv
<1> QED BY <1>1, <1>2, PTL DEF Spec, DeliversInOrder, Link!Spec, LinkStep

-----------------------------------------------------------------------------
(* Which turn a line belongs to.                                           *)

\* A turn is open from its first line until what closes it is to be sent.
Open(s) == s.pc = "agent" \/ (s.pc \in {"send", "await"} /\ ~Closes(s.todo[1]))

Replies(f) == f.op \in {"TEXT", "ERROR"}

\* What was sent is one turn after the other, and what is left goes on from it.
Talk(s, q, turn) ==
    /\ Chained(q)
    /\ s.pc = "idle" /\ q # <<>> => Closes(q[Len(q)])
    /\ s.pc = "agent" => q # <<>> /\ Working(q[Len(q)], turn)
    /\ s.pc \in {"send", "await"} => Script(s.todo, s.after, turn)
    /\ s.pc = "send" /\ s.tries = 0 /\ q # <<>> => Follows(q[Len(q)], s.todo[1])

\* Nothing sent is of a turn to come, and a PROMPT is of a turn before the open
\* one and before that of any line of a reply behind it.
Turns(s, q, turn) ==
    /\ \A i \in 1..Len(q) : q[i].turn <= turn
    /\ \A i, j \in 1..Len(q) :
           i < j /\ q[i].op = "PROMPT" /\ Replies(q[j]) => q[i].turn < q[j].turn
    /\ Open(s) => \A i \in 1..Len(q) : q[i].op = "PROMPT" => q[i].turn < turn

LEMMA TransmitEffect ==
  ASSUME ServerTyped, sent \in Seq(HostFrames), Transmit
  PROVE  /\ srv.pc = "send" /\ srv'.pc = "await" /\ srv'.todo = srv.todo
         /\ srv'.after = srv.after /\ srv.todo[1] \in Says /\ ran' = ran
         /\ \E f \in HostFrames :
                /\ Carries(f, srv.todo[1])
                /\ sent' = IF srv.tries = 0 THEN Append(sent, f) ELSE sent
<1>1. srv.pc = "send" /\ srv \in Handlers /\ srv.todo \in Seq(Says) /\ srv.todo # <<>>
  BY DEF Transmit, ServerTyped, Sane, Handlers
<1>2. Head(srv.todo) = srv.todo[1] /\ Head(srv.todo) \in Says
  BY <1>1, HeadTailProperties
<1> DEFINE f == HostFrame(srv.txSeq, srv.todo[1])
<1>3. f \in HostFrames /\ Carries(f, srv.todo[1])
  BY <1>1, <1>2, Constants DEF HostFrame, HostFrames, Says, Handlers, Carries
<1>4. srv'.pc = "await" /\ srv'.todo = srv.todo /\ srv'.after = srv.after
  <2> DEFINE s == [srv EXCEPT !.pc = "await"]
  <2>1. s.pc = "await" /\ s.todo = srv.todo /\ s.after = srv.after /\ s \in Handlers
    BY <1>1 DEF Handlers
  <2>2. srv' = [s EXCEPT !.tries = srv.tries + 1] BY DEF Transmit
  <2> HIDE DEF s
  <2> QED BY <1>1, <2>1, <2>2, Constants DEF Handlers
<1>5. sent' = (IF srv.tries = 0 THEN Append(sent, f) ELSE sent) /\ ran' = ran
  BY <1>2 DEF Transmit
<1> HIDE DEF f
<1> QED BY <1>1, <1>2, <1>3, <1>4, <1>5

\* The first thing to say is of the turn itself, unless it answers a HELLO.
LEMMA FirstSay ==
  ASSUME NEW todo \in Seq(Says), todo # <<>>, NEW after, NEW turn, Script(todo, after, turn)
  PROVE  /\ todo[1] \in Says
         /\ todo[1].turn = turn \/ (todo[1].op = "READY" /\ todo[1].turn = 0)
         /\ todo[1].op # "READY" => todo[1].turn = turn
<1>1. 1 \in 1..Len(todo) BY LenProperties, EmptySeq
<1>2. todo[1] \in Says BY <1>1, ElementOfSeq
<1> QED BY <1>1, <1>2 DEF Script

\* The rest of a script is one too.
LEMMA ScriptTail ==
  ASSUME NEW todo \in Seq(Says), todo # <<>>, NEW after, NEW turn, Script(todo, after, turn),
         Tail(todo) # <<>>
  PROVE  /\ Script(Tail(todo), after, turn) /\ Follows(todo[1], Tail(todo)[1])
         /\ ~Closes(todo[1])
<1> DEFINE r == Tail(todo)
<1>1. /\ Len(todo) \in Nat /\ Len(todo) # 0 /\ Len(r) = Len(todo) - 1
      /\ \A i \in 1..Len(r) : r[i] = todo[i + 1]
      /\ r \in Seq(Says) /\ Len(r) # 0
  BY LenProperties, EmptySeq, HeadTailProperties
<1>2. Chained(r) /\ Follows(todo[1], r[1]) /\ r[Len(r)] = todo[Len(todo)]
  BY ChainedTail DEF Script
<1> HIDE DEF r
<1>3. ASSUME NEW k \in 1..Len(r)
      PROVE  r[k].turn = turn \/ (r[k].op = "READY" /\ r[k].turn = 0)
  <2>1. k + 1 \in 1..Len(todo) /\ r[k] = todo[k + 1] BY <1>1
  <2> QED BY <2>1 DEF Script
<1>4. ASSUME NEW k \in 1..(Len(r) - 1) PROVE ~Closes(r[k])
  <2>1. k + 1 \in 1..(Len(todo) - 1) /\ r[k] = todo[k + 1] BY <1>1
  <2> QED BY <2>1 DEF Script
<1>5. ~Closes(todo[1])
  <2>1. 1 \in 1..(Len(todo) - 1) BY <1>1
  <2> QED BY <2>1 DEF Script
<1>6. Script(r, after, turn) BY <1>2, <1>3, <1>4 DEF Script
<1> QED BY <1>2, <1>5, <1>6 DEF r

\* What is awaited is the last frame sent.
LEMMA AwaitedCarries ==
  ASSUME NEW s, NEW q, Numbered(s, q), Awaited(s)
  PROVE  q # <<>> /\ Carries(q[Len(q)], s.todo[1])
BY DEF Numbered, HostFrame, Carries

LEMMA TalkTransmit ==
  ASSUME ServerTyped, sent \in Seq(HostFrames), Talk(srv, sent, Len(ran)), Transmit
  PROVE  Talk(srv', sent', Len(ran))
<1>1. PICK f \in HostFrames :
             /\ Carries(f, srv.todo[1])
             /\ sent' = IF srv.tries = 0 THEN Append(sent, f) ELSE sent
  BY TransmitEffect
<1>2. /\ srv.pc = "send" /\ srv'.pc = "await" /\ srv'.todo = srv.todo
      /\ srv'.after = srv.after
  BY TransmitEffect
<1>3. Script(srv'.todo, srv'.after, Len(ran)) BY <1>2 DEF Talk
<1>4. Chained(sent')
  <2>1. CASE srv.tries = 0
    <3>1. sent # <<>> => Follows(sent[Len(sent)], f) BY <1>1, <1>2, <2>1, CarriedThen DEF Talk
    <3>2. Chained(sent) BY DEF Talk
    <3> QED BY <1>1, <2>1, <3>1, <3>2, ChainedAppend
  <2>2. CASE srv.tries # 0 BY <1>1, <2>2 DEF Talk
  <2> QED BY <2>1, <2>2
<1> QED BY <1>2, <1>3, <1>4 DEF Talk

LEMMA TalkAcked ==
  ASSUME NEW s, Sane(s), s.pc = "await", NEW q, Numbered(s, q), NEW turn, Talk(s, q, turn)
  PROVE  Talk(Acked(s), q, turn) /\ (Open(Acked(s)) => Open(s))
<1> DEFINE a == Acked(s)
           last == q[Len(q)]
<1>1. s.todo \in Seq(Says) /\ s.todo # <<>> /\ s.after \in {"idle", "agent"}
  BY DEF Sane, Handlers
<1>2. a.pc = (IF Tail(s.todo) = <<>> THEN s.after ELSE "send") /\ a.todo = Tail(s.todo)
      /\ a.after = s.after
  BY AckedFields
<1> HIDE DEF a
<1>3. q # <<>> /\ Carries(last, s.todo[1]) BY AwaitedCarries DEF Awaited
<1>4. Script(s.todo, s.after, turn) /\ Chained(q) BY DEF Talk
<1>5. CASE Tail(s.todo) = <<>>
  <2>1. Len(s.todo) = 1
    <3>1. Len(s.todo) \in Nat /\ Len(s.todo) # 0 /\ Len(Tail(s.todo)) = Len(s.todo) - 1
      BY <1>1, LenProperties, EmptySeq, HeadTailProperties
    <3>2. Tail(s.todo) \in Seq(Says) BY <1>1, HeadTailProperties
    <3>3. Len(Tail(s.todo)) = 0 BY <1>5, <3>2, EmptySeq
    <3> QED BY <3>1, <3>3
  <2>2. CASE s.after = "idle"
    <3>1. Closes(last) BY <1>3, <1>4, <2>1, <2>2, CarriedThen DEF Script
    <3>2. a.pc = "idle" BY <1>2, <1>5, <2>2
    <3>3. Talk(a, q, turn) /\ ~Open(a) BY <1>4, <3>1, <3>2 DEF Talk, Open
    <3> QED BY <3>3 DEF a
  <2>3. CASE s.after = "agent"
    <3>1. Working(s.todo[1], turn) BY <1>4, <2>1, <2>3 DEF Script
    <3>2. Working(last, turn) BY <1>3, <3>1, CarriedThen
    <3>3. a.pc = "agent" BY <1>2, <1>5, <2>3
    <3>4. ~Closes(s.todo[1]) BY <3>1 DEF Working, Closes
    <3>5. Talk(a, q, turn) /\ Open(s) BY <1>3, <1>4, <3>2, <3>3, <3>4 DEF Talk, Open
    <3> QED BY <3>5 DEF a
  <2> QED BY <1>1, <2>2, <2>3
<1>6. CASE Tail(s.todo) # <<>>
  <2>1. /\ Script(a.todo, a.after, turn) /\ Follows(s.todo[1], a.todo[1])
        /\ ~Closes(s.todo[1])
    BY <1>1, <1>2, <1>4, <1>6, ScriptTail
  <2>2. Follows(last, a.todo[1]) BY <1>3, <2>1, CarriedThen
  <2>3. a.pc = "send" BY <1>2, <1>6
  <2>4. Talk(a, q, turn) /\ Open(s) BY <1>4, <2>1, <2>2, <2>3 DEF Talk, Open
  <2> QED BY <2>4 DEF a
<1> QED BY <1>5, <1>6

\* A handler that ends leaves no turn open.
LEMMA EndedTalk ==
  ASSUME NEW s \in Handlers, NEW q, NEW turn, Talk(s, q, turn)
  PROVE  LET r == [s EXCEPT !.pc = "closed"] IN Talk(r, q, turn) /\ ~Open(r)
<1> DEFINE r == [s EXCEPT !.pc = "closed"]
<1>1. r.pc = "closed" BY DEF Handlers
<1> HIDE DEF r
<1>2. Talk(r, q, turn) /\ ~Open(r) BY <1>1 DEF Talk, Open
<1> QED BY <1>2 DEF r

LEMMA TalkGivenUp ==
  ASSUME NEW s, Sane(s), s.pc = "await", NEW q, Numbered(s, q),
         NEW turn \in Nat, Talk(s, q, turn)
  PROVE  Talk(GivenUp(s), q, turn) /\ (Open(GivenUp(s)) => Open(s))
<1>1. s \in Handlers /\ s.todo \in Seq(Says) /\ s.todo # <<>> BY DEF Sane, Handlers
<1>2. Head(s.todo) = s.todo[1] BY <1>1, HeadTailProperties
<1>3. q # <<>> /\ Carries(q[Len(q)], s.todo[1]) BY AwaitedCarries DEF Awaited
<1>4. Script(s.todo, s.after, turn) /\ Chained(q) BY DEF Talk
<1>5. CASE Head(s.todo).op = "PROGRESS"
  <2>1. s.todo[1].op = "PROGRESS" /\ s.todo[1].turn = turn
    BY <1>1, <1>2, <1>4, <1>5, FirstSay
  <2> DEFINE r == Queue(s, ErrorReply(turn), "idle")
  <2>2. GivenUp(s) = r BY <1>2, <1>5, <2>1 DEF GivenUp
  <2>3. /\ ErrorReply(turn) \in Seq(Says) /\ ErrorReply(turn)[1] = Say("ERROR", turn, 0)
        /\ Script(ErrorReply(turn), "idle", turn)
    BY RepliesType, ShortScripts
  <2>4. r.pc = "send" /\ r.tries = 0 /\ r.todo = ErrorReply(turn) /\ r.after = "idle"
    BY <1>1, <2>3, QueueFields
  <2> HIDE DEF r
  <2>5. Working(q[Len(q)], turn) BY <1>3, <2>1 DEF Working, Carries
  <2>6. Follows(q[Len(q)], r.todo[1])
    <3>1. r.todo[1].op = "ERROR" /\ r.todo[1].turn = turn /\ r.todo[1].part <= 1
      BY <2>3, <2>4 DEF Say
    <3> QED BY <2>5, <3>1, WorkingThen
  <2>7. Open(s) BY <2>1 DEF Open, Closes
  <2>8. Talk(r, q, turn) BY <1>4, <2>3, <2>4, <2>6 DEF Talk
  <2> QED BY <2>2, <2>7, <2>8
<1>6. CASE Head(s.todo).op # "PROGRESS"
  BY <1>1, <1>6, EndedTalk DEF GivenUp
<1> QED BY <1>5, <1>6

LEMMA TalkRetry ==
  ASSUME NEW s, Sane(s), s.pc = "await", NEW q, Numbered(s, q),
         NEW turn \in Nat, Talk(s, q, turn)
  PROVE  Talk(Retry(s), q, turn) /\ (Open(Retry(s)) => Open(s))
<1>1. s \in Handlers BY DEF Sane
<1>2. s.tries # 0 BY DEF Numbered
<1>3. Script(s.todo, s.after, turn) /\ Chained(q) BY DEF Talk
<1>4. CASE s.tries <= FrameRetries
  <2> DEFINE r == [s EXCEPT !.pc = "send"]
  <2>1. Retry(s) = r BY <1>4 DEF Retry
  <2>2. r.pc = "send" /\ r.tries = s.tries /\ r.todo = s.todo /\ r.after = s.after
    BY <1>1 DEF Handlers
  <2> HIDE DEF r
  <2>3. Talk(r, q, turn) /\ (Open(r) => Open(s)) BY <1>2, <1>3, <2>2 DEF Talk, Open
  <2> QED BY <2>1, <2>3
<1>5. CASE ~(s.tries <= FrameRetries) BY <1>5, TalkGivenUp DEF Retry
<1> QED BY <1>4, <1>5

LEMMA TalkWaits ==
  ASSUME Talk(srv, sent, Len(ran)), Waits PROVE Talk(srv', sent, Len(ran)) /\ ~Open(srv')
BY DEF Talk, Waits, Open

LEMMA TalkBegins ==
  ASSUME ran \in Seq(Seq(Chunks)), Talk(srv, sent, Len(ran)), Begins
  PROVE  /\ Talk(srv', sent, Len(ran'))
         /\ \/ Len(ran') = Len(ran) /\ ~Open(srv')
            \/ Len(ran') = Len(ran) + 1
<1>1. /\ srv.pc = "idle" /\ srv'.pc = "send" /\ srv'.tries = 0
      /\ srv'.todo[1].op \in {"READY", "THINKING"}
      /\ Script(srv'.todo, srv'.after, Len(ran'))
  BY DEF Begins, Starts
<1>2. sent # <<>> => Follows(sent[Len(sent)], srv'.todo[1])
  BY <1>1, ClosedThen DEF Talk
<1>3. Talk(srv', sent, Len(ran')) BY <1>1, <1>2 DEF Talk
<1>4. CASE ran' = ran /\ Closes(srv'.todo[1])
  <2>1. ~Open(srv') BY <1>1, <1>4 DEF Open
  <2> QED BY <1>3, <1>4, <2>1
<1>5. CASE \E prompt \in Seq(Chunks) : ran' = Append(ran, prompt)
  <2>1. Len(ran') = Len(ran) + 1 BY <1>5, AppendProperties
  <2> QED BY <1>3, <2>1
<1> QED BY <1>4, <1>5 DEF Begins

LEMMA TalkContinues ==
  ASSUME Sane(srv'), Talk(srv, sent, Len(ran)), Continues
  PROVE  Talk(srv', sent, Len(ran)) /\ Open(srv)
<1>1. /\ srv.pc = "agent" /\ srv'.pc = "send" /\ srv'.tries = 0
      /\ srv'.todo[1].op \in {"PROGRESS", "TEXT", "ERROR"} /\ srv'.todo[1].part <= 1
      /\ Script(srv'.todo, srv'.after, Len(ran))
  BY DEF Continues, Starts
<1>2. srv'.todo \in Seq(Says) /\ srv'.todo # <<>> BY <1>1 DEF Sane, Handlers
<1>3. srv'.todo[1].turn = Len(ran) BY <1>1, <1>2, FirstSay
<1>4. Follows(sent[Len(sent)], srv'.todo[1]) BY <1>1, <1>3, WorkingThen DEF Talk
<1> QED BY <1>1, <1>4 DEF Talk, Open

\* A step of the handler that writes no frame of its own: no turn is open that was
\* not, unless it is a new one.
LEMMA PhaseTalk ==
  ASSUME ServerTyped, Numbered(srv, sent), Talk(srv, sent, Len(ran)), ServerNext, ~Transmit
  PROVE  /\ sent' = sent /\ Talk(srv', sent, Len(ran'))
         /\ Len(ran) \in Nat /\ Len(ran') \in Nat /\ Len(ran) <= Len(ran')
         /\ Open(srv') => Open(srv) \/ Len(ran) < Len(ran')
<1>1. ran \in Seq(Seq(Chunks)) /\ Sane(srv) BY DEF ServerTyped
<1>2. Types /\ Phases BY ServerStep
<1>3. Len(ran) \in Nat BY <1>1, LenProperties
<1>4. Sane(srv') BY <1>2 DEF Types
<1>5. Quiet BY <1>2 DEF Phases
<1>6. sent' = sent BY <1>5 DEF Quiet
<1>7. CASE srv' = srv /\ ran' = ran BY <1>3, <1>6, <1>7
<1>8. CASE Waits
  <2>1. ran' = ran BY <1>8 DEF Waits
  <2> QED BY <1>3, <1>6, <1>8, <2>1, TalkWaits
<1>9. CASE Begins BY <1>1, <1>3, <1>6, <1>9, TalkBegins
<1>10. CASE Continues
  <2>1. ran' = ran BY <1>10 DEF Continues
  <2> QED BY <1>3, <1>4, <1>6, <1>10, <2>1, TalkContinues
<1>11. CASE srv.pc = "await" /\ srv' \in {Acked(srv), Retry(srv), GivenUp(srv)} /\ ran' = ran
  <2>1. Talk(Acked(srv), sent, Len(ran)) /\ (Open(Acked(srv)) => Open(srv))
    BY <1>1, <1>11, TalkAcked
  <2>2. Talk(Retry(srv), sent, Len(ran)) /\ (Open(Retry(srv)) => Open(srv))
    BY <1>1, <1>3, <1>11, TalkRetry
  <2>3. Talk(GivenUp(srv), sent, Len(ran)) /\ (Open(GivenUp(srv)) => Open(srv))
    BY <1>1, <1>3, <1>11, TalkGivenUp
  <2>4. Talk(srv', sent, Len(ran)) /\ (Open(srv') => Open(srv)) BY <1>11, <2>1, <2>2, <2>3
  <2> QED BY <1>3, <1>6, <1>11, <2>4
<1>12. CASE Breaks
  <2>1. srv \in Handlers /\ ran' = ran BY <1>1, <1>12 DEF Sane, Breaks
  <2>2. Talk(srv', sent, Len(ran)) /\ ~Open(srv') BY <1>12, <2>1, EndedTalk DEF Breaks
  <2> QED BY <1>3, <1>6, <2>1, <2>2
<1> QED BY <1>2, <1>7, <1>8, <1>9, <1>10, <1>11, <1>12 DEF Phases

LEMMA TurnsKept ==
  ASSUME NEW q \in Seq(HostFrames), NEW s, NEW r, NEW turn \in Nat, NEW next \in Nat,
         turn <= next, Turns(s, q, turn), Open(r) => Open(s) \/ turn < next
  PROVE  Turns(r, q, next)
<1>1. ASSUME NEW i \in 1..Len(q) PROVE q[i].turn <= next
  <2>0. q[i] \in HostFrames BY ElementOfSeq
  <2>1. q[i].turn \in Nat BY <2>0 DEF HostFrames
  <2>2. q[i].turn <= turn BY DEF Turns
  <2> QED BY <2>1, <2>2
<1>2. ASSUME Open(r), NEW i \in 1..Len(q), q[i].op = "PROMPT" PROVE q[i].turn < next
  <2>0. q[i] \in HostFrames BY ElementOfSeq
  <2>1. q[i].turn \in Nat BY <2>0 DEF HostFrames
  <2>2. q[i].turn <= turn BY DEF Turns
  <2>3. CASE Open(s)
    <3>1. q[i].turn < turn BY <1>2, <2>3 DEF Turns
    <3> QED BY <2>1, <3>1
  <2>4. CASE turn < next BY <2>1, <2>2, <2>4
  <2> QED BY <1>2, <2>3, <2>4
<1> QED BY <1>1, <1>2 DEF Turns

\* Writing a frame for the first time: it is of the turn that is open, if any.
LEMMA TurnsTransmit ==
  ASSUME ServerTyped, sent \in Seq(HostFrames), Talk(srv, sent, Len(ran)),
         Turns(srv, sent, Len(ran)), Transmit
  PROVE  /\ Turns(srv', sent', Len(ran)) /\ Open(srv') = Open(srv)
         /\ \/ sent' = sent
            \/ \E f \in HostFrames :
                   /\ sent' = Append(sent, f)
                   /\ Replies(f) => f.turn = Len(ran) /\ Open(srv)
<1>1. PICK f \in HostFrames :
             /\ Carries(f, srv.todo[1])
             /\ sent' = IF srv.tries = 0 THEN Append(sent, f) ELSE sent
  BY TransmitEffect
<1>2. /\ srv.pc = "send" /\ srv'.pc = "await" /\ srv'.todo = srv.todo
      /\ srv.todo \in Seq(Says) /\ srv.todo # <<>> /\ Script(srv.todo, srv.after, Len(ran))
  BY TransmitEffect DEF Talk, ServerTyped, Sane, Handlers
<1>3. Open(srv') = Open(srv) BY <1>2 DEF Open
<1>4. Len(ran) \in Nat /\ Len(sent) \in Nat BY LenProperties DEF ServerTyped
<1>5. /\ f.turn \in Nat /\ f.turn <= Len(ran)
      /\ Replies(f) => f.turn = Len(ran) /\ Open(srv)
      /\ f.op = "PROMPT" => ~Open(srv)
  <2>1. f.turn = srv.todo[1].turn /\ f.op = srv.todo[1].op BY <1>1 DEF Carries
  <2>2. /\ f.turn = Len(ran) \/ (f.op = "READY" /\ f.turn = 0)
        /\ f.op # "READY" => f.turn = Len(ran)
    BY <1>2, <2>1, FirstSay
  <2>3. Replies(f) => ~Closes(srv.todo[1]) BY <2>1 DEF Replies, Closes
  <2>4. f.op = "PROMPT" => Closes(srv.todo[1]) BY <2>1 DEF Closes
  <2> QED BY <1>2, <1>4, <2>2, <2>3, <2>4 DEF Open, Replies
<1>6. CASE srv.tries # 0
  <2>1. sent' = sent BY <1>1, <1>6
  <2>2. Turns(srv', sent, Len(ran)) BY <1>3, <1>4, TurnsKept
  <2> QED BY <1>3, <2>1, <2>2
<1>7. CASE srv.tries = 0
  <2>1. /\ sent' = Append(sent, f) /\ Len(sent') = Len(sent) + 1
        /\ \A i \in 1..Len(sent) : sent'[i] = sent[i]
        /\ sent'[Len(sent) + 1] = f
    BY <1>1, <1>7, AppendFacts
  <2>2. ASSUME NEW i \in 1..Len(sent') PROVE sent'[i].turn <= Len(ran)
    <3>1. i \in 1..Len(sent) \/ i = Len(sent) + 1 BY <1>4, <2>1
    <3> QED BY <1>5, <2>1, <3>1 DEF Turns
  <2>3. ASSUME NEW i \in 1..Len(sent'), NEW j \in 1..Len(sent'),
               i < j, sent'[i].op = "PROMPT", Replies(sent'[j])
        PROVE  sent'[i].turn < sent'[j].turn
    <3>1. i \in 1..Len(sent) /\ sent'[i] = sent[i] BY <1>4, <2>1, <2>3
    <3>2. CASE j \in 1..Len(sent) BY <2>1, <2>3, <3>1, <3>2 DEF Turns
    <3>3. CASE j = Len(sent) + 1
      <4>1. sent'[j] = f BY <2>1, <3>3
      <4>2. Open(srv) /\ f.turn = Len(ran) BY <1>5, <2>3, <4>1
      <4> QED BY <2>3, <3>1, <4>1, <4>2 DEF Turns
    <3> QED BY <1>4, <2>1, <3>2, <3>3
  <2>4. ASSUME Open(srv'), NEW i \in 1..Len(sent'), sent'[i].op = "PROMPT"
        PROVE  sent'[i].turn < Len(ran)
    <3>1. Open(srv) BY <1>3, <2>4
    <3>2. i # Len(sent) + 1 BY <1>5, <2>1, <2>4, <3>1
    <3>3. i \in 1..Len(sent) /\ sent'[i] = sent[i] BY <1>4, <2>1, <3>2
    <3> QED BY <2>4, <3>1, <3>3 DEF Turns
  <2>5. Turns(srv', sent', Len(ran)) BY <2>2, <2>3, <2>4 DEF Turns
  <2> QED BY <1>3, <1>5, <2>1, <2>5
<1> QED BY <1>6, <1>7

-----------------------------------------------------------------------------
(* The reply that is shown.                                                *)

\* Lines of one turn, in order.
Consecutive(r) ==
    \A i \in 1..(Len(r) - 1) :
        r[i].turn = r[i + 1].turn /\ r[i + 1].part \in {r[i].part, r[i].part + 1}

\* The reply so far is that of the frame applied last, which is a line of it.
Drafted(r, f) ==
    /\ Replies(f) /\ Consecutive(r)
    /\ \A i \in 1..Len(r) : r[i].turn = f.turn
    /\ f.op = "TEXT" => r[Len(r)].part = f.part

\* A turn that is over: not the open one, and before any whose lines may still come.
Past(t, s, q, n, turn) ==
    /\ t <= turn
    /\ Open(s) => t < turn
    /\ \A j \in 1..Len(q) : j >= n /\ Replies(q[j]) => t < q[j].turn

ReplyInv ==
    /\ Talk(srv, sent, Len(ran)) /\ Turns(srv, sent, Len(ran))
    /\ cli.pc = "up" /\ cli.resp # <<>> => got # <<>> /\ Drafted(cli.resp, got[Len(got)])
    /\ \A e \in 1..Len(shown) : Consecutive(shown[e])
    /\ \A d, e \in 1..Len(shown) :
           d < e /\ shown[d] # <<>> /\ shown[e] # <<>> => shown[d][1].turn < shown[e][1].turn
    /\ \A e \in 1..Len(shown) :
           shown[e] # <<>> => Past(shown[e][1].turn, srv, sent, Len(got), Len(ran))

\* One more line of the same reply.
LEMMA ConsecutiveAppend ==
  ASSUME NEW r \in Seq(Lines), Consecutive(r), NEW line \in Lines,
         r # <<>> => /\ r[Len(r)].turn = line.turn
                     /\ line.part \in {r[Len(r)].part, r[Len(r)].part + 1}
  PROVE  Consecutive(Append(r, line))
<1> DEFINE t == Append(r, line)
<1>1. /\ Len(t) = Len(r) + 1 /\ Len(r) \in Nat
      /\ \A i \in 1..Len(r) : t[i] = r[i]
      /\ t[Len(r) + 1] = line
  BY AppendFacts
<1>2. r = <<>> <=> Len(r) = 0 BY EmptySeq
<1> HIDE DEF t
<1>3. ASSUME NEW i \in 1..(Len(t) - 1)
      PROVE  t[i].turn = t[i + 1].turn /\ t[i + 1].part \in {t[i].part, t[i].part + 1}
  <2>1. CASE i < Len(r)
    <3>1. t[i] = r[i] /\ t[i + 1] = r[i + 1] /\ i \in 1..(Len(r) - 1) BY <1>1, <2>1
    <3> QED BY <3>1 DEF Consecutive
  <2>2. CASE i = Len(r)
    <3>1. t[i] = r[Len(r)] /\ t[i + 1] = line /\ r # <<>> BY <1>1, <1>2, <2>2
    <3> QED BY <3>1
  <2> QED BY <1>1, <2>1, <2>2
<1>4. Consecutive(t) BY <1>3 DEF Consecutive
<1> QED BY <1>4 DEF t

\* What may follow a line of a reply, or be it again.
LEMMA DraftThen ==
  ASSUME NEW f, NEW g, Replies(g), f = g \/ Follows(g, f)
  PROVE  /\ f.op \in {"TEXT", "ERROR", "PROMPT"} /\ f.turn = g.turn
         /\ f.op = "TEXT" => g.op = "TEXT" /\ f.part \in {g.part, g.part + 1}
         /\ f.op = "PROMPT" => Follows(g, f)
BY DEF Replies, Follows, Closes

LEMMA DraftGrows ==
  ASSUME NEW r \in Seq(Lines), NEW f \in HostFrames, f.op = "TEXT", NEW g,
         r # <<>> => Drafted(r, g) /\ (f = g \/ Follows(g, f))
  PROVE  LET t == Append(r, [turn |-> f.turn, part |-> f.part])
         IN  t # <<>> /\ Drafted(t, f)
<1> DEFINE line == [turn |-> f.turn, part |-> f.part]
           t == Append(r, line)
<1>1. line \in Lines /\ line.turn = f.turn /\ line.part = f.part BY DEF HostFrames, Lines
<1> HIDE DEF line
<1>2. /\ Len(t) = Len(r) + 1 /\ Len(r) \in Nat /\ t # <<>>
      /\ \A i \in 1..Len(r) : t[i] = r[i]
      /\ t[Len(r) + 1] = line
  BY <1>1, AppendFacts
<1>3. r = <<>> <=> Len(r) = 0 BY EmptySeq
<1>4. r # <<>> => f.turn = g.turn /\ g.op = "TEXT" /\ f.part \in {g.part, g.part + 1}
  BY DraftThen DEF Drafted
<1>5. Consecutive(r)
  <2>1. CASE r = <<>> BY <1>3, <2>1 DEF Consecutive
  <2>2. CASE r # <<>> BY <2>2 DEF Drafted
  <2> QED BY <2>1, <2>2
<1>6. r # <<>> => r[Len(r)].turn = g.turn /\ r[Len(r)].part = g.part
  BY <1>2, <1>3, <1>4 DEF Drafted
<1>7. Consecutive(t) BY <1>1, <1>4, <1>5, <1>6, ConsecutiveAppend
<1> HIDE DEF t
<1>8. ASSUME NEW i \in 1..Len(t) PROVE t[i].turn = f.turn
  <2>1. CASE i \in 1..Len(r)
    <3>1. r # <<>> BY <1>2, <1>3, <2>1
    <3>2. r[i].turn = g.turn BY <2>1, <3>1 DEF Drafted
    <3> QED BY <1>2, <1>4, <2>1, <3>1, <3>2
  <2>2. CASE i = Len(r) + 1 BY <1>1, <1>2, <2>2
  <2> QED BY <1>2, <2>1, <2>2
<1>9. t[Len(t)].part = f.part BY <1>1, <1>2
<1>10. Drafted(t, f) BY <1>7, <1>8, <1>9 DEF Drafted, Replies
<1> QED BY <1>2, <1>10 DEF t, line

LEMMA ErrorDrafted ==
  ASSUME NEW f, f.op = "ERROR"
  PROVE  Drafted(<<[turn |-> f.turn, part |-> 0]>>, f)
<1> DEFINE r == <<[turn |-> f.turn, part |-> 0]>>
<1>1. Len(r) = 1 /\ r[1].turn = f.turn OBVIOUS
<1> HIDE DEF r
<1>2. Drafted(r, f) BY <1>1 DEF Drafted, Replies, Consecutive
<1> QED BY <1>2 DEF r

LEMMA PastKept ==
  ASSUME NEW t \in Nat, NEW s, NEW r, NEW q, NEW n, NEW turn \in Nat, NEW next \in Nat,
         Past(t, s, q, n, turn), turn <= next, Open(r) => Open(s) \/ turn < next
  PROVE  Past(t, r, q, n, next)
<1>1. t <= turn /\ (Open(s) => t < turn) BY DEF Past
<1>2. t <= next /\ (Open(r) => t < next) BY <1>1
<1> QED BY <1>2 DEF Past

LEMMA PastStays ==
  ASSUME NEW t \in Nat, NEW s, NEW r, NEW q, NEW n, NEW turn \in Nat,
         Past(t, s, q, n, turn), Open(r) => Open(s)
  PROVE  Past(t, r, q, n, turn)
BY DEF Past

\* What the client has applied does not come again, but for the last of it.
LEMMA PastFarther ==
  ASSUME NEW t \in Nat, NEW s, NEW q, Len(q) \in Nat, NEW n \in Nat, NEW m \in Nat,
         NEW turn \in Nat, Past(t, s, q, n, turn), n <= m
  PROVE  Past(t, s, q, m, turn)
<1>1. ASSUME NEW j \in 1..Len(q), j >= m, Replies(q[j]) PROVE t < q[j].turn
  <2>1. j >= n BY <1>1
  <2> QED BY <1>1, <2>1 DEF Past
<1> QED BY <1>1 DEF Past

\* A frame behind the last one is of the open turn, if it is a line of a reply.
LEMMA PastAppend ==
  ASSUME NEW t \in Nat, NEW s, NEW r, NEW q \in Seq(HostFrames), NEW n \in Nat,
         NEW turn \in Nat, NEW f \in HostFrames, Past(t, s, q, n, turn), Open(r) = Open(s),
         Replies(f) => f.turn = turn /\ Open(s)
  PROVE  Past(t, r, Append(q, f), n, turn)
<1> DEFINE p == Append(q, f)
<1>1. /\ Len(p) = Len(q) + 1 /\ Len(q) \in Nat
      /\ \A i \in 1..Len(q) : p[i] = q[i]
      /\ p[Len(q) + 1] = f
  BY AppendFacts
<1> HIDE DEF p
<1>2. ASSUME NEW j \in 1..Len(p), j >= n, Replies(p[j]) PROVE t < p[j].turn
  <2>1. CASE j \in 1..Len(q) BY <1>1, <1>2, <2>1 DEF Past
  <2>2. CASE j = Len(q) + 1
    <3>1. p[j] = f /\ f.turn = turn /\ Open(s) BY <1>1, <1>2, <2>2
    <3> QED BY <3>1 DEF Past
  <2> QED BY <1>1, <2>1, <2>2
<1>3. Past(t, r, p, n, turn) BY <1>2 DEF Past
<1> QED BY <1>3 DEF p

LEMMA ShownType ==
  ASSUME TypeInv, NEW e \in 1..Len(shown), shown[e] # <<>>
  PROVE  shown[e][1] \in Lines /\ shown[e][1].turn \in Nat
<1>1. shown[e] \in Seq(Lines) BY ElementOfSeq DEF TypeInv, ClientTyped
<1>2. 1 \in 1..Len(shown[e]) BY <1>1, LenProperties, EmptySeq
<1>3. shown[e][1] \in Lines BY <1>1, <1>2, ElementOfSeq
<1> QED BY <1>3 DEF Lines

\* What was shown stays in the past when the handler takes a step.
LEMMA ServerReplies ==
  ASSUME TypeInv, LinkInv, ReplyInv, ServerNext, UNCHANGED clientVars
  PROVE  ReplyInv'
<1>1. /\ ServerTyped /\ sent \in Seq(HostFrames) /\ Len(sent) \in Nat
      /\ Numbered(srv, sent) /\ Len(got) \in Nat /\ Len(ran) \in Nat
  BY LenProperties DEF TypeInv, ServerTyped, ClientTyped, LinkInv
<1>2. cli' = cli /\ got' = got /\ shown' = shown BY DEF clientVars
<1>3. Talk(srv, sent, Len(ran)) /\ Turns(srv, sent, Len(ran)) BY DEF ReplyInv
<1>4. ASSUME Talk(srv', sent', Len(ran')), Turns(srv', sent', Len(ran')),
             \A e \in 1..Len(shown) : shown[e] # <<>> =>
                 Past(shown[e][1].turn, srv', sent', Len(got), Len(ran'))
      PROVE  ReplyInv'
  BY <1>2, <1>4 DEF ReplyInv
<1>5. CASE Transmit
  <2>1. ran' = ran BY <1>5 DEF Transmit
  <2>2. Talk(srv', sent', Len(ran)) BY <1>1, <1>3, <1>5, TalkTransmit
  <2>3. /\ Turns(srv', sent', Len(ran)) /\ Open(srv') = Open(srv)
        /\ \/ sent' = sent
           \/ \E f \in HostFrames :
                  /\ sent' = Append(sent, f)
                  /\ Replies(f) => f.turn = Len(ran) /\ Open(srv)
    BY <1>1, <1>3, <1>5, TurnsTransmit
  <2>4. ASSUME NEW e \in 1..Len(shown), shown[e] # <<>>
        PROVE  Past(shown[e][1].turn, srv', sent', Len(got), Len(ran))
    <3>1. shown[e][1].turn \in Nat BY <2>4, ShownType
    <3>2. Past(shown[e][1].turn, srv, sent, Len(got), Len(ran)) BY <2>4 DEF ReplyInv
    <3> DEFINE t == shown[e][1].turn
    <3> HIDE DEF t
    <3>3. t \in Nat /\ Past(t, srv, sent, Len(got), Len(ran)) BY <3>1, <3>2 DEF t
    <3>4. CASE sent' = sent
      <4>0. Open(srv') => Open(srv) BY <2>3
      <4>1. Past(t, srv', sent, Len(got), Len(ran)) BY <1>1, <3>3, <4>0, PastStays
      <4> QED BY <3>4, <4>1 DEF t
    <3>5. CASE \E f \in HostFrames :
                  /\ sent' = Append(sent, f)
                  /\ Replies(f) => f.turn = Len(ran) /\ Open(srv)
      <4>1. PICK f \in HostFrames :
                  /\ sent' = Append(sent, f)
                  /\ Replies(f) => f.turn = Len(ran) /\ Open(srv)
        BY <3>5
      <4>2. Past(t, srv', Append(sent, f), Len(got), Len(ran))
        BY <1>1, <2>3, <3>3, <4>1, PastAppend
      <4> QED BY <4>1, <4>2 DEF t
    <3> QED BY <2>3, <3>4, <3>5
  <2> QED BY <1>4, <2>1, <2>2, <2>3, <2>4
<1>6. CASE ~Transmit
  <2>1. /\ sent' = sent /\ Talk(srv', sent, Len(ran'))
        /\ Len(ran') \in Nat /\ Len(ran) <= Len(ran')
        /\ Open(srv') => Open(srv) \/ Len(ran) < Len(ran')
    BY <1>1, <1>3, <1>6, PhaseTalk
  <2>2. Turns(srv', sent, Len(ran')) BY <1>1, <1>3, <2>1, TurnsKept
  <2>3. ASSUME NEW e \in 1..Len(shown), shown[e] # <<>>
        PROVE  Past(shown[e][1].turn, srv', sent, Len(got), Len(ran'))
    <3>1. shown[e][1].turn \in Nat BY <2>3, ShownType
    <3>2. Past(shown[e][1].turn, srv, sent, Len(got), Len(ran)) BY <2>3 DEF ReplyInv
    <3> DEFINE t == shown[e][1].turn
    <3>3. t \in Nat /\ Past(t, srv, sent, Len(got), Len(ran)) BY <3>1, <3>2
    <3> HIDE DEF t
    <3>4. Past(t, srv', sent, Len(got), Len(ran')) BY <1>1, <2>1, <3>3, PastKept
    <3> QED BY <3>4 DEF t
  <2> QED BY <1>4, <2>1, <2>2, <2>3
<1> QED BY <1>5, <1>6

\* The client hangs up, dials, sends or reads an answer: nothing new is shown.
LEMMA EndedReplies ==
  ASSUME TypeInv, ReplyInv, HangsUp, HandlerEnds PROVE ReplyInv'
<1>1. /\ ServerTyped /\ sent \in Seq(HostFrames) /\ Len(sent) \in Nat /\ srv \in Handlers
      /\ Len(got) \in Nat /\ Len(ran) \in Nat
  BY LenProperties DEF TypeInv, ServerTyped, ClientTyped, Sane
<1>2. got' = got /\ shown' = shown /\ cli'.pc # "up" /\ sent' = sent /\ ran' = ran
      /\ srv' = [srv EXCEPT !.pc = "closed"]
  BY DEF HangsUp, HandlerEnds
<1>3. Talk(srv', sent, Len(ran)) /\ ~Open(srv') BY <1>1, <1>2, EndedTalk DEF ReplyInv
<1>4. Turns(srv', sent, Len(ran)) BY <1>1, <1>3, TurnsKept DEF ReplyInv
<1>5. ASSUME NEW e \in 1..Len(shown), shown[e] # <<>>
      PROVE  Past(shown[e][1].turn, srv', sent, Len(got), Len(ran))
  <2>1. shown[e][1].turn \in Nat BY <1>5, ShownType
  <2>2. Past(shown[e][1].turn, srv, sent, Len(got), Len(ran)) BY <1>5 DEF ReplyInv
  <2> DEFINE t == shown[e][1].turn
  <2>3. t \in Nat /\ Past(t, srv, sent, Len(got), Len(ran)) BY <2>1, <2>2
  <2> HIDE DEF t
  <2>4. Past(t, srv', sent, Len(got), Len(ran)) BY <1>1, <1>3, <2>3, PastStays
  <2> QED BY <2>4 DEF t
<1> QED BY <1>2, <1>3, <1>4, <1>5 DEF ReplyInv

LEMMA KeptReplies ==
  ASSUME TypeInv, ReplyInv, ServerKept,
         got' = got, shown' = shown,
         cli'.pc # "up" \/ cli'.resp = <<>> \/ (cli.pc = "up" /\ cli'.resp = cli.resp)
  PROVE  ReplyInv'
BY DEF ReplyInv, ServerKept, serverVars

\* A new connection: nothing was sent on it, and no turn is open.
LEMMA ConnectedReplies ==
  ASSUME TypeInv, ReplyInv, Connects, got' = <<>>, shown' = shown, cli'.resp = <<>>
  PROVE  ReplyInv'
<1>1. srv' = NewHandler /\ sent' = <<>> /\ ran' = ran BY DEF Connects
<1>2. Len(<<>>) = 0 /\ 1..0 = {} /\ 1..(0 - 1) = {} OBVIOUS
<1>3. Talk(srv', sent', Len(ran)) /\ ~Open(srv')
  BY <1>1, <1>2, NewHandlerSane DEF Talk, Open, Chained
<1>4. Turns(srv', sent', Len(ran)) BY <1>1, <1>2, <1>3 DEF Turns
<1>5. ASSUME NEW e \in 1..Len(shown), shown[e] # <<>>
      PROVE  Past(shown[e][1].turn, srv', sent', Len(got'), Len(ran))
  <2>1. Past(shown[e][1].turn, srv, sent, Len(got), Len(ran)) BY <1>5 DEF ReplyInv
  <2>2. shown[e][1].turn <= Len(ran) BY <2>1 DEF Past
  <2> QED BY <1>1, <1>2, <1>3, <2>2 DEF Past
<1> QED BY <1>1, <1>3, <1>4, <1>5 DEF ReplyInv

\* What the client knows of a frame it applies: it is now the last one applied,
\* and goes on from the one before, or is that one.
LEMMA AppliedKnows ==
  ASSUME TypeInv, LinkInv, ReplyInv, ServerKept, Applied
  PROVE  /\ Heard \in HostFrames /\ got' # <<>> /\ got'[Len(got')] = Heard
         /\ Len(got) \in Nat /\ Len(got') \in Nat /\ Len(got) <= Len(got')
         /\ Len(got) <= Len(sent) /\ cli.pc = "up" /\ cli'.pc = "up"
         /\ got # <<>> =>
                /\ Len(got) \in 1..Len(sent) /\ got[Len(got)] = sent[Len(got)]
                /\ \/ Heard = got[Len(got)]
                   \/ /\ Follows(got[Len(got)], Heard)
                      /\ Len(got') = Len(got) + 1
                      /\ Len(got') \in 1..Len(sent) /\ Heard = sent[Len(got')]
<1>1. /\ sent \in Seq(HostFrames) /\ got \in Seq(HostFrames)
      /\ Len(sent) \in Nat /\ Len(got) \in Nat /\ cli.pc = "up" /\ cli'.pc = "up"
  BY LenProperties DEF TypeInv, ClientTyped, Applied, Hears
<1>2. /\ Len(got) <= Len(sent) /\ \A i \in 1..Len(got) : got[i] = sent[i]
  BY DEF LinkInv, Prefix
<1>3. got # <<>> => Len(got) \in 1..Len(got) BY <1>1, EmptySeq
<1>4. CASE got # <<>> /\ got[Len(got)] = Heard /\ got' = got
  BY <1>1, <1>2, <1>3, <1>4, TakenEffect
<1>5. CASE /\ Len(got) < Len(sent) /\ Heard = sent[Len(got) + 1]
           /\ got' = Append(got, Heard)
  <2>1. Heard \in HostFrames BY TakenEffect
  <2>2. /\ Len(got') = Len(got) + 1 /\ got'[Len(got) + 1] = Heard /\ got' # <<>>
    BY <1>1, <1>5, <2>1, AppendFacts
  <2>3. Chained(sent) BY DEF ReplyInv, Talk
  <2>4. got # <<>> => Follows(got[Len(got)], Heard)
    <3> SUFFICES ASSUME got # <<>> PROVE Follows(got[Len(got)], Heard)
      OBVIOUS
    <3>1. Len(got) \in 1..(Len(sent) - 1) /\ got[Len(got)] = sent[Len(got)]
      BY <1>1, <1>2, <1>3, <1>5
    <3>2. Follows(sent[Len(got)], sent[Len(got) + 1]) BY <2>3, <3>1 DEF Chained
    <3> QED BY <1>5, <3>1, <3>2
  <2> QED BY <1>1, <1>2, <1>3, <1>5, <2>1, <2>2, <2>4
<1> QED BY <1>4, <1>5, TakenEffect

\* A frame that shows nothing.
LEMMA UnshownReplies ==
  ASSUME TypeInv, LinkInv, ReplyInv, ServerKept, Applied, shown' = shown,
         cli'.resp # <<>> => Drafted(cli'.resp, Heard)
  PROVE  ReplyInv'
<1>1. /\ got' # <<>> /\ got'[Len(got')] = Heard
      /\ Len(got) \in Nat /\ Len(got') \in Nat /\ Len(got) <= Len(got')
  BY AppliedKnows
<1>2. srv' = srv /\ sent' = sent /\ ran' = ran BY DEF ServerKept, serverVars
<1>3. Len(sent) \in Nat /\ Len(ran) \in Nat
  BY LenProperties DEF TypeInv, ClientTyped, ServerTyped
<1>4. ASSUME NEW e \in 1..Len(shown), shown[e] # <<>>
      PROVE  Past(shown[e][1].turn, srv, sent, Len(got'), Len(ran))
  <2>1. shown[e][1].turn \in Nat BY <1>4, ShownType
  <2>2. Past(shown[e][1].turn, srv, sent, Len(got), Len(ran)) BY <1>4 DEF ReplyInv
  <2> DEFINE t == shown[e][1].turn
  <2>3. t \in Nat /\ Past(t, srv, sent, Len(got), Len(ran)) BY <2>1, <2>2
  <2> HIDE DEF t
  <2>4. Past(t, srv, sent, Len(got'), Len(ran)) BY <1>1, <1>3, <2>3, PastFarther
  <2> QED BY <2>4 DEF t
<1>5. cli'.pc = "up" /\ cli'.resp # <<>> => got' # <<>> /\ Drafted(cli'.resp, got'[Len(got')])
  BY <1>1
<1> QED BY <1>2, <1>4, <1>5 DEF ReplyInv

\* PROMPT shows the reply so far, whose turn is then over.
LEMMA PromptReplies ==
  ASSUME TypeInv, LinkInv, ReplyInv, ServerKept, Applied,
         Heard.op = "PROMPT", shown' = Append(shown, cli.resp), cli'.resp = <<>>
  PROVE  ReplyInv'
<1> DEFINE r == cli.resp
           k == Len(shown) + 1
           t == r[1].turn
<1>1. /\ Len(got) \in Nat /\ Len(got') \in Nat /\ Len(got) <= Len(got') /\ cli.pc = "up"
  BY AppliedKnows
<1>2. srv' = srv /\ sent' = sent /\ ran' = ran BY DEF ServerKept, serverVars
<1>3. /\ sent \in Seq(HostFrames) /\ Len(sent) \in Nat /\ Len(ran) \in Nat
      /\ shown \in Seq(Seq(Lines)) /\ r \in Seq(Lines)
  BY LenProperties DEF TypeInv, ClientTyped, ServerTyped, Clients
<1>4. /\ Len(shown') = k /\ Len(shown) \in Nat
      /\ \A e \in 1..Len(shown) : shown'[e] = shown[e]
      /\ shown'[k] = r
  BY <1>3, AppendFacts
<1>5. r # <<>> => got # <<>> /\ Drafted(r, got[Len(got)]) BY <1>1 DEF ReplyInv
<1>6. Consecutive(r)
  <2>1. CASE r = <<>>
    <3>1. Len(r) = 0 BY <1>3, <2>1, EmptySeq
    <3> QED BY <3>1 DEF Consecutive
  <2>2. CASE r # <<>> BY <1>5, <2>2 DEF Drafted
  <2> QED BY <2>1, <2>2
<1>7. ASSUME r # <<>>
      PROVE  /\ Past(t, srv, sent, Len(got'), Len(ran))
             /\ \A d \in 1..Len(shown) : shown[d] # <<>> => shown[d][1].turn < t
  <2> DEFINE g == got[Len(got)]
             n == Len(got)
  <2>1. got # <<>> /\ Drafted(r, g) BY <1>5, <1>7
  <2>2. Replies(g) /\ t = g.turn
    <3>1. 1 \in 1..Len(r) BY <1>3, <1>7, LenProperties, EmptySeq
    <3> QED BY <2>1, <3>1 DEF Drafted
  <2>3. Heard # g BY <2>2 DEF Replies
  <2>4. /\ n \in 1..Len(sent) /\ g = sent[n] /\ Follows(g, Heard)
        /\ Len(got') = n + 1 /\ n + 1 \in 1..Len(sent) /\ Heard = sent[n + 1]
    BY <2>1, <2>3, AppliedKnows
  <2>5. Heard.turn = t BY <2>2, <2>4, DraftThen
  <2> HIDE DEF t, g, n
  <2>6. Turns(srv, sent, Len(ran)) BY DEF ReplyInv
  <2>7. t <= Len(ran) BY <2>2, <2>4, <2>6 DEF Turns
  <2>8. Open(srv) => t < Len(ran) BY <2>4, <2>5, <2>6 DEF Turns
  <2>9. ASSUME NEW j \in 1..Len(sent), j >= n + 1, Replies(sent[j]) PROVE t < sent[j].turn
    <3>1. j # n + 1 BY <2>4, <2>9 DEF Replies
    <3>2. n \in Nat BY <1>1 DEF n
    <3>3. n + 1 < j BY <2>9, <3>1, <3>2
    <3> QED BY <2>4, <2>5, <2>6, <2>9, <3>3 DEF Turns
  <2>10. Past(t, srv, sent, n + 1, Len(ran)) BY <2>7, <2>8, <2>9 DEF Past
  <2>11. ASSUME NEW d \in 1..Len(shown), shown[d] # <<>> PROVE shown[d][1].turn < t
    <3>1. Past(shown[d][1].turn, srv, sent, n, Len(ran)) BY <2>11 DEF ReplyInv, n
    <3>2. n \in Nat /\ n >= n BY <1>1 DEF n
    <3> QED BY <2>2, <2>4, <3>1, <3>2 DEF Past
  <2> QED BY <2>4, <2>10, <2>11
<1>8. ASSUME NEW e \in 1..Len(shown') PROVE Consecutive(shown'[e])
  <2>1. e \in 1..Len(shown) \/ e = k BY <1>4
  <2> QED BY <1>4, <1>6, <2>1 DEF ReplyInv
<1>9. ASSUME NEW d \in 1..Len(shown'), NEW e \in 1..Len(shown'), d < e,
             shown'[d] # <<>>, shown'[e] # <<>>
      PROVE  shown'[d][1].turn < shown'[e][1].turn
  <2>1. d \in 1..Len(shown) /\ (e \in 1..Len(shown) \/ e = k) BY <1>4, <1>9
  <2>2. CASE e \in 1..Len(shown) BY <1>4, <1>9, <2>1, <2>2 DEF ReplyInv
  <2>3. CASE e = k BY <1>4, <1>7, <1>9, <2>1, <2>3
  <2> QED BY <2>1, <2>2, <2>3
<1>10. ASSUME NEW e \in 1..Len(shown'), shown'[e] # <<>>
       PROVE  Past(shown'[e][1].turn, srv, sent, Len(got'), Len(ran))
  <2>1. e \in 1..Len(shown) \/ e = k BY <1>4
  <2>2. CASE e \in 1..Len(shown)
    <3>1. shown'[e] = shown[e] /\ shown[e] # <<>> BY <1>4, <1>10, <2>2
    <3>2. shown[e][1].turn \in Nat BY <2>2, <3>1, ShownType
    <3>3. Past(shown[e][1].turn, srv, sent, Len(got), Len(ran))
      BY <2>2, <3>1 DEF ReplyInv
    <3> DEFINE u == shown[e][1].turn
    <3>4. u \in Nat /\ Past(u, srv, sent, Len(got), Len(ran)) BY <3>2, <3>3
    <3> HIDE DEF u
    <3>5. Past(u, srv, sent, Len(got'), Len(ran)) BY <1>1, <1>3, <3>4, PastFarther
    <3> QED BY <3>1, <3>5 DEF u
  <2>3. CASE e = k BY <1>4, <1>7, <1>10, <2>3
  <2> QED BY <2>1, <2>2, <2>3
<1> QED BY <1>2, <1>8, <1>9, <1>10 DEF ReplyInv

LEMMA AppliedReplies ==
  ASSUME TypeInv, LinkInv, ReplyInv, ServerKept, Applied PROVE ReplyInv'
<1>1. Heard \in HostFrames /\ cli.pc = "up" /\ cli.resp \in Seq(Lines)
  BY AppliedKnows DEF TypeInv, ClientTyped, Clients
<1>2. cli.resp # <<>> =>
          /\ Drafted(cli.resp, got[Len(got)])
          /\ Heard = got[Len(got)] \/ Follows(got[Len(got)], Heard)
  BY <1>1, AppliedKnows DEF ReplyInv
<1>3. CASE /\ Heard.op \in {"READY", "THINKING", "PROGRESS"}
           /\ shown' = shown /\ cli'.resp \in {cli.resp, <<>>}
  <2>1. cli.resp = <<>>
    <3> SUFFICES ASSUME cli.resp # <<>> PROVE FALSE
      OBVIOUS
    <3>1. Heard.op \in {"TEXT", "ERROR", "PROMPT"} BY <1>2, DraftThen DEF Drafted
    <3> QED BY <1>3, <3>1
  <2> QED BY <1>3, <2>1, UnshownReplies
<1>4. CASE /\ Heard.op = "ERROR" /\ shown' = shown
           /\ cli'.resp = <<[turn |-> Heard.turn, part |-> 0]>>
  <2>1. Drafted(cli'.resp, Heard) BY <1>4, ErrorDrafted
  <2> QED BY <1>4, <2>1, UnshownReplies
<1>5. CASE /\ Heard.op = "TEXT" /\ shown' = shown
           /\ cli'.resp = Append(cli.resp, [turn |-> Heard.turn, part |-> Heard.part])
  <2>1. Drafted(cli'.resp, Heard) BY <1>1, <1>2, <1>5, DraftGrows
  <2> QED BY <1>5, <2>1, UnshownReplies
<1>6. CASE /\ Heard.op = "PROMPT" /\ shown' = Append(shown, cli.resp) /\ cli'.resp = <<>>
  BY <1>6, PromptReplies
<1> QED BY <1>3, <1>4, <1>5, <1>6 DEF Applied, Tells

LEMMA ReplyNext == ASSUME TypeInv, LinkInv, ReplyInv, Steps PROVE ReplyInv'
<1>1. CASE ServerNext /\ UNCHANGED clientVars BY <1>1, ServerReplies
<1>2. CASE ServerKept /\ Answered
  <2>1. cli.pc = "up" BY <1>2 DEF Answered, Hears
  <2> QED BY <1>2, <2>1, KeptReplies DEF Answered
<1>3. CASE ServerKept /\ Applied BY <1>3, AppliedReplies
<1>4. CASE ServerKept /\ Writes BY <1>4, KeptReplies DEF Writes
<1>5. CASE HangsUp /\ HandlerEnds BY <1>5, EndedReplies
<1>6. CASE HangsUp /\ ServerKept BY <1>6, KeptReplies DEF HangsUp
<1>7. CASE Connects /\ got' = <<>> /\ shown' = shown /\ cli'.resp = <<>>
  BY <1>7, ConnectedReplies
<1>8. CASE UNCHANGED vars BY <1>8 DEF ReplyInv, vars, serverVars, clientVars
<1> QED BY <1>1, <1>2, <1>3, <1>4, <1>5, <1>6, <1>7, <1>8 DEF Steps

LEMMA InitReplies == Init => ReplyInv
<1> SUFFICES ASSUME Init PROVE ReplyInv
  OBVIOUS
<1>1. srv = NewHandler /\ sent = <<>> /\ ran = <<>> /\ shown = <<>> /\ cli.pc = "down"
  BY DEF Init, ServerInit, ClientInit
<1>2. Len(<<>>) = 0 /\ 1..0 = {} /\ 1..(0 - 1) = {} OBVIOUS
<1>3. Talk(srv, sent, Len(ran)) /\ ~Open(srv)
  BY <1>1, <1>2, NewHandlerSane DEF Talk, Open, Chained
<1>4. Turns(srv, sent, Len(ran)) BY <1>1, <1>2, <1>3 DEF Turns
<1> QED BY <1>1, <1>2, <1>3, <1>4 DEF ReplyInv

LEMMA RepliesOnce == ASSUME TypeInv, ReplyInv PROVE RepliesShownOnce
<1>1. DOMAIN shown = 1..Len(shown) BY LenProperties DEF TypeInv, ClientTyped
<1>2. ASSUME NEW e \in DOMAIN shown, NEW i \in 1..(Len(shown[e]) - 1)
      PROVE  /\ shown[e][i].turn = shown[e][i + 1].turn
             /\ shown[e][i + 1].part \in {shown[e][i].part, shown[e][i].part + 1}
  BY <1>1 DEF ReplyInv, Consecutive
<1>3. ASSUME NEW d \in DOMAIN shown, NEW e \in DOMAIN shown,
             d < e, shown[d] # <<>>, shown[e] # <<>>
      PROVE  shown[d][1].turn < shown[e][1].turn
  BY <1>1, <1>3 DEF ReplyInv
<1> QED BY <1>2, <1>3 DEF RepliesShownOnce

\* A reply in the transcript is a run of lines of one turn, in order and without a
\* gap between two of them, and no turn is shown twice or after a later one: whatever
\* HandleLine reads again, whenever the user sends or reconnects in mid-reply, and
\* however many frames send_frame gives up. The run may lack the first lines of its
\* turn, because Send clears the reply gathered so far.
THEOREM ShownOnce == Spec => []RepliesShownOnce
<1>1. Init => TypeInv /\ LinkInv /\ ReplyInv BY InitType, InitLink, InitReplies
<1>2. TypeInv /\ LinkInv /\ ReplyInv /\ [Next]_vars => TypeInv' /\ LinkInv' /\ ReplyInv'
  BY NextSteps, StepType, LinkNext, ReplyNext DEF LinkInv
<1>3. TypeInv /\ ReplyInv => RepliesShownOnce BY RepliesOnce
<1> QED BY <1>1, <1>2, <1>3, PTL DEF Spec

-----------------------------------------------------------------------------
(* The prompts, from the tap that issues one to the host that runs it.     *)
(*                                                                         *)
(* What is on the way to the host is a run of frames that are parts of     *)
(* prompts, in the order of issue, each followed by the next part, by the  *)
(* first part of a later prompt, or -- behind the last -- by what the      *)
(* client is about to write.  So a prompt the client gave up half-way is   *)
(* never completed with parts of another one: these are numbered from one, *)
(* and part one empties the host's buffer.  Sequence numbers do not enter; *)
(* they matter for the ACKs alone.                                         *)

\* The prompt handed over last.
LastRan(r) == IF r = <<>> THEN 0 ELSE r[Len(r)][1].id

\* Prompt i consists of chunks of prompt i, no more than the longest has.
Issues(iss) ==
    \A i \in 1..Len(iss) :
        /\ iss[i] # <<>> /\ Len(iss[i]) <= LongParts
        /\ \A j \in 1..Len(iss[i]) : iss[i][j].id = i

\* A frame of the client is HELLO, or one part of a prompt it issued.
Greets(f) == f.op = "HELLO" /\ f.chunk.id = 0 /\ f.k = 1
Carried(f, iss) ==
    /\ f.chunk.id \in 1..Len(iss)
    /\ f.k \in 1..Len(iss[f.chunk.id]) /\ f.n = Len(iss[f.chunk.id])
    /\ f.chunk = iss[f.chunk.id][f.k]
    /\ f.op = IF f.n = 1 THEN "MSG" ELSE "MSGP"
Piece(f, iss) == f.fault = "none" /\ (Greets(f) \/ Carried(f, iss))

\* g may be written right after f: it has the next number, and begins a prompt
\* or is the next part of the same one.
Then(f, g) ==
    /\ g.seq = After(f.seq)
    /\ g.k = 1 \/ (g.chunk.id = f.chunk.id /\ g.k = f.k + 1)

Ahead(f, g) == f.chunk.id < g.chunk.id \/ (f.chunk.id = g.chunk.id /\ f.k < g.k)

Uploading(c) == c.parts # Nothing /\ c.partIndex < Len(c.parts)

\* f is the last frame the client wrote; n is the prompt issued last.
Before(f, c, n) ==
    /\ After(f.seq) = c.txSeq
    /\ Uploading(c) => f.chunk.id = n /\ f.k = c.partIndex

Passed(f, c, n) == c.parts # Nothing /\ f.chunk.id = n => f.k <= c.partIndex

\* Behind position i of q comes what may follow f: a frame, or the client's next.
Linked(f, q, i, c, n) ==
    /\ \A j \in (i + 1)..Len(q) :
           IsFrame(q[j]) => Then(f, q[j]) \/ \E m \in (i + 1)..(j - 1) : IsFrame(q[m])
    /\ Before(f, c, n) \/ \E j \in (i + 1)..Len(q) : IsFrame(q[j])

\* The frames on the way to the host, in the order of the prompts and parts.
Queued(q, c, iss, last) ==
    \A i \in 1..Len(q) : IsFrame(q[i]) =>
        /\ Piece(q[i], iss)
        /\ q[i].op = "HELLO" \/ last < q[i].chunk.id
        /\ Passed(q[i], c, Len(iss))
        /\ Linked(q[i], q, i, c, Len(iss))
        /\ \A j \in (i + 1)..Len(q) : IsFrame(q[j]) => Ahead(q[i], q[j])

\* The frame of the part the host stored last.
Stored(s) == [seq |-> s.lastRx, chunk |-> s.parts[Len(s.parts)], k |-> Len(s.parts)]

\* The parts stored are the front of a prompt that has not run, and the frame that
\* follows them is the next one on the way.  The handler is idle until then.
Holding(s, q, c, iss, last) ==
    /\ s.pc = "idle" /\ s.hello
    /\ s.parts[1].id \in 1..Len(iss) /\ last < s.parts[1].id
    /\ Len(s.parts) < s.total /\ s.total = Len(iss[s.parts[1].id])
    /\ \A i \in 1..Len(s.parts) : s.parts[i] = iss[s.parts[1].id][i]
    /\ Linked(Stored(s), q, 0, c, Len(iss))

\* What the client is uploading, or waits to send, is the prompt issued last.
Pacing(c, iss, last) ==
    /\ last <= Len(iss)
    /\ c.parts # Nothing =>
           /\ c.pc = "up" /\ Len(iss) > 0 /\ c.parts = iss[Len(iss)]
           /\ c.partIndex \in 1..Len(c.parts)
    /\ Uploading(c) => last < Len(iss)
    /\ c.pending # Nothing =>
           Len(iss) > 0 /\ c.pending = iss[Len(iss)] /\ last < Len(iss)
    /\ c.pc # "up" => ~c.inFlight /\ c.draft = NoSeq

\* Before its first READY the client has sent nothing but HELLO, and only then
\* can a prompt be waiting.
Greeting ==
    /\ ~srv.hello => srv.pc \in {"idle", "closed"} /\ sent = <<>>
    /\ srv.hello /\ sent = <<>> =>
           \/ srv.pc = "closed"
           \/ srv.pc = "send" /\ srv.tries = 0 /\ srv.todo[1].op = "READY"
    /\ sent # <<>> => sent[1].op = "READY"
    /\ \A i \in 1..Len(toServer) : IsFrame(toServer[i]) =>
           /\ toServer[i].op = "HELLO" => ~srv.hello
           /\ got = <<>> => toServer[i].op = "HELLO"
    /\ got = <<>> =>
           /\ ~cli.ready /\ ~cli.inFlight /\ cli.draft = NoSeq /\ cli.parts = Nothing
           /\ \A i \in 1..Len(toClient) : toClient[i].kind # "NAK"
    /\ got # <<>> => cli.pending = Nothing

\* What runs has run as issued, what is on the way to run next is whole, and the
\* parts the host holds are the front of it.
Whole ==
    /\ RunsAsIssued /\ Issues(issued)
    /\ \A i \in DOMAIN ran : ran[i][1].id \in 1..Len(issued)
    /\ Pacing(cli, issued, LastRan(ran))
    /\ Queued(toServer, cli, issued, LastRan(ran))
    /\ cli.pc = "up" /\ srv.parts # <<>> =>
           Holding(srv, toServer, cli, issued, LastRan(ran))

\* The inductive invariant of RunsAsIssued.
PromptInv == Whole /\ (cli.pc = "up" => Greeting)

\* The parts the client has still to write.
Left(c) == IF c.parts = Nothing THEN 0 ELSE Len(c.parts) - c.partIndex

\* With enough sequence numbers for every frame of a connection, they tell the
\* frames apart: those the host has accepted from those on the way.
Counted(q, c, n, lastRx) ==
    \A i \in 1..Len(q) : IsFrame(q[i]) =>
        /\ q[i].seq < c.txSeq
        /\ lastRx # NoSeq => lastRx < q[i].seq
        /\ \A j \in (i + 1)..Len(q) : IsFrame(q[j]) => q[i].seq < q[j].seq
        /\ c.draft = q[i].seq =>
               /\ q[i].chunk.id = n
               /\ q[i].k = IF c.parts = Nothing THEN q[i].n ELSE c.partIndex

\* What the host has acknowledged it has accepted.
Heeded(q, lastRx) ==
    \A i \in 1..Len(q) : q[i].kind = "ACK" => lastRx # NoSeq /\ q[i].seq <= lastRx

\* The draft is the number written last; once the host has taken it, and nothing is
\* left to upload, the prompt issued last has run.
Numbering ==
    /\ cli.txSeq + Left(cli) + Len(cli.pending) <= LongParts * Len(issued) + 1
    /\ Counted(toServer, cli, Len(issued), srv.lastRx)
    /\ Heeded(toClient, srv.lastRx)
    /\ srv.lastRx # NoSeq => srv.lastRx < cli.txSeq
    /\ cli.draft # NoSeq => cli.draft + 1 = cli.txSeq
    /\ cli.draft # NoSeq /\ srv.lastRx = cli.draft /\ ~Uploading(cli) =>
           LastRan(ran) = Len(issued)
    /\ cli.inFlight => Len(issued) > 0
    /\ cli.inFlight /\ cli.draft = NoSeq => LastRan(ran) = Len(issued)

\* A connection carries HELLO and at most LongParts frames of each prompt: it does
\* not come round to a sequence number it has used.
NumbersSuffice == LongParts * MaxPrompts + 1 < SeqSpace

\* What PromptsRunWhole needs besides PromptInv.
CountInv == Len(issued) <= MaxPrompts /\ (cli.pc = "up" => Numbering)

-----------------------------------------------------------------------------
(* The queue of frames: reading its head, writing behind its end.          *)

LEMMA TailFacts ==
  ASSUME NEW S, NEW q \in Seq(S), q # <<>>
  PROVE  /\ Len(q) \in Nat /\ Len(q) > 0 /\ Len(Tail(q)) = Len(q) - 1
         /\ Head(q) = q[1] /\ Tail(q) \in Seq(S) /\ q[1] \in S
         /\ \A i \in 1..Len(Tail(q)) : Tail(q)[i] = q[i + 1]
<1>1. Len(q) \in Nat /\ Len(q) # 0 BY LenProperties, EmptySeq
<1>2. q[1] \in S BY <1>1, ElementOfSeq
<1> QED BY <1>1, <1>2, HeadTailProperties

\* One line fewer before the rest of the queue.
LEMMA LinkedTail ==
  ASSUME NEW S, NEW q \in Seq(S), q # <<>>, NEW f, NEW i \in Nat, NEW c, NEW n,
         Linked(f, q, i + 1, c, n)
  PROVE  Linked(f, Tail(q), i, c, n)
<1> DEFINE t == Tail(q)
<1>1. /\ Len(q) \in Nat /\ Len(t) = Len(q) - 1
      /\ \A j \in 1..Len(t) : t[j] = q[j + 1]
  BY TailFacts
<1> HIDE DEF t
<1>2. ASSUME NEW j \in (i + 1)..Len(t), IsFrame(t[j])
      PROVE  Then(f, t[j]) \/ \E m \in (i + 1)..(j - 1) : IsFrame(t[m])
  <2>1. j \in 1..Len(t) /\ t[j] = q[j + 1] /\ j + 1 \in (i + 2)..Len(q) BY <1>1
  <2>2. Then(f, q[j + 1]) \/ \E m \in (i + 2)..j : IsFrame(q[m])
    <3>1. (j + 1) - 1 = j /\ (i + 1) + 1 = i + 2 BY <2>1
    <3> QED BY <1>2, <2>1, <3>1 DEF Linked
  <2>3. ASSUME NEW m \in (i + 2)..j, IsFrame(q[m])
        PROVE  m - 1 \in (i + 1)..(j - 1) /\ IsFrame(t[m - 1])
    <3>1. m - 1 \in (i + 1)..(j - 1) /\ m - 1 \in 1..Len(t) /\ (m - 1) + 1 = m
      BY <1>1, <2>1
    <3> QED BY <1>1, <2>3, <3>1
  <2> QED BY <2>1, <2>2, <2>3
<1>3. Before(f, c, n) \/ \E j \in (i + 1)..Len(t) : IsFrame(t[j])
  <2>1. Before(f, c, n) \/ \E j \in (i + 2)..Len(q) : IsFrame(q[j])
    <3>1. (i + 1) + 1 = i + 2 OBVIOUS
    <3> QED BY <3>1 DEF Linked
  <2>2. ASSUME NEW j \in (i + 2)..Len(q), IsFrame(q[j])
        PROVE  j - 1 \in (i + 1)..Len(t) /\ IsFrame(t[j - 1])
    <3>1. j - 1 \in (i + 1)..Len(t) /\ j - 1 \in 1..Len(t) /\ (j - 1) + 1 = j
      BY <1>1
    <3> QED BY <1>1, <2>2, <3>1
  <2> QED BY <2>1, <2>2
<1>4. Linked(f, t, i, c, n) BY <1>2, <1>3 DEF Linked
<1> QED BY <1>4 DEF t

\* A line that is not a frame does not count.
LEMMA LinkedSkip ==
  ASSUME NEW q, Len(q) \in Nat, NEW f, NEW i \in Nat, NEW c, NEW n,
         Linked(f, q, i, c, n), ~IsFrame(q[i + 1])
  PROVE  Linked(f, q, i + 1, c, n)
<1>1. ASSUME NEW j \in ((i + 1) + 1)..Len(q), IsFrame(q[j])
      PROVE  Then(f, q[j]) \/ \E m \in ((i + 1) + 1)..(j - 1) : IsFrame(q[m])
  <2>1. j \in (i + 1)..Len(q) OBVIOUS
  <2>2. Then(f, q[j]) \/ \E m \in (i + 1)..(j - 1) : IsFrame(q[m])
    BY <1>1, <2>1 DEF Linked
  <2>3. ASSUME NEW m \in (i + 1)..(j - 1), IsFrame(q[m])
        PROVE  m \in ((i + 1) + 1)..(j - 1)
    <3>1. m # i + 1 BY <2>3
    <3> QED BY <3>1
  <2> QED BY <2>2, <2>3
<1>2. Before(f, c, n) \/ \E j \in ((i + 1) + 1)..Len(q) : IsFrame(q[j])
  <2>1. ASSUME NEW j \in (i + 1)..Len(q), IsFrame(q[j]) PROVE j \in ((i + 1) + 1)..Len(q)
    <3>1. j # i + 1 BY <2>1
    <3> QED BY <3>1
  <2> QED BY <2>1 DEF Linked
<1> QED BY <1>1, <1>2 DEF Linked

\* The client changes its mind, but not what it writes next.
LEMMA LinkedClient ==
  ASSUME NEW q, NEW f, NEW i, NEW c, NEW n, Linked(f, q, i, c, n),
         NEW d, NEW m, Before(f, c, n) => Before(f, d, m)
  PROVE  Linked(f, q, i, d, m)
BY DEF Linked

\* An answer behind the frames.
LEMMA LinkedAnswer ==
  ASSUME NEW S, NEW q \in Seq(S), NEW a \in S, ~IsFrame(a), NEW f, NEW i \in 0..Len(q),
         NEW c, NEW n, Linked(f, q, i, c, n)
  PROVE  Linked(f, Append(q, a), i, c, n)
<1> DEFINE r == Append(q, a)
<1>1. /\ Len(q) \in Nat /\ Len(r) = Len(q) + 1 /\ r[Len(q) + 1] = a
      /\ \A j \in 1..Len(q) : r[j] = q[j]
  BY AppendFacts
<1> HIDE DEF r
<1>2. ASSUME NEW j \in (i + 1)..Len(r), IsFrame(r[j])
      PROVE  Then(f, r[j]) \/ \E m \in (i + 1)..(j - 1) : IsFrame(r[m])
  <2>1. j # Len(q) + 1 BY <1>1, <1>2
  <2>2. j \in (i + 1)..Len(q) /\ j \in 1..Len(q) BY <1>1, <2>1
  <2>3. r[j] = q[j] BY <1>1, <2>2
  <2>4. Then(f, q[j]) \/ \E m \in (i + 1)..(j - 1) : IsFrame(q[m])
    BY <1>2, <2>2, <2>3 DEF Linked
  <2>5. \A m \in (i + 1)..(j - 1) : r[m] = q[m] BY <1>1, <2>2
  <2> QED BY <2>3, <2>4, <2>5
<1>3. Before(f, c, n) \/ \E j \in (i + 1)..Len(r) : IsFrame(r[j])
  <2>1. ASSUME NEW j \in (i + 1)..Len(q), IsFrame(q[j])
        PROVE  j \in (i + 1)..Len(r) /\ IsFrame(r[j])
    <3>1. j \in 1..Len(q) /\ j \in (i + 1)..Len(r) BY <1>1
    <3> QED BY <1>1, <2>1, <3>1
  <2> QED BY <2>1 DEF Linked
<1>4. Linked(f, r, i, c, n) BY <1>2, <1>3 DEF Linked
<1> QED BY <1>4 DEF r

\* The client's next frame behind the others.
LEMMA LinkedFrame ==
  ASSUME NEW S, NEW q \in Seq(S), NEW g \in S, IsFrame(g), NEW f, NEW i \in 0..Len(q),
         NEW c, NEW n, Linked(f, q, i, c, n), Before(f, c, n) => Then(f, g),
         NEW d, NEW m
  PROVE  Linked(f, Append(q, g), i, d, m)
<1> DEFINE r == Append(q, g)
<1>1. /\ Len(q) \in Nat /\ Len(r) = Len(q) + 1 /\ r[Len(q) + 1] = g
      /\ \A j \in 1..Len(q) : r[j] = q[j]
  BY AppendFacts
<1> HIDE DEF r
<1>2. ASSUME NEW j \in (i + 1)..Len(r), IsFrame(r[j])
      PROVE  Then(f, r[j]) \/ \E k \in (i + 1)..(j - 1) : IsFrame(r[k])
  <2>1. CASE j = Len(q) + 1
    <3>1. Then(f, g) \/ \E k \in (i + 1)..Len(q) : IsFrame(q[k]) BY DEF Linked
    <3>2. \A k \in (i + 1)..Len(q) : r[k] = q[k] BY <1>1
    <3>3. j - 1 = Len(q) BY <1>1, <2>1
    <3> QED BY <1>1, <2>1, <3>1, <3>2, <3>3
  <2>2. CASE j # Len(q) + 1
    <3>1. j \in (i + 1)..Len(q) /\ j \in 1..Len(q) BY <1>1, <2>2
    <3>2. r[j] = q[j] BY <1>1, <3>1
    <3>3. Then(f, q[j]) \/ \E k \in (i + 1)..(j - 1) : IsFrame(q[k])
      BY <1>2, <3>1, <3>2 DEF Linked
    <3>4. \A k \in (i + 1)..(j - 1) : r[k] = q[k] BY <1>1, <3>1
    <3> QED BY <3>2, <3>3, <3>4
  <2> QED BY <2>1, <2>2
<1>3. \E j \in (i + 1)..Len(r) : IsFrame(r[j])
  <2>1. Len(r) \in (i + 1)..Len(r) /\ r[Len(r)] = g BY <1>1
  <2> QED BY <2>1
<1>4. Linked(f, r, i, d, m) BY <1>2, <1>3 DEF Linked
<1> QED BY <1>4 DEF r

\* The last frame of the queue.
LEMMA LinkedLast ==
  ASSUME NEW q, Len(q) \in Nat, NEW g, NEW c, NEW n, Before(g, c, n)
  PROVE  Linked(g, q, Len(q), c, n)
<1>1. (Len(q) + 1)..Len(q) = {} OBVIOUS
<1> QED BY <1>1 DEF Linked

\* Reading the head.
LEMMA QueuedTail ==
  ASSUME NEW S, NEW q \in Seq(S), q # <<>>, NEW c, NEW iss, NEW last, Queued(q, c, iss, last)
  PROVE  Queued(Tail(q), c, iss, last)
<1> DEFINE t == Tail(q)
<1>1. /\ Len(q) \in Nat /\ Len(t) = Len(q) - 1
      /\ \A j \in 1..Len(t) : t[j] = q[j + 1]
  BY TailFacts
<1>2. ASSUME NEW i \in 1..Len(t), IsFrame(t[i])
      PROVE  /\ Piece(t[i], iss)
             /\ t[i].op = "HELLO" \/ last < t[i].chunk.id
             /\ Passed(t[i], c, Len(iss))
             /\ Linked(t[i], t, i, c, Len(iss))
             /\ \A j \in (i + 1)..Len(t) : IsFrame(t[j]) => Ahead(t[i], t[j])
  <2>1. i + 1 \in 1..Len(q) /\ t[i] = q[i + 1] /\ i \in Nat BY <1>1
  <2>2. /\ Piece(q[i + 1], iss)
        /\ q[i + 1].op = "HELLO" \/ last < q[i + 1].chunk.id
        /\ Passed(q[i + 1], c, Len(iss))
        /\ Linked(q[i + 1], q, i + 1, c, Len(iss))
        /\ \A j \in ((i + 1) + 1)..Len(q) : IsFrame(q[j]) => Ahead(q[i + 1], q[j])
    BY <1>2, <2>1 DEF Queued
  <2>3. Linked(q[i + 1], t, i, c, Len(iss)) BY <2>1, <2>2, LinkedTail
  <2>4. ASSUME NEW j \in (i + 1)..Len(t), IsFrame(t[j]) PROVE Ahead(t[i], t[j])
    <3>1. j \in 1..Len(t) /\ t[j] = q[j + 1] /\ j + 1 \in ((i + 1) + 1)..Len(q) BY <1>1
    <3> QED BY <2>1, <2>2, <2>4, <3>1
  <2> HIDE DEF t
  <2> QED BY <2>1, <2>2, <2>3, <2>4
<1> HIDE DEF t
<1>3. Queued(t, c, iss, last) BY <1>2 DEF Queued
<1> QED BY <1>3 DEF t

\* What the head says of the rest.
LEMMA QueuedHead ==
  ASSUME NEW S, NEW q \in Seq(S), q # <<>>, NEW c, NEW iss, NEW last,
         Queued(q, c, iss, last), IsFrame(q[1])
  PROVE  /\ Piece(q[1], iss)
         /\ q[1].op = "HELLO" \/ last < q[1].chunk.id
         /\ Passed(q[1], c, Len(iss))
         /\ Linked(q[1], Tail(q), 0, c, Len(iss))
         /\ \A j \in 1..Len(Tail(q)) : IsFrame(Tail(q)[j]) => Ahead(q[1], Tail(q)[j])
<1> DEFINE t == Tail(q)
<1>1. /\ Len(q) \in Nat /\ Len(q) > 0 /\ Len(t) = Len(q) - 1
      /\ \A j \in 1..Len(t) : t[j] = q[j + 1]
  BY TailFacts
<1>2. 1 \in 1..Len(q) BY <1>1
<1>3. /\ Piece(q[1], iss)
      /\ q[1].op = "HELLO" \/ last < q[1].chunk.id
      /\ Passed(q[1], c, Len(iss))
      /\ Linked(q[1], q, 1, c, Len(iss))
      /\ \A j \in (1 + 1)..Len(q) : IsFrame(q[j]) => Ahead(q[1], q[j])
  BY <1>2 DEF Queued
<1>4. Linked(q[1], q, 0 + 1, c, Len(iss)) BY <1>3
<1>5. Linked(q[1], t, 0, c, Len(iss)) BY <1>4, LinkedTail
<1>6. ASSUME NEW j \in 1..Len(t), IsFrame(t[j]) PROVE Ahead(q[1], t[j])
  <2>1. t[j] = q[j + 1] /\ j + 1 \in (1 + 1)..Len(q) BY <1>1
  <2> QED BY <1>3, <1>6, <2>1
<1> QED BY <1>3, <1>5, <1>6

\* An answer of the client behind the frames.
LEMMA QueuedAnswer ==
  ASSUME NEW S, NEW q \in Seq(S), NEW a \in S, ~IsFrame(a), NEW c, NEW iss, NEW last,
         Queued(q, c, iss, last)
  PROVE  Queued(Append(q, a), c, iss, last)
<1> DEFINE r == Append(q, a)
<1>1. /\ Len(q) \in Nat /\ Len(r) = Len(q) + 1 /\ r[Len(q) + 1] = a
      /\ \A j \in 1..Len(q) : r[j] = q[j]
  BY AppendFacts
<1>2. ASSUME NEW i \in 1..Len(r), IsFrame(r[i])
      PROVE  /\ Piece(r[i], iss)
             /\ r[i].op = "HELLO" \/ last < r[i].chunk.id
             /\ Passed(r[i], c, Len(iss))
             /\ Linked(r[i], r, i, c, Len(iss))
             /\ \A j \in (i + 1)..Len(r) : IsFrame(r[j]) => Ahead(r[i], r[j])
  <2> HIDE DEF r
  <2>1. i # Len(q) + 1 BY <1>1, <1>2
  <2>2. i \in 1..Len(q) /\ i \in 0..Len(q) BY <1>1, <2>1
  <2>3. r[i] = q[i] BY <1>1, <2>2
  <2>4. /\ Piece(q[i], iss)
        /\ q[i].op = "HELLO" \/ last < q[i].chunk.id
        /\ Passed(q[i], c, Len(iss))
        /\ Linked(q[i], q, i, c, Len(iss))
        /\ \A j \in (i + 1)..Len(q) : IsFrame(q[j]) => Ahead(q[i], q[j])
    BY <1>2, <2>2, <2>3 DEF Queued
  <2>5. Linked(q[i], r, i, c, Len(iss)) BY <2>2, <2>4, LinkedAnswer DEF r
  <2>6. ASSUME NEW j \in (i + 1)..Len(r), IsFrame(r[j]) PROVE Ahead(r[i], r[j])
    <3>1. j # Len(q) + 1 BY <1>1, <2>6
    <3>2. j \in (i + 1)..Len(q) /\ j \in 1..Len(q) BY <1>1, <2>2, <3>1
    <3>3. r[j] = q[j] BY <1>1, <3>2
    <3> QED BY <2>3, <2>4, <2>6, <3>2, <3>3
  <2> QED BY <2>3, <2>4, <2>5, <2>6
<1> HIDE DEF r
<1>3. Queued(r, c, iss, last) BY <1>2 DEF Queued
<1> QED BY <1>3 DEF r

\* The client's next frame goes behind them all; d is the client after that, and
\* more the prompts issued by then.
LEMMA QueuedFrame ==
  ASSUME NEW S, NEW q \in Seq(S), NEW g \in S, IsFrame(g), NEW c, NEW iss, NEW last,
         Queued(q, c, iss, last), NEW d, NEW more,
         Piece(g, more), g.op = "HELLO" \/ last < g.chunk.id,
         Passed(g, d, Len(more)), Before(g, d, Len(more)),
         \A i \in 1..Len(q) : IsFrame(q[i]) =>
             /\ Piece(q[i], iss) => Piece(q[i], more)
             /\ Piece(q[i], iss) /\ Passed(q[i], c, Len(iss)) =>
                    Passed(q[i], d, Len(more)) /\ Ahead(q[i], g)
             /\ Piece(q[i], iss) /\ Before(q[i], c, Len(iss)) => Then(q[i], g)
  PROVE  Queued(Append(q, g), d, more, last)
<1> DEFINE r == Append(q, g)
<1>1. /\ Len(q) \in Nat /\ Len(r) = Len(q) + 1 /\ r[Len(q) + 1] = g
      /\ \A j \in 1..Len(q) : r[j] = q[j]
  BY AppendFacts
<1>2. ASSUME NEW i \in 1..Len(r), IsFrame(r[i])
      PROVE  /\ Piece(r[i], more)
             /\ r[i].op = "HELLO" \/ last < r[i].chunk.id
             /\ Passed(r[i], d, Len(more))
             /\ Linked(r[i], r, i, d, Len(more))
             /\ \A j \in (i + 1)..Len(r) : IsFrame(r[j]) => Ahead(r[i], r[j])
  <2> HIDE DEF r
  <2>1. CASE i = Len(q) + 1
    <3>1. r[i] = g /\ i = Len(r) /\ Len(r) \in Nat BY <1>1, <2>1
    <3>2. Linked(g, r, Len(r), d, Len(more)) BY <3>1, LinkedLast
    <3>3. (i + 1)..Len(r) = {} BY <3>1
    <3> QED BY <3>1, <3>2, <3>3
  <2>2. CASE i # Len(q) + 1
    <3>1. i \in 1..Len(q) /\ i \in 0..Len(q) BY <1>1, <2>2
    <3>2. r[i] = q[i] BY <1>1, <3>1
    <3>3. /\ Piece(q[i], iss)
          /\ q[i].op = "HELLO" \/ last < q[i].chunk.id
          /\ Passed(q[i], c, Len(iss))
          /\ Linked(q[i], q, i, c, Len(iss))
          /\ \A j \in (i + 1)..Len(q) : IsFrame(q[j]) => Ahead(q[i], q[j])
      BY <1>2, <3>1, <3>2 DEF Queued
    <3>4. Linked(q[i], r, i, d, Len(more))
      <4>1. Before(q[i], c, Len(iss)) => Then(q[i], g) BY <1>2, <3>1, <3>2, <3>3
      <4> QED BY <3>1, <3>3, <4>1, LinkedFrame DEF r
    <3>5. ASSUME NEW j \in (i + 1)..Len(r), IsFrame(r[j]) PROVE Ahead(r[i], r[j])
      <4>1. CASE j = Len(q) + 1
        BY <1>1, <1>2, <3>1, <3>2, <3>3, <4>1
      <4>2. CASE j # Len(q) + 1
        <5>1. j \in (i + 1)..Len(q) /\ j \in 1..Len(q) BY <1>1, <3>1, <4>2
        <5>2. r[j] = q[j] BY <1>1, <5>1
        <5> QED BY <3>2, <3>3, <3>5, <5>1, <5>2
      <4> QED BY <4>1, <4>2
    <3> QED BY <1>2, <3>1, <3>2, <3>3, <3>4, <3>5
  <2> QED BY <2>1, <2>2
<1> HIDE DEF r
<1>3. Queued(r, d, more, last) BY <1>2 DEF Queued
<1> QED BY <1>3 DEF r

\* The client gives something up, or the host runs a prompt.
LEMMA QueuedStays ==
  ASSUME NEW q, NEW c, NEW iss, NEW last, Queued(q, c, iss, last), NEW d, NEW next,
         \A f : /\ Passed(f, c, Len(iss)) => Passed(f, d, Len(iss))
                /\ Before(f, c, Len(iss)) => Before(f, d, Len(iss)),
         \A i \in 1..Len(q) : IsFrame(q[i]) => q[i].op = "HELLO" \/ next < q[i].chunk.id
  PROVE  Queued(q, d, iss, next)
<1>1. ASSUME NEW i \in 1..Len(q), IsFrame(q[i])
      PROVE  /\ Piece(q[i], iss)
             /\ q[i].op = "HELLO" \/ next < q[i].chunk.id
             /\ Passed(q[i], d, Len(iss))
             /\ Linked(q[i], q, i, d, Len(iss))
             /\ \A j \in (i + 1)..Len(q) : IsFrame(q[j]) => Ahead(q[i], q[j])
  <2>1. /\ Piece(q[i], iss)
        /\ Passed(q[i], c, Len(iss))
        /\ Linked(q[i], q, i, c, Len(iss))
        /\ \A j \in (i + 1)..Len(q) : IsFrame(q[j]) => Ahead(q[i], q[j])
    BY <1>1 DEF Queued
  <2>2. Linked(q[i], q, i, d, Len(iss)) BY <2>1, LinkedClient
  <2> QED BY <1>1, <2>1, <2>2
<1> QED BY <1>1 DEF Queued

-----------------------------------------------------------------------------
(* The sequence numbers on the way, while they last.                       *)

Wired == Answers \union Frames

LEMMA WiredFrame ==
  ASSUME NEW q \in Seq(Wired), NEW i \in 1..Len(q), IsFrame(q[i])
  PROVE  q[i] \in Frames /\ q[i].seq \in Nat
<1>1. q[i] \in Wired BY ElementOfSeq
<1>2. q[i] \in Frames BY <1>1 DEF Wired, IsFrame, Answers
<1> QED BY <1>2, FrameFields

LEMMA CountedTail ==
  ASSUME NEW q \in Seq(Wired), q # <<>>, NEW c, NEW n, NEW lastRx, Counted(q, c, n, lastRx)
  PROVE  /\ Counted(Tail(q), c, n, lastRx)
         /\ IsFrame(q[1]) => Counted(Tail(q), c, n, q[1].seq)
<1> DEFINE t == Tail(q)
<1>1. /\ Len(q) \in Nat /\ Len(q) > 0 /\ Len(t) = Len(q) - 1
      /\ \A j \in 1..Len(t) : t[j] = q[j + 1]
  BY TailFacts
<1> HIDE DEF t
<1>2. ASSUME NEW i \in 1..Len(t), IsFrame(t[i])
      PROVE  /\ t[i].seq < c.txSeq
             /\ lastRx # NoSeq => lastRx < t[i].seq
             /\ \A j \in (i + 1)..Len(t) : IsFrame(t[j]) => t[i].seq < t[j].seq
             /\ c.draft = t[i].seq =>
                    /\ t[i].chunk.id = n
                    /\ t[i].k = IF c.parts = Nothing THEN t[i].n ELSE c.partIndex
             /\ IsFrame(q[1]) => q[1].seq < t[i].seq
  <2>1. i + 1 \in 1..Len(q) /\ t[i] = q[i + 1] BY <1>1
  <2>2. /\ q[i + 1].seq < c.txSeq
        /\ lastRx # NoSeq => lastRx < q[i + 1].seq
        /\ \A j \in ((i + 1) + 1)..Len(q) : IsFrame(q[j]) => q[i + 1].seq < q[j].seq
        /\ c.draft = q[i + 1].seq =>
               /\ q[i + 1].chunk.id = n
               /\ q[i + 1].k = IF c.parts = Nothing THEN q[i + 1].n ELSE c.partIndex
    BY <1>2, <2>1 DEF Counted
  <2>3. ASSUME NEW j \in (i + 1)..Len(t), IsFrame(t[j]) PROVE t[i].seq < t[j].seq
    <3>1. j \in 1..Len(t) /\ t[j] = q[j + 1] /\ j + 1 \in ((i + 1) + 1)..Len(q) BY <1>1
    <3> QED BY <2>1, <2>2, <2>3, <3>1
  <2>4. ASSUME IsFrame(q[1]) PROVE q[1].seq < t[i].seq
    <3>1. 1 \in 1..Len(q) /\ i + 1 \in (1 + 1)..Len(q) BY <1>1
    <3>2. \A j \in (1 + 1)..Len(q) : IsFrame(q[j]) => q[1].seq < q[j].seq
      BY <2>4, <3>1 DEF Counted
    <3> QED BY <1>2, <2>1, <3>1, <3>2
  <2> QED BY <2>1, <2>2, <2>3, <2>4
<1>3. Counted(t, c, n, lastRx) BY <1>2 DEF Counted
<1>4. IsFrame(q[1]) => Counted(t, c, n, q[1].seq) BY <1>2 DEF Counted
<1> QED BY <1>3, <1>4 DEF t

LEMMA CountedHead ==
  ASSUME NEW q \in Seq(Wired), q # <<>>, NEW c, NEW n, NEW lastRx, Counted(q, c, n, lastRx),
         IsFrame(q[1])
  PROVE  /\ q[1].seq < c.txSeq
         /\ lastRx # NoSeq => lastRx < q[1].seq
         /\ c.draft = q[1].seq =>
                /\ q[1].chunk.id = n
                /\ q[1].k = IF c.parts = Nothing THEN q[1].n ELSE c.partIndex
<1>1. 1 \in 1..Len(q) BY TailFacts
<1> QED BY <1>1 DEF Counted

LEMMA CountedAnswer ==
  ASSUME NEW q \in Seq(Wired), NEW a \in Wired, ~IsFrame(a), NEW c, NEW n, NEW lastRx,
         Counted(q, c, n, lastRx)
  PROVE  Counted(Append(q, a), c, n, lastRx)
<1> DEFINE r == Append(q, a)
<1>1. /\ Len(q) \in Nat /\ Len(r) = Len(q) + 1 /\ r[Len(q) + 1] = a
      /\ \A j \in 1..Len(q) : r[j] = q[j]
  BY AppendFacts
<1> HIDE DEF r
<1>2. ASSUME NEW i \in 1..Len(r), IsFrame(r[i])
      PROVE  /\ r[i].seq < c.txSeq
             /\ lastRx # NoSeq => lastRx < r[i].seq
             /\ \A j \in (i + 1)..Len(r) : IsFrame(r[j]) => r[i].seq < r[j].seq
             /\ c.draft = r[i].seq =>
                    /\ r[i].chunk.id = n
                    /\ r[i].k = IF c.parts = Nothing THEN r[i].n ELSE c.partIndex
  <2>1. i # Len(q) + 1 BY <1>1, <1>2
  <2>2. i \in 1..Len(q) /\ r[i] = q[i] BY <1>1, <2>1
  <2>3. /\ q[i].seq < c.txSeq
        /\ lastRx # NoSeq => lastRx < q[i].seq
        /\ \A j \in (i + 1)..Len(q) : IsFrame(q[j]) => q[i].seq < q[j].seq
        /\ c.draft = q[i].seq =>
               /\ q[i].chunk.id = n
               /\ q[i].k = IF c.parts = Nothing THEN q[i].n ELSE c.partIndex
    BY <1>2, <2>2 DEF Counted
  <2>4. ASSUME NEW j \in (i + 1)..Len(r), IsFrame(r[j]) PROVE r[i].seq < r[j].seq
    <3>1. j # Len(q) + 1 BY <1>1, <2>4
    <3>2. j \in (i + 1)..Len(q) /\ j \in 1..Len(q) BY <1>1, <2>2, <3>1
    <3>3. r[j] = q[j] BY <1>1, <3>2
    <3> QED BY <2>2, <2>3, <2>4, <3>2, <3>3
  <2> QED BY <2>2, <2>3, <2>4
<1>3. Counted(r, c, n, lastRx) BY <1>2 DEF Counted
<1> QED BY <1>3 DEF r

\* The client's next frame has the next number, and is the draft.
LEMMA CountedFrame ==
  ASSUME NEW q \in Seq(Wired), NEW g \in Frames, NEW c, NEW n, NEW lastRx \in Nat,
         Counted(q, c, n, lastRx), c.txSeq \in Nat, g.seq = c.txSeq,
         lastRx # NoSeq => lastRx < c.txSeq,
         NEW d, NEW m, d.txSeq = c.txSeq + 1, d.draft = c.txSeq, g.chunk.id = m,
         g.k = IF d.parts = Nothing THEN g.n ELSE d.partIndex
  PROVE  Counted(Append(q, g), d, m, lastRx)
<1> DEFINE r == Append(q, g)
<1>0. g \in Wired BY DEF Wired
<1>1. /\ Len(q) \in Nat /\ Len(r) = Len(q) + 1 /\ r[Len(q) + 1] = g
      /\ \A j \in 1..Len(q) : r[j] = q[j]
  BY <1>0, AppendFacts
<1> HIDE DEF r
<1>2. ASSUME NEW i \in 1..Len(r), IsFrame(r[i])
      PROVE  /\ r[i].seq < d.txSeq
             /\ lastRx # NoSeq => lastRx < r[i].seq
             /\ \A j \in (i + 1)..Len(r) : IsFrame(r[j]) => r[i].seq < r[j].seq
             /\ d.draft = r[i].seq =>
                    /\ r[i].chunk.id = m
                    /\ r[i].k = IF d.parts = Nothing THEN r[i].n ELSE d.partIndex
  <2>1. CASE i = Len(q) + 1
    <3>1. r[i] = g /\ (i + 1)..Len(r) = {} BY <1>1, <2>1
    <3> QED BY <3>1
  <2>2. CASE i # Len(q) + 1
    <3>1. i \in 1..Len(q) /\ r[i] = q[i] BY <1>1, <2>2
    <3>2. /\ q[i].seq < c.txSeq
          /\ lastRx # NoSeq => lastRx < q[i].seq
          /\ \A j \in (i + 1)..Len(q) : IsFrame(q[j]) => q[i].seq < q[j].seq
      BY <1>2, <3>1 DEF Counted
    <3>3. q[i].seq \in Nat BY <1>2, <3>1, WiredFrame
    <3>4. ASSUME NEW j \in (i + 1)..Len(r), IsFrame(r[j]) PROVE r[i].seq < r[j].seq
      <4>1. CASE j = Len(q) + 1 BY <1>1, <3>1, <3>2, <4>1
      <4>2. CASE j # Len(q) + 1
        <5>1. j \in (i + 1)..Len(q) /\ j \in 1..Len(q) BY <1>1, <3>1, <4>2
        <5>2. r[j] = q[j] BY <1>1, <5>1
        <5> QED BY <3>1, <3>2, <3>4, <5>1, <5>2
      <4> QED BY <4>1, <4>2
    <3>5. r[i].seq < d.txSeq /\ r[i].seq # d.draft BY <3>1, <3>2, <3>3
    <3> QED BY <3>1, <3>2, <3>4, <3>5
  <2> QED BY <2>1, <2>2
<1>3. Counted(r, d, m, lastRx) BY <1>2 DEF Counted
<1> QED BY <1>3 DEF r

LEMMA CountedStays ==
  ASSUME NEW q \in Seq(Wired), NEW c \in Clients, NEW n, NEW lastRx, Counted(q, c, n, lastRx),
         NEW d, d.txSeq = c.txSeq,
         d.draft = NoSeq \/ (d.draft = c.draft /\ d.parts = c.parts /\ d.partIndex = c.partIndex)
  PROVE  Counted(q, d, n, lastRx)
<1>1. ASSUME NEW i \in 1..Len(q), IsFrame(q[i])
      PROVE  /\ q[i].seq < d.txSeq
             /\ lastRx # NoSeq => lastRx < q[i].seq
             /\ \A j \in (i + 1)..Len(q) : IsFrame(q[j]) => q[i].seq < q[j].seq
             /\ d.draft = q[i].seq =>
                    /\ q[i].chunk.id = n
                    /\ q[i].k = IF d.parts = Nothing THEN q[i].n ELSE d.partIndex
  <2>1. /\ q[i].seq < c.txSeq
        /\ lastRx # NoSeq => lastRx < q[i].seq
        /\ \A j \in (i + 1)..Len(q) : IsFrame(q[j]) => q[i].seq < q[j].seq
        /\ c.draft = q[i].seq =>
               /\ q[i].chunk.id = n
               /\ q[i].k = IF c.parts = Nothing THEN q[i].n ELSE c.partIndex
    BY <1>1 DEF Counted
  <2>2. q[i].seq \in Nat /\ c.txSeq \in 0..(SeqSpace - 1) BY <1>1, WiredFrame DEF Clients
  <2>3. q[i].seq # NoSeq BY <2>1, <2>2, Constants DEF NoSeq
  <2> QED BY <2>1, <2>3
<1> QED BY <1>1 DEF Counted

-----------------------------------------------------------------------------
(* The client's steps and the prompts.                                     *)

LEMMA PromptFacts ==
  ASSUME TypeInv, Whole
  PROVE  /\ cli \in Clients /\ srv \in Handlers /\ toServer \in Seq(Wired)
         /\ issued \in Seq(Seq(Chunks)) /\ Len(issued) \in Nat
         /\ ran \in Seq(Seq(Chunks)) /\ LastRan(ran) \in Nat /\ LastRan(ran) <= Len(issued)
<1>1. /\ cli \in Clients /\ srv \in Handlers /\ toServer \in Seq(Wired)
      /\ issued \in Seq(Seq(Chunks)) /\ ran \in Seq(Seq(Chunks))
  BY DEF TypeInv, ServerTyped, ClientTyped, Sane, Wired
<1>2. Len(issued) \in Nat /\ LastRan(ran) <= Len(issued)
  BY <1>1, LenProperties DEF Whole, Pacing
<1>3. LastRan(ran) \in Nat
  <2>1. CASE ran = <<>> BY <2>1 DEF LastRan
  <2>2. CASE ran # <<>>
    <3>1. DOMAIN ran = 1..Len(ran) /\ Len(ran) \in 1..Len(ran)
      BY <1>1, <2>2, LenProperties, EmptySeq
    <3>2. ran[Len(ran)][1].id \in 1..Len(issued) BY <3>1 DEF Whole
    <3> QED BY <1>2, <2>2, <3>2 DEF LastRan
  <2> QED BY <2>1, <2>2
<1> QED BY <1>1, <1>2, <1>3

\* The client goes on with the prompt it uploads, or gives it up.
Settles ==
    /\ cli'.txSeq = cli.txSeq
    /\ cli'.parts = Nothing \/ (cli'.parts = cli.parts /\ cli'.partIndex = cli.partIndex)
    /\ cli'.pending \in {cli.pending, Nothing}

LEMMA SettledWhole ==
  ASSUME TypeInv, Whole, cli.pc = "up", cli'.pc = "up", Settles,
         issued' = issued, ran' = ran, srv' = srv,
         toServer' = toServer \/ \E a \in Answers : toServer' = Append(toServer, a)
  PROVE  Whole'
<1> DEFINE last == LastRan(ran)
           n == Len(issued)
<1>1. /\ cli \in Clients /\ toServer \in Seq(Wired) /\ n \in Nat /\ Len(toServer) \in Nat
  BY PromptFacts, LenProperties
<1>2. /\ RunsAsIssued /\ Issues(issued)
      /\ \A i \in DOMAIN ran : ran[i][1].id \in 1..n
      /\ Pacing(cli, issued, last) /\ Queued(toServer, cli, issued, last)
      /\ srv.parts # <<>> => Holding(srv, toServer, cli, issued, last)
  BY DEF Whole
<1>3. Uploading(cli') => Uploading(cli) /\ cli'.partIndex = cli.partIndex
  BY DEF Settles, Uploading
<1>4. ASSUME NEW f
      PROVE  /\ Passed(f, cli, n) => Passed(f, cli', n)
             /\ Before(f, cli, n) => Before(f, cli', n)
  BY <1>3 DEF Settles, Passed, Before
<1> HIDE DEF last, n
<1>5. Pacing(cli', issued, last)
  BY <1>2, <1>3 DEF Settles, Pacing
<1>6. Queued(toServer, cli', issued, last)
  <2>1. \A i \in 1..Len(toServer) : IsFrame(toServer[i]) =>
            toServer[i].op = "HELLO" \/ last < toServer[i].chunk.id
    BY <1>2 DEF Queued
  <2> QED BY <1>2, <1>4, <2>1, QueuedStays DEF n
<1>7. srv.parts # <<>> => Linked(Stored(srv), toServer, 0, cli', n)
  BY <1>2, <1>4, LinkedClient DEF Holding, n
<1>8. /\ Queued(toServer', cli', issued, last)
      /\ srv.parts # <<>> => Linked(Stored(srv), toServer', 0, cli', n)
  <2>1. CASE toServer' = toServer BY <1>6, <1>7, <2>1
  <2>2. ASSUME NEW a \in Answers, toServer' = Append(toServer, a)
        PROVE  /\ Queued(toServer', cli', issued, last)
               /\ srv.parts # <<>> => Linked(Stored(srv), toServer', 0, cli', n)
    <3>1. a \in Wired /\ ~IsFrame(a) /\ 0 \in 0..Len(toServer)
      BY <1>1 DEF Wired, IsFrame, Answers
    <3> QED BY <1>1, <1>6, <1>7, <2>2, <3>1, QueuedAnswer, LinkedAnswer
  <2> QED BY <2>1, <2>2
<1>9. srv.parts # <<>> => Holding(srv, toServer', cli', issued, last)
  BY <1>2, <1>8 DEF Holding, n
<1> QED BY <1>2, <1>5, <1>8, <1>9 DEF Whole, last, n, RunsAsIssued

\* The next part of a prompt.
LEMMA UploadedWhole ==
  ASSUME TypeInv, Whole, cli.pc = "up", cli'.pc = "up", Uploading(cli),
         cli'.parts = cli.parts, cli'.partIndex = cli.partIndex + 1,
         cli'.txSeq = After(cli.txSeq), cli'.pending = cli.pending,
         NEW c \in Clients, c.txSeq = cli.txSeq, c.parts = cli.parts,
         c.partIndex = cli.partIndex, PartFrame(c) \in Frames,
         toServer' = Append(toServer, PartFrame(c)),
         issued' = issued, ran' = ran, srv' = srv
  PROVE  Whole'
<1> DEFINE last == LastRan(ran)
           n == Len(issued)
           p == issued[n]
           g == PartFrame(c)
<1>1. /\ cli \in Clients /\ toServer \in Seq(Wired) /\ n \in Nat /\ Len(toServer) \in Nat
      /\ last \in Nat /\ last <= n
  BY PromptFacts, LenProperties
<1>2. /\ RunsAsIssued /\ Issues(issued)
      /\ \A i \in DOMAIN ran : ran[i][1].id \in 1..n
      /\ Pacing(cli, issued, last) /\ Queued(toServer, cli, issued, last)
      /\ srv.parts # <<>> => Holding(srv, toServer, cli, issued, last)
  BY DEF Whole
<1>3. /\ n > 0 /\ cli.parts = p /\ cli.parts # Nothing /\ last < n
      /\ cli.partIndex \in 1..Len(p) /\ cli.partIndex < Len(p)
      /\ Len(p) \in Nat /\ Len(p) <= LongParts /\ cli.partIndex \in Nat
  <2>1. /\ n > 0 /\ cli.parts = p /\ cli.parts # Nothing /\ last < n
        /\ cli.partIndex \in 1..Len(p) /\ cli.partIndex < Len(p)
    BY <1>2 DEF Pacing, Uploading
  <2>2. p \in Seq(Chunks) BY <1>1, <2>1, PromptFacts, ElementOfSeq
  <2>3. Len(p) \in Nat BY <2>2, LenProperties
  <2>4. Len(p) <= LongParts
    <3>1. n \in 1..Len(issued) BY <1>1, <2>1
    <3> QED BY <1>2, <3>1 DEF Issues
  <2> QED BY <2>1, <2>3, <2>4
<1>4. /\ g.seq = cli.txSeq /\ g.k = cli.partIndex + 1 /\ g.n = Len(p) /\ g.chunk = p[g.k]
      /\ g.op = "MSGP" /\ g.fault = "none" /\ IsFrame(g) /\ g.chunk.id = n
  <2>1. /\ g.seq = cli.txSeq /\ g.k = cli.partIndex + 1 /\ g.n = Len(p) /\ g.chunk = p[g.k]
        /\ g.op = "MSGP" /\ g.fault = "none" /\ IsFrame(g)
    BY <1>3 DEF PartFrame, ClientFrame, IsFrame
  <2>2. n \in 1..Len(issued) /\ g.k \in 1..Len(p) BY <1>1, <1>3, <2>1
  <2>3. p[g.k].id = n BY <1>2, <2>2 DEF Issues
  <2> HIDE DEF g
  <2> QED BY <2>1, <2>3
<1>5. g \in Wired BY DEF Wired
<1> HIDE DEF g
<1>6. Piece(g, issued)
  <2>1. Len(p) # 1 /\ g.k \in 1..Len(p) /\ n \in 1..Len(issued) BY <1>1, <1>3, <1>4
  <2> QED BY <1>4, <2>1 DEF Piece, Carried
<1>7. ASSUME NEW f, Before(f, cli, n) PROVE Then(f, g)
  BY <1>4, <1>7 DEF Before, Then
<1>8. ASSUME NEW f, Piece(f, issued), Passed(f, cli, n)
      PROVE  Passed(f, cli', n) /\ Ahead(f, g)
  <2>1. f.chunk.id \in Nat /\ f.chunk.id <= n BY <1>1, <1>8 DEF Piece, Carried, Greets
  <2>2. CASE f.chunk.id = n
    <3>1. Carried(f, issued) BY <1>3, <1>8, <2>2 DEF Piece, Greets
    <3>2. f.k \in Nat /\ f.k <= cli.partIndex
      BY <1>3, <1>8, <2>2, <3>1 DEF Carried, Passed
    <3> QED BY <1>3, <1>4, <2>2, <3>2 DEF Passed, Ahead
  <2>3. CASE f.chunk.id # n BY <1>1, <1>4, <2>1, <2>3 DEF Passed, Ahead
  <2> QED BY <2>2, <2>3
<1>9. Passed(g, cli', n) /\ Before(g, cli', n)
  BY <1>3, <1>4 DEF Passed, Before
<1>10. Pacing(cli', issued, last)
  <2>1. cli'.partIndex \in 1..Len(p) BY <1>3
  <2> QED BY <1>2, <1>3, <2>1 DEF Pacing
<1>11. Queued(toServer', cli', issued, last)
  <2>1. \A i \in 1..Len(toServer) : IsFrame(toServer[i]) =>
            /\ Piece(toServer[i], issued) /\ Passed(toServer[i], cli, Len(issued)) =>
                   Passed(toServer[i], cli', Len(issued)) /\ Ahead(toServer[i], g)
            /\ Piece(toServer[i], issued) /\ Before(toServer[i], cli, Len(issued)) => Then(toServer[i], g)
    BY <1>7, <1>8
  <2>2. toServer' = Append(toServer, g) BY DEF g
  <2>3. Queued(Append(toServer, g), cli', issued, last)
    BY <1>1, <1>2, <1>3, <1>4, <1>5, <1>6, <1>9, <2>1, QueuedFrame
  <2> QED BY <2>2, <2>3
<1>12. srv.parts # <<>> => Holding(srv, toServer', cli', issued, last)
  <2> SUFFICES ASSUME srv.parts # <<>> PROVE Holding(srv, toServer', cli', issued, last)
    OBVIOUS
  <2>1. Linked(Stored(srv), toServer, 0, cli, n) BY <1>2 DEF Holding
  <2>2. 0 \in 0..Len(toServer) /\ toServer' = Append(toServer, g) BY <1>1 DEF g
  <2>3. Linked(Stored(srv), toServer', 0, cli', n)
    BY <1>1, <1>4, <1>5, <1>7, <2>1, <2>2, LinkedFrame
  <2> QED BY <1>2, <2>3 DEF Holding
<1> QED BY <1>2, <1>10, <1>11, <1>12 DEF Whole, last, n, RunsAsIssued

\* One more prompt is issued; those before stay what they are.
LEMMA IssueMore ==
  ASSUME TypeInv, NEW n \in {1, LongParts}, NEW cmd \in BOOLEAN, Issues(issued),
         Issue(NewPrompt(n, cmd))
  PROVE  /\ Issues(issued') /\ issued' \in Seq(Seq(Chunks))
         /\ Len(issued') = Len(issued) + 1 /\ Len(issued) \in Nat
         /\ \A i \in 1..Len(issued) : issued'[i] = issued[i]
         /\ issued'[Len(issued')] = NewPrompt(n, cmd)
         /\ Len(issued') <= MaxPrompts
<1> DEFINE p == NewPrompt(n, cmd)
           id == Len(issued) + 1
<1>0. n \in Nat /\ n <= LongParts BY Constants
<1>1. p \in Seq(Chunks) /\ p # <<>> /\ Len(p) = n
  <2>1. p \in Prompts /\ p # <<>> /\ Len(p) = n BY NewPromptType
  <2> HIDE DEF p
  <2> QED BY <2>1, PromptFields
<1>2. issued \in Seq(Seq(Chunks)) BY DEF TypeInv, ClientTyped
<1>3. \A j \in 1..n : p[j].id = id BY <1>0, <1>1 DEF NewPrompt, Chunk
<1>4. issued' = Append(issued, p) BY DEF Issue
<1> HIDE DEF p
<1>5. /\ issued' \in Seq(Seq(Chunks)) /\ Len(issued') = id /\ Len(issued) \in Nat
      /\ \A i \in 1..Len(issued) : issued'[i] = issued[i]
      /\ issued'[id] = p
  BY <1>1, <1>2, <1>4, AppendFacts
<1>6. ASSUME NEW i \in 1..Len(issued')
      PROVE  /\ issued'[i] # <<>> /\ Len(issued'[i]) <= LongParts
             /\ \A j \in 1..Len(issued'[i]) : issued'[i][j].id = i
  <2>1. CASE i = id BY <1>0, <1>1, <1>3, <1>5, <2>1
  <2>2. CASE i # id
    <3>1. i \in 1..Len(issued) /\ issued'[i] = issued[i] BY <1>5, <2>2
    <3> QED BY <3>1 DEF Issues
  <2> QED BY <2>1, <2>2
<1>7. Issues(issued') BY <1>6 DEF Issues
<1>8. Len(issued') <= MaxPrompts
  <2>1. Len(issued) < MaxPrompts /\ MaxPrompts \in Nat
    BY NewtonClientAssumption DEF Issue
  <2> QED BY <1>5, <2>1
<1> QED BY <1>5, <1>7, <1>8 DEF p

LEMMA RunsMore ==
  ASSUME TypeInv, Whole, ran' = ran, Len(issued') >= Len(issued), Len(issued') \in Nat,
         \A i \in 1..Len(issued) : issued'[i] = issued[i]
  PROVE  RunsAsIssued' /\ \A i \in DOMAIN ran' : ran'[i][1].id \in 1..Len(issued')
<1>1. Len(issued) \in Nat BY PromptFacts
<1>2. \A i \in DOMAIN ran : ran[i][1].id \in 1..Len(issued) BY DEF Whole
<1>3. RunsAsIssued BY DEF Whole
<1>4. ASSUME NEW i \in DOMAIN ran
      PROVE  ran[i] = issued'[ran[i][1].id] /\ ran[i][1].id \in 1..Len(issued')
  BY <1>1, <1>2, <1>3 DEF RunsAsIssued
<1> QED BY <1>3, <1>4 DEF RunsAsIssued

\* A prompt is sent: its first frame goes, behind an answer if the client owes one.
LEMMA SubmittedWhole ==
  ASSUME TypeInv, Whole, cli.pc = "up", cli'.pc = "up",
         Issues(issued'), issued' \in Seq(Seq(Chunks)), Len(issued') >= Len(issued),
         Len(issued') > 0, LastRan(ran) < Len(issued'),
         \A i \in 1..Len(issued) : issued'[i] = issued[i],
         NEW p \in Prompts, p = issued'[Len(issued')], p # <<>>,
         NEW c \in Clients, c.txSeq = cli.txSeq, cli' = Send(c, p), cli'.pending = Nothing,
         NEW t \in Seq(Wired), Queued(t, cli, issued, LastRan(ran)),
         srv.parts # <<>> => Linked(Stored(srv), t, 0, cli, Len(issued)),
         \A i \in 1..Len(t) : IsFrame(t[i]) => t[i].chunk.id < Len(issued'),
         toServer' = Append(t, FirstFrame(c, p)), ran' = ran, srv' = srv
  PROVE  Whole'
<1> DEFINE last == LastRan(ran)
           n == Len(issued)
           m == Len(issued')
           g == FirstFrame(c, p)
<1>1. /\ n \in Nat /\ m \in Nat /\ Len(t) \in Nat /\ last \in Nat /\ m >= n /\ m > 0
  BY PromptFacts, LenProperties
<1>2. /\ Len(p) \in Nat /\ Len(p) # 0 /\ \A j \in 1..Len(p) : p[j].id = m
  <2>1. Len(p) \in Nat /\ Len(p) # 0 BY PromptFields, EmptySeq
  <2>2. m \in 1..Len(issued') BY <1>1
  <2> QED BY <2>1, <2>2 DEF Issues
<1>3. /\ cli'.txSeq = After(cli.txSeq)
      /\ Len(p) = 1 => cli'.parts = <<>> /\ cli'.partIndex = 0
      /\ Len(p) # 1 => cli'.parts = p /\ cli'.partIndex = 1
  <2> DEFINE s == Send(c, p)
  <2>1. /\ s.txSeq = After(c.txSeq)
        /\ Len(p) = 1 => s.parts = <<>> /\ s.partIndex = 0
        /\ Len(p) # 1 => s.parts = p /\ s.partIndex = 1
    BY SendType
  <2>2. cli' = s OBVIOUS
  <2> HIDE DEF s
  <2> QED BY <2>1, <2>2
<1>4. /\ g.seq = cli.txSeq /\ g.k = 1 /\ g.n = Len(p) /\ g.chunk = p[1]
      /\ g.op = (IF g.n = 1 THEN "MSG" ELSE "MSGP") /\ g.fault = "none" /\ IsFrame(g)
  BY DEF FirstFrame, ClientFrame, IsFrame
<1>5. g \in Wired BY FirstFrameType DEF Wired
<1> HIDE DEF g
<1>6. g.chunk.id = m /\ Piece(g, issued')
  <2>1. 1 \in 1..Len(p) /\ m \in 1..Len(issued') BY <1>1, <1>2
  <2>2. g.chunk.id = m BY <1>2, <1>4, <2>1
  <2> QED BY <1>4, <2>1, <2>2 DEF Piece, Carried
<1>7. Passed(g, cli', m) /\ Before(g, cli', m)
  BY <1>2, <1>3, <1>4, <1>6 DEF Passed, Before, Uploading, Nothing
<1>8. ASSUME NEW f, Before(f, cli, n) PROVE Then(f, g)
  BY <1>4, <1>8 DEF Before, Then
<1>9. ASSUME NEW f, Piece(f, issued) PROVE Piece(f, issued')
  <2>1. CASE Greets(f) BY <1>9, <2>1 DEF Piece
  <2>2. CASE Carried(f, issued)
    <3>1. f.chunk.id \in 1..Len(issued') BY <1>1, <2>2 DEF Carried
    <3> QED BY <1>9, <2>2, <3>1 DEF Piece, Carried
  <2> QED BY <1>9, <2>1, <2>2 DEF Piece
<1>10. Pacing(cli', issued', last)
  <2>1. cli'.parts # Nothing => Len(p) # 1 /\ cli'.parts = p /\ cli'.partIndex \in 1..Len(p)
    BY <1>2, <1>3 DEF Nothing
  <2> QED BY <1>1, <2>1 DEF Pacing
<1>11. Queued(toServer', cli', issued', last)
  <2>1. ASSUME NEW i \in 1..Len(t), IsFrame(t[i])
        PROVE  /\ Piece(t[i], issued) => Piece(t[i], issued')
               /\ Passed(t[i], cli', m) /\ Ahead(t[i], g)
               /\ Before(t[i], cli, Len(issued)) => Then(t[i], g)
    <3>1. t[i].chunk.id < m BY <2>1
    <3>2. Piece(t[i], issued) BY <2>1 DEF Queued
    <3>3. t[i].chunk.id \in Nat BY <1>1, <3>2 DEF Piece, Greets, Carried
    <3> QED BY <1>1, <1>6, <1>8, <1>9, <3>1, <3>3 DEF Passed, Ahead
  <2>2. toServer' = Append(t, g) BY DEF g
  <2>3. last < g.chunk.id BY <1>6
  <2>4. Queued(Append(t, g), cli', issued', last)
    BY <1>4, <1>5, <1>6, <1>7, <2>1, <2>3, QueuedFrame
  <2> QED BY <2>2, <2>4
<1>12. srv.parts # <<>> => Holding(srv, toServer', cli', issued', last)
  <2> SUFFICES ASSUME srv.parts # <<>> PROVE Holding(srv, toServer', cli', issued', last)
    OBVIOUS
  <2>1. Linked(Stored(srv), t, 0, cli, n) /\ Holding(srv, toServer, cli, issued, last)
    BY DEF Whole
  <2>2. 0 \in 0..Len(t) /\ toServer' = Append(t, g) BY <1>1 DEF g
  <2>3. Linked(Stored(srv), toServer', 0, cli', m)
    BY <1>4, <1>5, <1>8, <2>1, <2>2, LinkedFrame
  <2>4. srv.parts[1].id \in 1..n /\ srv.parts[1].id \in 1..m
        /\ issued'[srv.parts[1].id] = issued[srv.parts[1].id]
    <3>1. srv.parts[1].id \in 1..n BY <2>1 DEF Holding
    <3> DEFINE id == srv.parts[1].id
    <3>2. id \in 1..n BY <3>1
    <3> HIDE DEF id
    <3>3. id \in 1..m BY <1>1, <3>2
    <3>4. issued'[id] = issued[id] BY <3>2
    <3> QED BY <3>2, <3>3, <3>4 DEF id
  <2> QED BY <2>1, <2>3, <2>4 DEF Holding
<1>13. RunsAsIssued' /\ \A i \in DOMAIN ran' : ran'[i][1].id \in 1..Len(issued')
  BY <1>1, RunsMore
<1> QED BY <1>10, <1>11, <1>12, <1>13 DEF Whole, last

\* Without a connection: nothing is on the way, and at most a prompt waits.
LEMMA ApartWhole ==
  ASSUME TypeInv, Whole, cli'.pc # "up", ~cli'.inFlight, cli'.draft = NoSeq,
         cli'.parts = Nothing, toServer' = <<>>, ran' = ran,
         Issues(issued'), issued' \in Seq(Seq(Chunks)), Len(issued') >= Len(issued),
         \A i \in 1..Len(issued) : issued'[i] = issued[i],
         cli'.pending # Nothing =>
             /\ Len(issued') > 0 /\ cli'.pending = issued'[Len(issued')]
             /\ LastRan(ran) < Len(issued')
  PROVE  Whole'
<1>1. /\ Len(issued) \in Nat /\ Len(issued') \in Nat /\ LastRan(ran) \in Nat
      /\ LastRan(ran) <= Len(issued)
  BY PromptFacts, LenProperties
<1>2. RunsAsIssued' /\ \A i \in DOMAIN ran' : ran'[i][1].id \in 1..Len(issued')
  BY <1>1, RunsMore
<1>3. Pacing(cli', issued', LastRan(ran)) BY <1>1 DEF Pacing, Uploading
<1>4. Len(<<>>) = 0 /\ 1..0 = {} OBVIOUS
<1>5. Queued(toServer', cli', issued', LastRan(ran)) BY <1>4 DEF Queued
<1> QED BY <1>2, <1>3, <1>5 DEF Whole

-----------------------------------------------------------------------------
(* What HandleLine leaves in the client.                                   *)

\* The client's upload, and what waits to be sent, stay as they are.
Keeps ==
    /\ cli'.pc = "up" /\ cli'.txSeq = cli.txSeq /\ cli'.draft = cli.draft
    /\ cli'.parts = cli.parts /\ cli'.partIndex = cli.partIndex
    /\ cli'.inFlight \in {cli.inFlight, FALSE}

\* A NAK ends the turn and its upload.
GivesUp ==
    /\ cli'.pc = "up" /\ cli'.txSeq = cli.txSeq /\ cli'.draft = NoSeq
    /\ cli'.parts = Nothing /\ cli'.inFlight = FALSE /\ cli'.pending = cli.pending

AnswersOnly == toServer' = toServer \/ \E a \in Answers : toServer' = Append(toServer, a)

LEMMA KeptSettles ==
  (Keeps /\ cli'.pending \in {cli.pending, Nothing}) \/ GivesUp => Settles
BY DEF Keeps, GivesUp, Settles

LEMMA ApplyQueue ==
  ASSUME TypeInv, NEW op, Hear(op), NEW frames \in Seq(Frames), Apply(frames)
  PROVE  /\ AckLine(Heard.seq) \in Answers
         /\ frames = <<>> => toServer' = Append(toServer, AckLine(Heard.seq))
         /\ \A f \in Frames : frames = <<f>> =>
                toServer' = Append(Append(toServer, AckLine(Heard.seq)), f)
<1>1. Heard \in HostFrames BY HeardType DEF Hear
<1>2. AckLine(Heard.seq) \in Answers BY <1>1, AnswerTypes DEF HostFrames
<1> DEFINE a == AckLine(Heard.seq)
<1>3. toServer \in Seq(Wired) /\ a \in Wired BY <1>2 DEF TypeInv, ServerTyped, Wired
<1>4. toServer' = toServer \o <<a>> \o frames BY DEF Apply
<1> HIDE DEF a
<1> DEFINE t == Append(toServer, a)
<1>5. t = toServer \o <<a>> /\ t \in Seq(Wired) BY <1>3, AppendIsConcat, AppendProperties
<1>6. toServer' = t \o frames BY <1>4, <1>5
<1> HIDE DEF t
<1>7. frames = <<>> => toServer' = t BY <1>5, <1>6, ConcatEmptySeq
<1>8. ASSUME NEW f \in Frames, frames = <<f>> PROVE toServer' = Append(t, f)
  <2>1. f \in Wired BY DEF Wired
  <2>2. Append(t, f) = t \o <<f>> BY <1>5, <2>1, AppendIsConcat
  <2> QED BY <1>6, <1>8, <2>2
<1> QED BY <1>2, <1>7, <1>8 DEF t, a

LEMMA ApplyAnswers ==
  ASSUME TypeInv, NEW op, Hear(op), Apply(<<>>)
  PROVE  AnswersOnly /\ issued' = issued
<1>1. <<>> \in Seq(Frames) BY EmptySeq
<1> QED BY <1>1, ApplyQueue DEF AnswersOnly, Apply

LEMMA HearKeeps ==
  ASSUME TypeInv, HearOtherAck \/ HearStatus \/ HearError \/ HearText \/ HearPrompt
  PROVE  Keeps /\ cli'.pending = cli.pending /\ AnswersOnly /\ issued' = issued
<1>1. cli \in Clients BY DEF TypeInv, ClientTyped
<1>2. CASE HearOtherAck
  BY <1>2 DEF HearOtherAck, Hears, clientVars, Keeps, AnswersOnly
<1>3. CASE HearStatus
  <2>1. PICK op : Hear(op) BY <1>3 DEF HearStatus
  <2>2. cli' = cli /\ cli.pc = "up" /\ Apply(<<>>) BY <1>3, <2>1 DEF HearStatus, Hear, Hears
  <2> QED BY <2>1, <2>2, ApplyAnswers DEF Keeps
<1>4. CASE HearError
  <2>1. Hear("ERROR") /\ cli.pc = "up" /\ Apply(<<>>) BY <1>4 DEF HearError, Hear, Hears
  <2>2. Keeps /\ cli'.pending = cli.pending BY <1>1, <1>4, <2>1 DEF HearError, Keeps, Clients
  <2> QED BY <2>1, <2>2, ApplyAnswers
<1>5. CASE HearText
  <2>1. Hear("TEXT") /\ cli.pc = "up" /\ Apply(<<>>) BY <1>5 DEF HearText, Hear, Hears
  <2>2. Keeps /\ cli'.pending = cli.pending BY <1>1, <1>5, <2>1 DEF HearText, Keeps, Clients
  <2> QED BY <2>1, <2>2, ApplyAnswers
<1>6. CASE HearPrompt
  <2>1. Hear("PROMPT") /\ cli.pc = "up" /\ Apply(<<>>) BY <1>6 DEF HearPrompt, Hear, Hears
  <2>2. Keeps /\ cli'.pending = cli.pending BY <1>1, <1>6, <2>1 DEF HearPrompt, Keeps, Clients
  <2> QED BY <2>1, <2>2, ApplyAnswers
<1> QED BY <1>2, <1>3, <1>4, <1>5, <1>6

LEMMA NakGivesUp ==
  ASSUME TypeInv, HearNak PROVE GivesUp /\ toServer' = toServer /\ issued' = issued
<1>1. cli \in Clients /\ cli.pc = "up" BY DEF TypeInv, ClientTyped, HearNak, Hears
<1> QED BY <1>1 DEF HearNak, GivesUp, Clients

\* READY clears what waits to be sent; it is sent, unless a turn is under way.
LEMMA ReadyFields ==
  ASSUME TypeInv, HearReady
  PROVE  /\ issued' = issued /\ Hear("READY") /\ cli'.pending = Nothing /\ cli'.pc = "up"
         /\ \/ /\ cli.pending = Nothing \/ cli.inFlight
               /\ Keeps /\ AnswersOnly
            \/ /\ cli.pending # Nothing /\ ~cli.inFlight /\ cli.pending \in Prompts
               /\ \E c \in Clients, a \in Answers :
                      /\ c.txSeq = cli.txSeq /\ cli' = Send(c, cli.pending)
                      /\ toServer' = Append(Append(toServer, a), FirstFrame(c, cli.pending))
<1>1. cli \in Clients /\ cli.pc = "up" BY DEF HearReady, Hear, Hears, TypeInv, ClientTyped
<1> DEFINE c0 == [cli EXCEPT !.ready = TRUE]
           c == [c0 EXCEPT !.pending = Nothing]
<1>2. c = [cli EXCEPT !.ready = TRUE, !.pending = Nothing] OBVIOUS
<1>3. /\ Hear("READY")
      /\ IF cli.pending = Nothing \/ cli.inFlight
         THEN cli' = c /\ Apply(<<>>)
         ELSE cli' = Send(c, cli.pending) /\ Apply(<<FirstFrame(c, cli.pending)>>)
  BY <1>2 DEF HearReady
<1> HIDE DEF c
<1>4. /\ c0 \in Clients /\ c0.pc = "up" /\ c0.txSeq = cli.txSeq /\ c0.draft = cli.draft
      /\ c0.parts = cli.parts /\ c0.partIndex = cli.partIndex /\ c0.inFlight = cli.inFlight
  BY <1>1 DEF Clients
<1> HIDE DEF c0
<1>5. /\ c \in Clients /\ c.pc = "up" /\ c.txSeq = cli.txSeq /\ c.draft = cli.draft
      /\ c.parts = cli.parts /\ c.partIndex = cli.partIndex /\ c.inFlight = cli.inFlight
      /\ c.pending = Nothing
  BY <1>4, NoPrompt DEF Clients, c
<1>6. CASE cli.pending = Nothing \/ cli.inFlight
  <2>1. cli' = c /\ Apply(<<>>) BY <1>3, <1>6
  <2>2. AnswersOnly /\ issued' = issued BY <1>3, <2>1, ApplyAnswers
  <2>3. Keeps BY <1>5, <2>1 DEF Keeps
  <2> QED BY <1>3, <1>5, <1>6, <2>1, <2>2, <2>3
<1>7. CASE ~(cli.pending = Nothing \/ cli.inFlight)
  <2>1. cli' = Send(c, cli.pending) /\ Apply(<<FirstFrame(c, cli.pending)>>) BY <1>3, <1>7
  <2>2. cli.pending \in Prompts /\ cli.pending # <<>> BY <1>1, <1>7 DEF Clients, Nothing
  <2> DEFINE f == FirstFrame(c, cli.pending)
             s == Send(c, cli.pending)
  <2>3. f \in Frames BY <1>5, <2>2, FirstFrameType
  <2>4. s.pending = Nothing /\ s.pc = "up" BY <1>5, <2>2, SendType
  <2>5. cli' = s /\ Apply(<<f>>) BY <2>1
  <2> HIDE DEF s, f
  <2>6. <<f>> \in Seq(Frames) BY <2>3
  <2>7. /\ AckLine(Heard.seq) \in Answers
        /\ toServer' = Append(Append(toServer, AckLine(Heard.seq)), f)
    BY <1>3, <2>3, <2>5, <2>6, ApplyQueue
  <2>8. issued' = issued BY <2>5 DEF Apply
  <2> QED BY <1>3, <1>5, <1>7, <2>1, <2>2, <2>4, <2>5, <2>7, <2>8 DEF f
<1> QED BY <1>6, <1>7

\* The ACK of the draft: the next part, or the end of the upload.
LEMMA AckFields ==
  ASSUME TypeInv, HearAck
  PROVE  /\ issued' = issued /\ Hears /\ cli'.pc = "up" /\ cli'.pending = cli.pending
         /\ cli'.inFlight = cli.inFlight /\ Heard.kind = "ACK" /\ Heard.seq = cli.draft
         /\ \/ /\ ~(cli.partIndex < Len(cli.parts))
               /\ toServer' = toServer /\ cli'.txSeq = cli.txSeq
               /\ cli'.parts = Nothing /\ cli'.draft = NoSeq
            \/ /\ cli.partIndex < Len(cli.parts)
               /\ cli'.parts = cli.parts /\ cli'.partIndex = cli.partIndex + 1
               /\ cli'.txSeq = After(cli.txSeq) /\ cli'.draft = cli.txSeq
               /\ \E c \in Clients :
                      /\ c.txSeq = cli.txSeq /\ c.parts = cli.parts
                      /\ c.partIndex = cli.partIndex /\ PartFrame(c) \in Frames
                      /\ toServer' = Append(toServer, PartFrame(c))
<1>1. cli \in Clients /\ cli.pc = "up" BY DEF HearAck, Hears, TypeInv, ClientTyped
<1>0. NoSeq \in 0..SeqSpace BY Constants DEF NoSeq
<1> DEFINE c == [cli EXCEPT !.draft = NoSeq]
<1>2. c \in Clients /\ c.pc = "up" /\ c.parts = cli.parts /\ c.partIndex = cli.partIndex
      /\ c.txSeq = cli.txSeq /\ c.pending = cli.pending /\ c.inFlight = cli.inFlight
      /\ c.draft = NoSeq
  BY <1>0, <1>1 DEF Clients
<1>3. /\ IF cli.partIndex < Len(cli.parts)
         THEN cli' = SendPart(c) /\ toServer' = Append(toServer, PartFrame(c))
         ELSE cli' = [c EXCEPT !.parts = Nothing] /\ toServer' = toServer
      /\ Hears /\ UNCHANGED <<issued, got, shown>>
      /\ Heard.kind = "ACK" /\ Heard.seq = cli.draft
  BY DEF HearAck
<1> HIDE DEF c
<1>4. CASE cli.partIndex < Len(cli.parts)
  <2>1. cli' = SendPart(c) /\ toServer' = Append(toServer, PartFrame(c)) BY <1>3, <1>4
  <2>2. /\ cli'.pc = "up" /\ cli'.pending = cli.pending /\ cli'.inFlight = cli.inFlight
        /\ cli'.parts = cli.parts /\ cli'.partIndex = cli.partIndex + 1
        /\ cli'.txSeq = After(cli.txSeq) /\ cli'.draft = cli.txSeq
    <3> DEFINE s == SendPart(c)
    <3>1. /\ s.pc = c.pc /\ s.pending = c.pending /\ s.inFlight = c.inFlight
          /\ s.parts = c.parts /\ s.partIndex = c.partIndex + 1
          /\ s.txSeq = After(c.txSeq) /\ s.draft = c.txSeq
      BY <1>2, SendPartType
    <3>2. cli' = s BY <2>1
    <3> HIDE DEF s
    <3> QED BY <1>2, <3>1, <3>2
  <2>0. cli.parts \in Prompts BY <1>1 DEF Clients
  <2>3. /\ cli.parts \in Seq(Chunks) /\ cli.partIndex \in Nat /\ cli.txSeq \in 0..SeqSpace
        /\ Len(cli.parts) \in 0..LongParts /\ Len(cli.parts) \in Nat
    BY <1>1, <2>0, Constants, PromptFields, LenProperties DEF Clients
  <2>4. cli.parts[cli.partIndex + 1] \in Chunks BY <1>4, <2>3, ElementOfSeq
  <2>5. PartFrame(c) \in Frames BY <1>2, <2>3, <2>4, FrameType DEF PartFrame
  <2> QED BY <1>2, <1>3, <1>4, <2>1, <2>2, <2>5
<1>5. CASE ~(cli.partIndex < Len(cli.parts))
  <2>1. cli' = [c EXCEPT !.parts = Nothing] /\ toServer' = toServer BY <1>3, <1>5
  <2>2. /\ cli'.pc = "up" /\ cli'.pending = cli.pending /\ cli'.inFlight = cli.inFlight
        /\ cli'.txSeq = cli.txSeq /\ cli'.parts = Nothing /\ cli'.draft = NoSeq
    BY <1>2, <2>1 DEF Clients
  <2> QED BY <1>3, <1>5, <2>1, <2>2
<1> QED BY <1>4, <1>5

-----------------------------------------------------------------------------
(* HandleLine and the prompts.                                             *)

\* No HELLO is on the way.
Greeted(q) == \A i \in 1..Len(q) : IsFrame(q[i]) => q[i].op # "HELLO"

LEMMA GreetedMore ==
  ASSUME NEW q \in Seq(Wired), Greeted(q), NEW m \in Wired, IsFrame(m) => m.op # "HELLO"
  PROVE  Greeted(Append(q, m)) /\ Append(q, m) \in Seq(Wired)
<1> DEFINE r == Append(q, m)
<1>1. /\ Len(q) \in Nat /\ Len(r) = Len(q) + 1 /\ r[Len(q) + 1] = m /\ r \in Seq(Wired)
      /\ \A j \in 1..Len(q) : r[j] = q[j]
  BY AppendFacts
<1> HIDE DEF r
<1>2. ASSUME NEW i \in 1..Len(r), IsFrame(r[i]) PROVE r[i].op # "HELLO"
  <2>1. i \in 1..Len(q) \/ i = Len(q) + 1 BY <1>1
  <2> QED BY <1>1, <1>2, <2>1 DEF Greeted
<1>3. Greeted(r) BY <1>2 DEF Greeted
<1> QED BY <1>1, <1>3 DEF r

\* A HELLO is of no prompt.
LEMMA HelloId ==
  ASSUME NEW f, NEW iss, Piece(f, iss), f.op = "HELLO" PROVE f.chunk.id = 0 /\ Greets(f)
BY DEF Piece, Greets, Carried

\* The first frame the client hears is READY.
LEMMA FirstHeard ==
  ASSUME TypeInv, LinkInv, Greeting, Hears, IsFrame(Heard), got = <<>>
  PROVE  Heard.op = "READY"
<1>1. /\ cli.pc = "up" /\ sent \in Seq(HostFrames)
      /\ toClient \in Seq(Answers \union HostFrames) /\ toClient # <<>>
  BY DEF Hears, TypeInv, ClientTyped, ServerTyped
<1>2. Way(toClient, sent, 0)
  <2>1. Way(toClient, sent, Len(got)) BY <1>1 DEF LinkInv
  <2>2. Len(got) = 0 BY EmptySeq
  <2> QED BY <2>1, <2>2
<1>3. PICK i \in {0, 0 + 1} : i \in 1..Len(sent) /\ Heard = sent[i]
  BY <1>1, <1>2, WayTail DEF Heard
<1>4. i = 1 /\ Len(sent) \in Nat BY <1>1, <1>3, LenProperties
<1>5. sent # <<>> BY <1>3, <1>4, EmptySeq
<1> QED BY <1>3, <1>4, <1>5 DEF Greeting

LEMMA ReadyWhole ==
  ASSUME TypeInv, LinkInv, Whole, Greeting, ServerKept, HearReady
  PROVE  Whole'
<1>1. /\ ran' = ran /\ srv' = srv /\ cli.pc = "up" /\ cli'.pc = "up"
      /\ issued' = issued /\ cli'.pending = Nothing
  BY ReadyFields DEF ServerKept, serverVars, HearReady, Hear, Hears
<1>2. CASE Keeps /\ AnswersOnly
  <2>1. Settles BY <1>1, <1>2, KeptSettles
  <2> QED BY <1>1, <1>2, <2>1, SettledWhole DEF AnswersOnly
<1>3. ASSUME cli.pending # Nothing, cli.pending \in Prompts,
             NEW c \in Clients, NEW a \in Answers, c.txSeq = cli.txSeq,
             cli' = Send(c, cli.pending),
             toServer' = Append(Append(toServer, a), FirstFrame(c, cli.pending))
      PROVE  Whole'
  <2> DEFINE t == Append(toServer, a)
             last == LastRan(ran)
             n == Len(issued)
  <2>1. /\ toServer \in Seq(Wired) /\ issued \in Seq(Seq(Chunks)) /\ n \in Nat
        /\ a \in Wired /\ ~IsFrame(a) /\ Len(toServer) \in Nat
    BY PromptFacts, LenProperties DEF Wired, IsFrame, Answers
  <2>2. /\ n > 0 /\ cli.pending = issued[n] /\ last < n /\ Issues(issued)
        /\ Queued(toServer, cli, issued, last)
    BY <1>3 DEF Whole, Pacing
  <2>3. t \in Seq(Wired) /\ Queued(t, cli, issued, last)
    BY <2>1, <2>2, QueuedAnswer, AppendFacts
  <2>4. srv.parts # <<>> => Linked(Stored(srv), t, 0, cli, n)
    <3>1. srv.parts # <<>> => Linked(Stored(srv), toServer, 0, cli, n)
      BY <1>1 DEF Whole, Holding
    <3> QED BY <2>1, <3>1, LinkedAnswer
  <2>5. ASSUME NEW i \in 1..Len(t), IsFrame(t[i]) PROVE t[i].chunk.id < n
    <3>1. /\ Len(t) = Len(toServer) + 1 /\ t[Len(toServer) + 1] = a
          /\ \A j \in 1..Len(toServer) : t[j] = toServer[j]
      BY <2>1, AppendFacts
    <3> HIDE DEF t
    <3>2. i \in 1..Len(toServer) /\ t[i] = toServer[i] BY <2>1, <2>5, <3>1
    <3>3. got = <<>> BY <1>3 DEF Greeting
    <3>4. toServer[i].op = "HELLO" /\ Piece(toServer[i], issued)
      BY <2>2, <2>5, <3>2, <3>3 DEF Greeting, Queued
    <3>5. t[i].chunk.id = 0 BY <3>2, <3>4, HelloId
    <3> QED BY <2>2, <3>5
  <2>6. toServer' = Append(t, FirstFrame(c, cli.pending)) BY <1>3
  <2> HIDE DEF t
  <2>7. cli.pending # <<>> /\ Len(issued') = n /\ cli.pending = issued'[Len(issued')]
    BY <1>1, <1>3, <2>2 DEF Nothing
  <2>8. Issues(issued') /\ issued' \in Seq(Seq(Chunks)) /\ n >= n
        /\ \A i \in 1..n : issued'[i] = issued[i]
    BY <1>1, <2>1, <2>2
  <2>9. Len(issued') >= Len(issued) /\ Len(issued') > 0 /\ LastRan(ran) < Len(issued')
    BY <2>1, <2>2, <2>7
  <2>10. \A i \in 1..Len(t) : IsFrame(t[i]) => t[i].chunk.id < Len(issued')
    BY <2>5, <2>7
  <2> QED BY <1>1, <1>3, <2>3, <2>4, <2>6, <2>7, <2>8, <2>9, <2>10, SubmittedWhole
<1> QED BY <1>2, <1>3, ReadyFields

LEMMA AckWhole ==
  ASSUME TypeInv, Whole, ServerKept, HearAck PROVE Whole'
<1>1. ran' = ran /\ srv' = srv /\ cli.pc = "up" /\ cli \in Clients
  BY DEF ServerKept, serverVars, HearAck, Hears, TypeInv, ClientTyped
<1>2. issued' = issued /\ cli'.pc = "up" /\ cli'.pending = cli.pending BY AckFields
<1>3. CASE ~(cli.partIndex < Len(cli.parts))
  <2>1. toServer' = toServer /\ cli'.txSeq = cli.txSeq /\ cli'.parts = Nothing
    BY <1>3, AckFields
  <2>2. Settles BY <1>2, <2>1 DEF Settles
  <2> QED BY <1>1, <1>2, <2>1, <2>2, SettledWhole
<1>4. CASE cli.partIndex < Len(cli.parts)
  <2>1. /\ cli'.parts = cli.parts /\ cli'.partIndex = cli.partIndex + 1
        /\ cli'.txSeq = After(cli.txSeq)
    BY <1>4, AckFields
  <2>2. PICK c \in Clients :
                      /\ c.txSeq = cli.txSeq /\ c.parts = cli.parts
                      /\ c.partIndex = cli.partIndex /\ PartFrame(c) \in Frames
                      /\ toServer' = Append(toServer, PartFrame(c))
    BY <1>4, AckFields
  <2>3. Uploading(cli)
    <3>1. Len(<<>>) = 0 /\ cli.partIndex \in Nat BY <1>1 DEF Clients
    <3>2. cli.parts # Nothing BY <1>4, <3>1 DEF Nothing
    <3> QED BY <1>4, <3>2 DEF Uploading
  <2> QED BY <1>1, <1>2, <2>1, <2>2, <2>3, UploadedWhole
<1> QED BY <1>3, <1>4

\* Whatever line the client reads, it goes on with the prompt it has issued last.
LEMMA HeardWhole ==
  ASSUME TypeInv, LinkInv, Whole, Greeting, ServerKept, HandleLine PROVE Whole'
<1>1. ran' = ran /\ srv' = srv /\ cli.pc = "up" BY HearEffect DEF ServerKept, serverVars, Answered, Applied, Hears
<1>2. CASE HearAck BY <1>2, AckWhole
<1>3. CASE HearReady BY <1>3, ReadyWhole
<1>4. CASE HearNak
  <2>1. GivesUp /\ toServer' = toServer /\ issued' = issued BY <1>4, NakGivesUp
  <2>2. Settles /\ cli'.pc = "up" BY <2>1, KeptSettles DEF GivesUp
  <2> QED BY <1>1, <2>1, <2>2, SettledWhole
<1>5. CASE HearOtherAck \/ HearStatus \/ HearError \/ HearText \/ HearPrompt
  <2>1. Keeps /\ cli'.pending = cli.pending /\ AnswersOnly /\ issued' = issued
    BY <1>5, HearKeeps
  <2>2. Settles /\ cli'.pc = "up" BY <2>1, KeptSettles DEF Keeps
  <2> QED BY <1>1, <2>1, <2>2, SettledWhole DEF AnswersOnly
<1> QED BY <1>2, <1>3, <1>4, <1>5 DEF HandleLine

\* After READY nothing is left of the greeting but to answer HELLO no more.
LEMMA GreetingOver ==
  ASSUME Greeting, srv' = srv, sent' = sent, got' # <<>>, cli'.pending = Nothing,
         srv.hello => Greeted(toServer')
  PROVE  Greeting'
BY DEF Greeting, Greeted

\* What the client writes behind the frames on the way is no HELLO.
LEMMA HeardGreeted ==
  ASSUME TypeInv, HandleLine, Greeted(toServer) PROVE Greeted(toServer')
<1>1. toServer \in Seq(Wired) BY DEF TypeInv, ServerTyped, Wired
<1>2. CASE AnswersOnly
  <2>1. CASE toServer' = toServer BY <2>1
  <2>2. ASSUME NEW a \in Answers, toServer' = Append(toServer, a) PROVE Greeted(toServer')
    <3>1. a \in Wired /\ ~IsFrame(a) BY DEF Wired, IsFrame, Answers
    <3> QED BY <1>1, <2>2, <3>1, GreetedMore
  <2> QED BY <1>2, <2>1, <2>2 DEF AnswersOnly
<1>3. CASE HearAck
  <2>1. CASE toServer' = toServer BY <2>1
  <2>2. ASSUME NEW c \in Clients, PartFrame(c) \in Frames,
               toServer' = Append(toServer, PartFrame(c))
        PROVE  Greeted(toServer')
    <3> DEFINE g == PartFrame(c)
    <3>1. g.op = "MSGP" BY DEF PartFrame, ClientFrame
    <3>2. g \in Wired BY <2>2 DEF Wired
    <3>3. toServer' = Append(toServer, g) BY <2>2
    <3> HIDE DEF g
    <3> QED BY <1>1, <3>1, <3>2, <3>3, GreetedMore
  <2> QED BY <1>3, <2>1, <2>2, AckFields
<1>4. CASE HearReady
  <2>1. ASSUME cli.pending \in Prompts, cli.pending # Nothing,
               NEW c \in Clients, NEW a \in Answers,
               toServer' = Append(Append(toServer, a), FirstFrame(c, cli.pending))
        PROVE  Greeted(toServer')
    <3> DEFINE g == FirstFrame(c, cli.pending)
               t == Append(toServer, a)
    <3>1. g.op \in {"MSG", "MSGP"} BY DEF FirstFrame, ClientFrame
    <3>2. cli.pending # <<>> BY <2>1 DEF Nothing
    <3>3. g \in Wired BY <2>1, <3>2, FirstFrameType DEF Wired
    <3>4. a \in Wired /\ ~IsFrame(a) BY DEF Wired, IsFrame, Answers
    <3>5. Greeted(t) /\ t \in Seq(Wired) BY <1>1, <3>4, GreetedMore
    <3>6. toServer' = Append(t, g) BY <2>1
    <3> HIDE DEF t, g
    <3> QED BY <3>1, <3>3, <3>5, <3>6, GreetedMore
  <2>2. CASE AnswersOnly BY <1>2, <2>2
  <2>3. CASE ~AnswersOnly
    <3>1. /\ cli.pending # Nothing /\ cli.pending \in Prompts
          /\ \E c \in Clients, a \in Answers :
                 toServer' = Append(Append(toServer, a), FirstFrame(c, cli.pending))
      BY <1>4, <2>3, ReadyFields
    <3> QED BY <2>1, <3>1
  <2> QED BY <2>2, <2>3
<1>5. CASE HearNak
  <2>1. toServer' = toServer BY <1>5, NakGivesUp
  <2> QED BY <2>1
<1>6. CASE HearOtherAck \/ HearStatus \/ HearError \/ HearText \/ HearPrompt
  BY <1>2, <1>6, HearKeeps
<1> QED BY <1>3, <1>4, <1>5, <1>6 DEF HandleLine

\* Before it the client only hears its HELLO acknowledged.
LEMMA HeardBefore ==
  ASSUME TypeInv, Greeting, ServerKept, HandleLine, got = <<>>, ~IsFrame(Heard)
  PROVE  Greeting'
<1>1. /\ srv' = srv /\ sent' = sent /\ cli.pc = "up" /\ cli \in Clients
      /\ toClient \in Seq(Answers \union HostFrames) /\ toClient # <<>>
      /\ Len(toClient) \in Nat /\ toClient' = Tail(toClient)
  BY HearEffect, LenProperties
     DEF ServerKept, serverVars, TypeInv, ClientTyped, ServerTyped, Answered, Applied, Hears
<1>2. /\ ~cli.ready /\ ~cli.inFlight /\ cli.draft = NoSeq /\ cli.parts = Nothing
      /\ \A i \in 1..Len(toClient) : toClient[i].kind # "NAK"
  BY DEF Greeting
<1>3. /\ Len(toClient) > 0 /\ Len(toClient') = Len(toClient) - 1 /\ Heard = toClient[1]
      /\ \A i \in 1..Len(toClient') : toClient'[i] = toClient[i + 1]
  BY <1>1, TailFacts DEF Heard
<1>4. Heard.kind # "NAK"
  <2>1. 1 \in 1..Len(toClient) BY <1>1, <1>3
  <2> QED BY <1>2, <1>3, <2>1
<1>5. \A i \in 1..Len(toClient') : toClient'[i].kind # "NAK"
  <2> SUFFICES ASSUME NEW i \in 1..Len(toClient') PROVE toClient'[i].kind # "NAK"
    OBVIOUS
  <2>1. i + 1 \in 1..Len(toClient) BY <1>1, <1>3
  <2> QED BY <1>2, <1>3, <2>1
<1>6. HearAck \/ HearOtherAck
  <2>1. Heard.kind # "FRAME" BY DEF IsFrame
  <2> QED BY <1>4, <2>1 DEF HandleLine, HearNak, HearReady, HearStatus, HearError, HearText,
                            HearPrompt, Hear
<1>7. /\ got' = got /\ toServer' = toServer /\ cli'.ready = cli.ready
      /\ cli'.inFlight = cli.inFlight /\ cli'.draft = NoSeq /\ cli'.parts = Nothing
  <2>1. CASE HearOtherAck BY <1>2, <2>1 DEF HearOtherAck, clientVars
  <2>2. CASE HearAck
    <3>1. ~(cli.partIndex < Len(cli.parts))
      <4>1. Len(<<>>) = 0 /\ cli.partIndex \in Nat BY <1>1 DEF Clients
      <4> QED BY <1>2, <4>1 DEF Nothing
    <3> DEFINE c == [cli EXCEPT !.draft = NoSeq]
    <3>2. /\ cli' = [c EXCEPT !.parts = Nothing] /\ toServer' = toServer /\ got' = got
      BY <2>2, <3>1 DEF HearAck
    <3>0. NoSeq \in 0..SeqSpace BY Constants DEF NoSeq
    <3>3. c.ready = cli.ready /\ c.inFlight = cli.inFlight /\ c.draft = NoSeq /\ c \in Clients
      BY <1>1, <3>0 DEF Clients
    <3> HIDE DEF c
    <3>4. /\ cli'.ready = c.ready /\ cli'.inFlight = c.inFlight /\ cli'.draft = c.draft
          /\ cli'.parts = Nothing
      BY <3>2, <3>3 DEF Clients
    <3> QED BY <3>2, <3>3, <3>4
  <2> QED BY <1>6, <2>1, <2>2
<1> QED BY <1>1, <1>2, <1>5, <1>7 DEF Greeting

LEMMA HeardGreeting ==
  ASSUME TypeInv, LinkInv, Greeting, ServerKept, HandleLine PROVE Greeting'
<1>1. srv' = srv /\ sent' = sent BY DEF ServerKept, serverVars
<1>2. srv.hello => Greeted(toServer')
  <2>1. srv.hello => Greeted(toServer) BY DEF Greeting, Greeted
  <2> QED BY <2>1, HeardGreeted
<1>3. CASE got = <<>> /\ ~IsFrame(Heard) BY <1>3, HeardBefore
<1>4. CASE got # <<>> \/ IsFrame(Heard)
  <2>1. got' # <<>>
    <3>1. CASE Answered BY <1>4, <3>1 DEF Answered
    <3>2. CASE Applied
      <4>1. Heard \in HostFrames BY <3>2, HeardType DEF Applied, IsFrame
      <4>2. got \in Seq(HostFrames) BY DEF TypeInv, ClientTyped
      <4>3. Append(got, Heard) # <<>> BY <4>1, <4>2, AppendFacts
      <4> QED BY <3>2, <4>3 DEF Applied, Repeated
    <3> QED BY <3>1, <3>2, HearEffect
  <2>2. cli'.pending = Nothing
    <3>1. CASE got # <<>>
      <4>1. cli.pending = Nothing BY <3>1 DEF Greeting
      <4>2. cli'.pending \in {cli.pending, Nothing}
        BY HearKeeps, NakGivesUp, AckFields, ReadyFields DEF HandleLine, GivesUp
      <4> QED BY <4>1, <4>2
    <3>2. CASE got = <<>>
      <4>1. IsFrame(Heard) /\ Hears
        BY <1>4, <3>2, HearEffect DEF Answered, Applied
      <4>2. Heard.op = "READY" BY <3>2, <4>1, FirstHeard
      <4>3. Heard.kind = "FRAME" BY <4>1 DEF IsFrame
      <4>4. HearReady
        BY <4>2, <4>3 DEF HandleLine, HearAck, HearOtherAck, HearNak, HearStatus, HearError,
                          HearText, HearPrompt, Hear
      <4> QED BY <4>4, ReadyFields
    <3> QED BY <3>1, <3>2
  <2> QED BY <1>1, <1>2, <2>1, <2>2, GreetingOver
<1> QED BY <1>3, <1>4

-----------------------------------------------------------------------------
(* The user's taps, and the connection's begin and end.                    *)

\* A tap issues a prompt, and sends it or dials.
LEMMA TapCases ==
  ASSUME TypeInv, Taps
  PROVE  \E n \in {1, LongParts}, cmd \in BOOLEAN :
             /\ Issue(NewPrompt(n, cmd))
             /\ \/ cli.ready = TRUE /\ SendNow(NewPrompt(n, cmd))
                \/ QueueAndConnect(NewPrompt(n, cmd))
<1>1. cli.ready \in BOOLEAN BY DEF TypeInv, ClientTyped, Clients
<1> QED BY <1>1 DEF Taps, TapSend, TapAsk, TapNew

LEMMA SendNowWhole ==
  ASSUME TypeInv, Whole, Greeting, ServerKept, cli.ready = TRUE,
         NEW n \in {1, LongParts}, NEW cmd \in BOOLEAN,
         Issue(NewPrompt(n, cmd)), SendNow(NewPrompt(n, cmd))
  PROVE  Whole' /\ Greeting'
<1> DEFINE p == NewPrompt(n, cmd)
           m == Len(issued)
           g == FirstFrame(cli, p)
<1>1. p \in Prompts /\ p # <<>> BY NewPromptType
<1>2. /\ Issues(issued') /\ issued' \in Seq(Seq(Chunks)) /\ Len(issued') = m + 1
      /\ m \in Nat /\ p = issued'[Len(issued')]
      /\ \A i \in 1..m : issued'[i] = issued[i]
  BY IssueMore DEF Whole
<1>3. cli' = Send(cli, p) /\ toServer' = Append(toServer, g) /\ got' = got
  BY DEF SendNow, Issue
<1>4. /\ cli \in Clients /\ toServer \in Seq(Wired) /\ LastRan(ran) <= m /\ LastRan(ran) \in Nat
      /\ cli.pc = "up" /\ ran' = ran /\ srv' = srv /\ sent' = sent
  BY PromptFacts DEF TypeInv, Apart, ServerKept, serverVars
<1>5. got # <<>> /\ cli.pending = Nothing BY DEF Greeting
<1> HIDE DEF p
<1>6. g \in Wired /\ g.op # "HELLO"
  <2>1. g.op \in {"MSG", "MSGP"} BY DEF FirstFrame, ClientFrame
  <2> QED BY <1>1, <1>4, <2>1, FirstFrameType DEF Wired
<1>7. cli'.pc = "up" /\ cli'.pending = Nothing
  <2> DEFINE s == Send(cli, p)
  <2>1. s.pc = "up" /\ s.pending = Nothing BY <1>1, <1>4, <1>5, SendType
  <2>2. cli' = s BY <1>3
  <2> HIDE DEF s
  <2> QED BY <2>1, <2>2
<1>8. Whole'
  <2>1. Queued(toServer, cli, issued, LastRan(ran)) BY DEF Whole
  <2>2. srv.parts # <<>> => Linked(Stored(srv), toServer, 0, cli, Len(issued))
    BY <1>4 DEF Whole, Holding
  <2>3. ASSUME NEW i \in 1..Len(toServer), IsFrame(toServer[i])
        PROVE  toServer[i].chunk.id < Len(issued')
    <3>1. Piece(toServer[i], issued) BY <2>1, <2>3 DEF Queued
    <3>2. toServer[i].chunk.id \in 0..m BY <1>2, <3>1 DEF Piece, Greets, Carried
    <3> QED BY <1>2, <3>2
  <2>4. Len(issued') >= Len(issued) /\ Len(issued') > 0 /\ LastRan(ran) < Len(issued')
    BY <1>2, <1>4
  <2> QED BY <1>1, <1>2, <1>3, <1>4, <1>7, <2>1, <2>2, <2>3, <2>4, SubmittedWhole
<1>9. srv.hello => Greeted(toServer')
  <2>1. srv.hello => Greeted(toServer) BY DEF Greeting, Greeted
  <2> HIDE DEF g
  <2> QED BY <1>3, <1>4, <1>6, <2>1, GreetedMore
<1>10. Greeting' BY <1>3, <1>4, <1>5, <1>7, <1>9, GreetingOver
<1> QED BY <1>8, <1>10

LEMMA ConnectFields ==
  ASSUME TypeInv, NEW p \in Prompts, QueueAndConnect(p)
  PROVE  /\ cli'.pc = "dialing" /\ cli'.inFlight = FALSE /\ cli'.draft = NoSeq
         /\ cli'.parts = Nothing /\ cli'.pending = p /\ toServer' = <<>>
<1> DEFINE s == Stopped(cli)
           d == [s EXCEPT !.pc = "dialing"]
<1>1. s \in Clients /\ s.inFlight = FALSE /\ s.draft = NoSeq /\ s.parts = <<>>
  BY StoppedType DEF TypeInv, ClientTyped
<1>2. cli' = [d EXCEPT !.pending = p] /\ toServer' = <<>> BY DEF QueueAndConnect
<1> HIDE DEF s
<1>3. d \in Clients /\ d.pc = "dialing" /\ d.inFlight = FALSE /\ d.draft = NoSeq
      /\ d.parts = <<>>
  BY <1>1 DEF Clients
<1> HIDE DEF d
<1>4. cli'.pc = "dialing" /\ cli'.inFlight = FALSE /\ cli'.draft = NoSeq
      /\ cli'.parts = <<>> /\ cli'.pending = p
  BY <1>2, <1>3 DEF Clients
<1> QED BY <1>2, <1>4 DEF Nothing

LEMMA ConnectWhole ==
  ASSUME TypeInv, Whole, ran' = ran, NEW n \in {1, LongParts}, NEW cmd \in BOOLEAN,
         Issue(NewPrompt(n, cmd)), QueueAndConnect(NewPrompt(n, cmd))
  PROVE  Whole'
<1> DEFINE p == NewPrompt(n, cmd)
           m == Len(issued)
<1>1. p \in Prompts /\ p # <<>> BY NewPromptType
<1>2. /\ Issues(issued') /\ issued' \in Seq(Seq(Chunks)) /\ Len(issued') = m + 1
      /\ m \in Nat /\ p = issued'[Len(issued')]
      /\ \A i \in 1..m : issued'[i] = issued[i]
  BY IssueMore DEF Whole
<1>3. QueueAndConnect(p) OBVIOUS
<1> HIDE DEF p
<1>4. /\ cli'.pc = "dialing" /\ cli'.inFlight = FALSE /\ cli'.draft = NoSeq
      /\ cli'.parts = Nothing /\ cli'.pending = p /\ toServer' = <<>>
  BY <1>1, <1>3, ConnectFields
<1>5. LastRan(ran) <= m /\ LastRan(ran) \in Nat BY PromptFacts
<1>6. Len(issued') >= Len(issued) /\ Len(issued') > 0 /\ LastRan(ran) < Len(issued')
  BY <1>2, <1>5
<1> QED BY <1>2, <1>4, <1>6, ApartWhole

\* Stop forgets the prompt that was queued.
LEMMA StoppedWhole ==
  ASSUME TypeInv, Whole, ran' = ran, HangUp \/ DialFails PROVE Whole' /\ cli'.pc # "up"
<1> DEFINE s == Stopped(cli)
<1>1. /\ s.pc = "down" /\ s.inFlight = FALSE /\ s.draft = NoSeq /\ s.parts = <<>>
      /\ s.pending = <<>>
  BY StoppedType DEF TypeInv, ClientTyped
<1>2. cli' = s /\ issued' = issued BY DEF HangUp, DialFails
<1> HIDE DEF s
<1>3. toServer' = <<>> BY DEF HangUp, DialFails, TypeInv, Apart
<1>4. issued \in Seq(Seq(Chunks)) /\ Len(issued) \in Nat BY PromptFacts
<1>5. Issues(issued) BY DEF Whole
<1>6. Len(issued') >= Len(issued) /\ \A i \in 1..Len(issued) : issued'[i] = issued[i]
  BY <1>2, <1>4
<1> QED BY <1>1, <1>2, <1>3, <1>4, <1>5, <1>6, ApartWhole DEF Nothing

LEMMA DialedFields ==
  ASSUME TypeInv, Dialed
  PROVE  /\ cli'.pc = "up" /\ cli'.txSeq = 1 /\ cli'.ready = FALSE
         /\ cli'.inFlight = cli.inFlight /\ cli'.draft = cli.draft
         /\ cli'.parts = cli.parts /\ cli'.partIndex = cli.partIndex
         /\ cli'.pending = cli.pending /\ issued' = issued
<1>1. cli \in Clients BY DEF TypeInv, ClientTyped
<1> DEFINE s1 == [cli EXCEPT !.pc = "up"]
           s2 == [s1 EXCEPT !.txSeq = 1]
           s3 == [s2 EXCEPT !.ready = FALSE]
           s4 == [s3 EXCEPT !.resp = <<>>]
<1>2. cli' = [s4 EXCEPT !.dials = @ + 1] /\ issued' = issued BY DEF Dialed
<1>3. s1 \in Clients /\ s1.pc = "up" /\ s1.inFlight = cli.inFlight /\ s1.draft = cli.draft
      /\ s1.parts = cli.parts /\ s1.partIndex = cli.partIndex /\ s1.pending = cli.pending
  BY <1>1 DEF Clients
<1> HIDE DEF s1
<1>0. 1 \in 0..(SeqSpace - 1) BY Constants
<1>4. s2 \in Clients /\ s2.pc = s1.pc /\ s2.inFlight = s1.inFlight /\ s2.draft = s1.draft
      /\ s2.parts = s1.parts /\ s2.partIndex = s1.partIndex /\ s2.pending = s1.pending
      /\ s2.txSeq = 1
  BY <1>0, <1>3 DEF Clients
<1> HIDE DEF s2
<1>5. s3 \in Clients /\ s3.pc = s2.pc /\ s3.inFlight = s2.inFlight /\ s3.draft = s2.draft
      /\ s3.parts = s2.parts /\ s3.partIndex = s2.partIndex /\ s3.pending = s2.pending
      /\ s3.txSeq = s2.txSeq /\ s3.ready = FALSE
  BY <1>4 DEF Clients
<1> HIDE DEF s3
<1>6. s4 \in Clients /\ s4.pc = s3.pc /\ s4.inFlight = s3.inFlight /\ s4.draft = s3.draft
      /\ s4.parts = s3.parts /\ s4.partIndex = s3.partIndex /\ s4.pending = s3.pending
      /\ s4.txSeq = s3.txSeq /\ s4.ready = s3.ready
  BY <1>5, EmptySeq DEF Clients
<1> HIDE DEF s4
<1>7. /\ cli'.pc = s4.pc /\ cli'.inFlight = s4.inFlight /\ cli'.draft = s4.draft
      /\ cli'.parts = s4.parts /\ cli'.partIndex = s4.partIndex /\ cli'.pending = s4.pending
      /\ cli'.txSeq = s4.txSeq /\ cli'.ready = s4.ready
  BY <1>2, <1>6 DEF Clients
<1> QED BY <1>2, <1>3, <1>4, <1>5, <1>6, <1>7

\* A new connection begins with HELLO, whatever was left of the old one.
LEMMA DialedWhole ==
  ASSUME TypeInv, Whole, Connects PROVE Whole' /\ Greeting'
<1> DEFINE hello == ClientFrame(0, "HELLO", 1, 1, Chunk(0, 0, FALSE))
           last == LastRan(ran)
           n == Len(issued)
<1>1. /\ cli.pc = "dialing" /\ cli'.pc = "up" /\ cli'.txSeq = 1 /\ cli'.ready = FALSE
      /\ cli'.inFlight = cli.inFlight /\ cli'.draft = cli.draft
      /\ cli'.parts = cli.parts /\ cli'.partIndex = cli.partIndex
      /\ cli'.pending = cli.pending /\ issued' = issued
      /\ toServer' = <<hello>> /\ toClient' = <<>> /\ got' = <<>>
      /\ srv' = NewHandler /\ sent' = <<>> /\ ran' = ran
  BY DialedFields DEF Connects, Dialed
<1>2. /\ RunsAsIssued /\ Issues(issued) /\ \A i \in DOMAIN ran : ran[i][1].id \in 1..n
      /\ Pacing(cli, issued, last)
  BY DEF Whole
<1>3. ~cli.inFlight /\ cli.draft = NoSeq /\ cli.parts = Nothing
  BY <1>1, <1>2 DEF Pacing
<1>4. Pacing(cli', issued', last) BY <1>1, <1>2, <1>3 DEF Pacing, Uploading
<1>5. /\ hello.kind = "FRAME" /\ hello.seq = 0 /\ hello.op = "HELLO" /\ hello.k = 1
      /\ hello.fault = "none" /\ hello.chunk.id = 0
  BY DEF ClientFrame, Chunk
<1>6. /\ Len(toServer') = 1 /\ toServer'[1] = hello
      /\ Len(toClient') = 0
  BY <1>1
<1> HIDE DEF hello
<1>7. After(0) = 1 BY Constants DEF After
<1>8. Queued(toServer', cli', issued', last)
  <2> DEFINE q == toServer'
  <2>1. Piece(hello, issued') /\ Passed(hello, cli', n) /\ Before(hello, cli', n)
    BY <1>1, <1>3, <1>5, <1>7 DEF Piece, Greets, Passed, Before, Uploading
  <2>0. Len(q) \in Nat BY <1>6
  <2> HIDE DEF q, n
  <2>2. Linked(hello, q, Len(q), cli', n) BY <2>0, <2>1, LinkedLast
  <2>3. Len(q) = 1 /\ q[1] = hello /\ Len(issued') = n /\ (1 + 1)..1 = {} BY <1>1, <1>6 DEF q, n
  <2>4. ASSUME NEW i \in 1..Len(q), IsFrame(q[i])
        PROVE  /\ Piece(q[i], issued') /\ q[i].op = "HELLO"
               /\ Passed(q[i], cli', Len(issued'))
               /\ Linked(q[i], q, i, cli', Len(issued'))
               /\ \A j \in (i + 1)..Len(q) : IsFrame(q[j]) => Ahead(q[i], q[j])
    <3>1. i = 1 BY <2>3
    <3> QED BY <1>5, <2>1, <2>2, <2>3, <3>1
  <2>5. Queued(q, cli', issued', last) BY <2>4 DEF Queued
  <2> QED BY <2>5 DEF q
<1>9. srv'.parts = <<>> /\ srv'.hello = FALSE /\ srv'.pc = "idle" BY <1>1 DEF NewHandler
<1>10. RunsAsIssued' /\ (\A i \in DOMAIN ran' : ran'[i][1].id \in 1..Len(issued')) /\ Issues(issued')
  BY <1>1, <1>2 DEF RunsAsIssued
<1>11. Whole' BY <1>1, <1>4, <1>8, <1>9, <1>10 DEF Whole
<1>12. Greeting'
  <2>1. \A i \in 1..Len(toServer') : toServer'[i].op = "HELLO"
    <3>1. \A i \in 1..1 : i = 1 OBVIOUS
    <3> QED BY <1>5, <1>6, <3>1
  <2>2. \A i \in 1..Len(toClient') : toClient'[i].kind # "NAK" BY <1>6
  <2> QED BY <1>1, <1>3, <1>9, <2>1, <2>2 DEF Greeting
<1> QED BY <1>11, <1>12

-----------------------------------------------------------------------------
(* The handler and the parts it keeps.                                     *)

\* What the handler knows of the client's frames.
Memory(s) == <<s.parts, s.total, s.lastRx, s.hello>>

LEMMA RetryFields ==
  ASSUME NEW s, Sane(s), s.pc = "await"
  PROVE  Memory(Retry(s)) = Memory(s) /\ Memory(GivenUp(s)) = Memory(s)
<1>1. s \in Handlers /\ s.todo \in Seq(Says) /\ s.todo # <<>> BY DEF Sane, Handlers
<1>2. Head(s.todo) \in Says BY <1>1, HeadTailProperties
<1>3. Head(s.todo).turn \in Nat BY <1>2 DEF Says
<1> DEFINE todo == ErrorReply(Head(s.todo).turn)
<1>4. todo \in Seq(Says) BY <1>3, RepliesType
<1>5. /\ GivenUp(s) \in {[s EXCEPT !.pc = "closed"], Queue(s, todo, "idle")}
      /\ Retry(s) \in {[s EXCEPT !.pc = "send"], GivenUp(s)}
  BY DEF GivenUp, Retry
<1> HIDE DEF todo
<1>6. Memory(Queue(s, todo, "idle")) = Memory(s)
  <2> DEFINE q == Queue(s, todo, "idle")
  <2>1. /\ q.parts = s.parts /\ q.total = s.total /\ q.hello = s.hello /\ q.lastRx = s.lastRx
    BY <1>1, <1>4, QueueFields
  <2> HIDE DEF q
  <2>2. Memory(q) = Memory(s) BY <2>1 DEF Memory
  <2> QED BY <2>2 DEF q
<1>7. /\ Memory([s EXCEPT !.pc = "send"]) = Memory(s)
      /\ Memory([s EXCEPT !.pc = "closed"]) = Memory(s)
  BY <1>1 DEF Memory, Handlers
<1> QED BY <1>5, <1>6, <1>7

LEMMA AckedMemory ==
  ASSUME NEW s, Sane(s), s.pc = "await" PROVE Memory(Acked(s)) = Memory(s)
<1> DEFINE a == Acked(s)
<1>1. /\ a.parts = s.parts /\ a.total = s.total /\ a.hello = s.hello /\ a.lastRx = s.lastRx
  BY AckedFields
<1> HIDE DEF a
<1>2. Memory(a) = Memory(s) BY <1>1 DEF Memory
<1> QED BY <1>2 DEF a

LEMMA AgentMemory ==
  ASSUME ServerTyped, Agent \/ AgentProgress PROVE Memory(srv') = Memory(srv)
<1>1. srv \in Handlers BY DEF ServerTyped, Sane
<1> DEFINE turn == Len(ran)
<1>2. turn \in Nat BY LenProperties DEF ServerTyped
<1> HIDE DEF turn
<1>3. ASSUME NEW todo \in Seq(Says), NEW after \in {"idle", "agent"}
      PROVE  /\ Queue(srv, todo, after) \in Handlers
             /\ Memory(Queue(srv, todo, after)) = Memory(srv)
  <2> DEFINE q == Queue(srv, todo, after)
  <2>1. /\ q.parts = srv.parts /\ q.total = srv.total /\ q.hello = srv.hello
        /\ q.lastRx = srv.lastRx /\ q \in Handlers
    BY <1>1, QueueFields
  <2> HIDE DEF q
  <2>2. Memory(q) = Memory(srv) BY <2>1 DEF Memory
  <2> QED BY <2>1, <2>2 DEF q
<1>4. CASE AgentProgress
  <2> DEFINE todo == <<Say("PROGRESS", turn, 0)>>
             q == Queue(srv, todo, "agent")
  <2>1. todo \in Seq(Says) BY <1>2, SayType, OneSay
  <2>2. srv' = [q EXCEPT !.beats = @ + 1] BY <1>4 DEF AgentProgress, turn
  <2>3. q \in Handlers /\ Memory(q) = Memory(srv) BY <1>3, <2>1
  <2> HIDE DEF q
  <2>4. srv'.parts = q.parts /\ srv'.total = q.total /\ srv'.lastRx = q.lastRx
        /\ srv'.hello = q.hello
    BY <2>2, <2>3 DEF Handlers
  <2> QED BY <2>3, <2>4 DEF Memory
<1>5. CASE AgentReplies
  <2>1. PICK n \in 1..MaxReply : srv' = Queue(srv, Texts(turn, n) \o Prompt(turn), "idle")
    BY <1>5 DEF AgentReplies, turn
  <2>2. Texts(turn, n) \o Prompt(turn) \in Seq(Says) BY <1>2, RepliesType
  <2> QED BY <1>3, <2>1, <2>2
<1>6. CASE AgentFails
  <2>1. srv' = Queue(srv, ErrorReply(turn), "idle") BY <1>6 DEF AgentFails, turn
  <2>2. ErrorReply(turn) \in Seq(Says) BY <1>2, RepliesType
  <2> QED BY <1>3, <2>1, <2>2
<1> QED BY <1>4, <1>5, <1>6 DEF Agent

\* The line that was read is gone.
Took == toServer # <<>> /\ toServer' = Tail(toServer)

\* Outside the main loop nothing of the prompts is touched.
LEMMA AwayStep ==
  ASSUME ServerTyped, ServerNext, srv.pc # "idle"
  PROVE  /\ Memory(srv') = Memory(srv) /\ ran' = ran
         /\ toServer' = toServer \/ Took
         /\ srv.pc \in {"send", "await", "agent"}
<1>0. Sane(srv) BY DEF ServerTyped
<1>1. CASE Transmit
  <2>1. srv' = [srv EXCEPT !.pc = "await", !.tries = @ + 1] BY <1>1 DEF Transmit
  <2>2. Memory(srv') = Memory(srv) BY <1>0, <2>1 DEF Memory, Sane, Handlers
  <2> QED BY <1>1, <2>2 DEF Transmit
<1>2. CASE AckArrives
  BY <1>0, <1>2, AckedMemory DEF AckArrives, Reads, Took
<1>3. CASE NakArrives
  BY <1>0, <1>3, RetryFields DEF NakArrives, Reads, Took
<1>4. CASE FrameTimeout \/ TurnTimesOut
  BY <1>0, <1>4, RetryFields DEF FrameTimeout, TurnTimesOut
<1>5. CASE StaleLine \/ FrameWhileBusy
  BY <1>5 DEF StaleLine, FrameWhileBusy, serverVars, Reads, Took
<1>6. CASE Agent \/ AgentProgress
  <2>1. Memory(srv') = Memory(srv) BY <1>6, AgentMemory
  <2>2. srv.pc = "agent" /\ ran' = ran /\ toServer' = toServer
    BY <1>6 DEF Agent, AgentReplies, AgentFails, AgentProgress
  <2> QED BY <2>1, <2>2
<1>7. CASE MainLoop
  BY <1>7 DEF MainLoop, SkipLine, RejectFault, ReAck, AcceptHello, AcceptMsg, AcceptPart,
              RejectFrame, Reads
<1>8. CASE CommandRaises
  <2>1. Memory(srv') = Memory(srv)
    BY <1>0, <1>8 DEF CommandRaises, Memory, Sane, Handlers
  <2> QED BY <1>8, <2>1 DEF CommandRaises
<1> QED BY <1>1, <1>2, <1>3, <1>4, <1>5, <1>6, <1>7, <1>8 DEF ServerNext, Sender

LEMMA MemoryFields ==
  ASSUME Memory(srv') = Memory(srv)
  PROVE  /\ srv'.parts = srv.parts /\ srv'.total = srv.total
         /\ srv'.lastRx = srv.lastRx /\ srv'.hello = srv.hello
BY DEF Memory

\* A prompt that runs empties the buffer.
LEMMA OpensFields ==
  ASSUME NEW s \in Handlers, Opens(s)
  PROVE  srv'.parts = s.parts /\ srv'.hello = s.hello /\ srv'.lastRx = s.lastRx
<1>1. PICK todo \in Seq(Says) \ {<<>>}, after \in {"idle", "agent"} : srv' = Queue(s, todo, after)
  BY DEF Opens
<1> QED BY <1>1, QueueFields

LEMMA RunFields ==
  ASSUME ServerTyped, NEW prompt \in Seq(Chunks), NEW seq \in 0..SeqSpace, Run(prompt, seq)
  PROVE  /\ ran' = Append(ran, prompt)
         /\ srv'.parts = <<>> /\ srv'.lastRx = seq /\ srv'.hello = srv.hello
<1>1. srv \in Handlers /\ ran \in Seq(Seq(Chunks)) BY DEF ServerTyped, Sane
<1>2. ran' = Append(ran, prompt) BY <1>1, RunQueues
<1>3. PICK s \in Handlers : s.parts = <<>> /\ s.hello = srv.hello /\ s.lastRx = seq /\ Opens(s)
  BY <1>1, RunQueues
<1> QED BY <1>2, <1>3, OpensFields

LEMMA HelloFields ==
  ASSUME ServerTyped, Line \in Frames, AcceptHello
  PROVE  srv'.parts = srv.parts /\ srv'.hello = TRUE /\ srv'.lastRx = Line.seq
<1> DEFINE s0 == [srv EXCEPT !.lastRx = Line.seq]
           s == [s0 EXCEPT !.hello = TRUE]
           todo == <<Say("READY", 0, 0)>>
<1>1. s0 \in Handlers /\ s0.lastRx = Line.seq /\ s0.parts = srv.parts
  BY FrameFields DEF ServerTyped, Sane, Handlers
<1> HIDE DEF s0
<1>2. s \in Handlers /\ s.lastRx = Line.seq /\ s.parts = srv.parts /\ s.hello = TRUE
  BY <1>1 DEF Handlers
<1>3. srv' = Queue(s, todo, "idle") BY DEF AcceptHello, s, s0
<1> HIDE DEF s
<1>4. todo \in Seq(Says) BY SayType, OneSay
<1> HIDE DEF todo
<1> QED BY <1>2, <1>3, <1>4, QueueFields

-----------------------------------------------------------------------------
(* The main loop and the prompts.                                          *)

LEMMA StillWhole ==
  ASSUME TypeInv, Whole, cli' = cli, issued' = issued, ran' = ran,
         toServer' = toServer \/ Took,
         srv'.parts # <<>> => Holding(srv', toServer', cli, issued, LastRan(ran))
  PROVE  Whole'
<1>1. /\ RunsAsIssued /\ Issues(issued) /\ \A i \in DOMAIN ran : ran[i][1].id \in 1..Len(issued)
      /\ Pacing(cli, issued, LastRan(ran)) /\ Queued(toServer, cli, issued, LastRan(ran))
  BY DEF Whole
<1>2. Queued(toServer', cli, issued, LastRan(ran))
  <2>1. CASE toServer' = toServer BY <1>1, <2>1
  <2>2. CASE Took
    <3>1. toServer \in Seq(Wired) BY PromptFacts
    <3> QED BY <1>1, <2>2, <3>1, QueuedTail DEF Took
  <2> QED BY <2>1, <2>2
<1> QED BY <1>1, <1>2 DEF Whole, RunsAsIssued

LEMMA AwayWhole ==
  ASSUME TypeInv, Whole, ServerNext, UNCHANGED clientVars, srv.pc # "idle"
  PROVE  Whole'
<1>1. /\ Memory(srv') = Memory(srv) /\ ran' = ran /\ (toServer' = toServer \/ Took)
      /\ cli' = cli /\ issued' = issued
  BY AwayStep DEF TypeInv, clientVars
<1>2. cli.pc = "up" BY ServerNeedsUp
<1>3. srv.parts = <<>> BY <1>2 DEF Whole, Holding
<1>4. srv'.parts = <<>> BY <1>1, <1>3, MemoryFields
<1> QED BY <1>1, <1>4, StillWhole

\* Behind stored parts comes part 1 of a prompt, or the part that is missing.
LEMMA NextPart ==
  ASSUME TypeInv, Whole, cli.pc = "up", srv.parts # <<>>, toServer # <<>>, IsFrame(toServer[1])
  PROVE  /\ srv.hello /\ toServer[1].seq # srv.lastRx
         /\ srv.total = Len(issued[srv.parts[1].id])
         /\ \A i \in 1..Len(srv.parts) : srv.parts[i] = issued[srv.parts[1].id][i]
         /\ \/ toServer[1].k = 1
            \/ /\ toServer[1].chunk.id = srv.parts[1].id
               /\ toServer[1].k = Len(srv.parts) + 1
<1> DEFINE m == srv.parts[1].id
           f == toServer[1]
<1>1. /\ srv.hello /\ m \in 1..Len(issued) /\ srv.total = Len(issued[m])
      /\ Len(srv.parts) < srv.total
      /\ \A i \in 1..Len(srv.parts) : srv.parts[i] = issued[m][i]
      /\ Linked(Stored(srv), toServer, 0, cli, Len(issued))
  BY DEF Whole, Holding
<1>2. toServer \in Seq(Wired) /\ srv \in Handlers /\ issued \in Seq(Seq(Chunks)) BY PromptFacts
<1>3. Len(toServer) \in Nat /\ Len(toServer) > 0 BY <1>2, TailFacts
<1>4. srv.parts \in Seq(Chunks) BY <1>2 DEF Handlers
<1>5. Len(srv.parts) \in Nat /\ Len(srv.parts) > 0 BY <1>4, LenProperties, EmptySeq
<1>6. Then(Stored(srv), f)
  <2>1. 1 \in (0 + 1)..Len(toServer) /\ (0 + 1)..(1 - 1) = {} BY <1>3
  <2> QED BY <1>1, <2>1 DEF Linked
<1>7. srv.parts[Len(srv.parts)].id = m
  <2> DEFINE l == Len(srv.parts)
  <2>1. issued[m] \in Seq(Chunks) BY <1>1, <1>2, ElementOfSeq
  <2>2. l \in 1..Len(issued[m])
    <3>1. Len(issued[m]) \in Nat BY <2>1, LenProperties
    <3> QED BY <1>1, <1>5, <3>1
  <2>3. srv.parts[l] = issued[m][l] BY <1>1, <1>5
  <2>4. issued[m][l].id = m BY <1>1, <2>2 DEF Whole, Issues
  <2> QED BY <2>3, <2>4
<1>8. f.seq # srv.lastRx
  <2>1. f.seq = After(srv.lastRx) BY <1>6 DEF Then, Stored
  <2>2. srv.lastRx \in 0..SeqSpace BY <1>2 DEF Handlers
  <2>3. SeqSpace \in Nat /\ SeqSpace > 1 BY Constants
  <2>4. CASE srv.lastRx \in 0..(SeqSpace - 1) BY <2>1, <2>4, AfterDiffers
  <2>5. CASE srv.lastRx = SeqSpace
    <3>1. (SeqSpace + 1) % SeqSpace \in 0..(SeqSpace - 1) BY <2>3
    <3> QED BY <2>1, <2>3, <2>5, <3>1 DEF After
  <2> QED BY <2>2, <2>3, <2>4, <2>5
<1>9. f.k = 1 \/ (f.chunk.id = m /\ f.k = Len(srv.parts) + 1)
  BY <1>6, <1>7 DEF Then, Stored
<1> QED BY <1>1, <1>8, <1>9

\* A line that is dropped.
LEMMA SkippedWhole ==
  ASSUME TypeInv, Whole, cli.pc = "up", Took, ~IsFrame(toServer[1]), srv' = srv, ran' = ran,
         cli' = cli, issued' = issued
  PROVE  Whole'
<1>1. toServer \in Seq(Wired) /\ Len(toServer) \in Nat BY PromptFacts, LenProperties
<1>2. ASSUME srv.parts # <<>>
      PROVE  Holding(srv, toServer', cli, issued, LastRan(ran))
  <2>1. Holding(srv, toServer, cli, issued, LastRan(ran)) BY <1>2 DEF Whole
  <2>2. Linked(Stored(srv), toServer, 0, cli, Len(issued)) BY <2>1 DEF Holding
  <2>3. Linked(Stored(srv), toServer, 0 + 1, cli, Len(issued))
    <3>1. 0 + 1 = 1 OBVIOUS
    <3> QED BY <1>1, <2>2, <3>1, LinkedSkip
  <2>4. Linked(Stored(srv), Tail(toServer), 0, cli, Len(issued))
    BY <1>1, <2>3, LinkedTail DEF Took
  <2> QED BY <2>1, <2>4 DEF Holding, Took
<1> QED BY <1>2, StillWhole

\* The frame the host reads is one the client wrote.
LEMMA ReadPiece ==
  ASSUME TypeInv, Whole, Took, IsFrame(toServer[1])
  PROVE  /\ toServer[1] \in Frames /\ Piece(toServer[1], issued) /\ Sound(toServer[1])
         /\ toServer[1].op = "HELLO" \/ LastRan(ran) < toServer[1].chunk.id
         /\ Passed(toServer[1], cli, Len(issued))
         /\ Linked(toServer[1], Tail(toServer), 0, cli, Len(issued))
         /\ \A j \in 1..Len(Tail(toServer)) :
                IsFrame(Tail(toServer)[j]) => Ahead(toServer[1], Tail(toServer)[j])
<1> DEFINE f == toServer[1]
<1>1. toServer \in Seq(Wired) /\ toServer # <<>> BY PromptFacts DEF Took
<1>2. f \in Wired BY <1>1, TailFacts
<1>3. f \in Frames BY <1>2 DEF Wired, IsFrame, Answers
<1>4. Queued(toServer, cli, issued, LastRan(ran)) BY DEF Whole
<1>5. /\ Piece(f, issued) /\ (f.op = "HELLO" \/ LastRan(ran) < f.chunk.id)
      /\ Passed(f, cli, Len(issued))
      /\ Linked(f, Tail(toServer), 0, cli, Len(issued))
      /\ \A j \in 1..Len(Tail(toServer)) : IsFrame(Tail(toServer)[j]) => Ahead(f, Tail(toServer)[j])
  BY <1>1, <1>4, QueuedHead
<1>6. Sound(f) BY <1>5 DEF Piece, Sound
<1> QED BY <1>3, <1>5, <1>6

\* What the host cannot use now it never has to refuse while it keeps parts.
LEMMA RefusedWhole ==
  ASSUME TypeInv, Whole, Greeting, cli.pc = "up", RejectFault \/ ReAck \/ RejectFrame,
         UNCHANGED clientVars
  PROVE  Whole' /\ srv' = srv /\ ran' = ran
<1>1. /\ Took /\ Line = toServer[1] /\ IsFrame(toServer[1]) /\ ran' = ran
      /\ cli' = cli /\ issued' = issued
  <2>1. /\ toServer # <<>> /\ toServer' = Tail(toServer) /\ ran' = ran /\ IsFrame(Line)
    BY DEF RejectFault, ReAck, RejectFrame, Reads, serverVars, Fresh, Sound
  <2>2. toServer \in Seq(Wired) BY PromptFacts
  <2>3. Line = toServer[1] BY <2>1, <2>2, TailFacts DEF Line
  <2> QED BY <2>1, <2>3 DEF Took, clientVars
<1>2. Piece(Line, issued) /\ Sound(Line) BY <1>1, ReadPiece
<1>3. srv' = srv BY <1>2 DEF RejectFault, ReAck, RejectFrame, serverVars
<1>4. ASSUME srv.parts # <<>> PROVE FALSE
  <2> DEFINE m == srv.parts[1].id
  <2>1. /\ srv.hello /\ Line.seq # srv.lastRx /\ srv.total = Len(issued[m])
        /\ Line.k = 1 \/ (Line.chunk.id = m /\ Line.k = Len(srv.parts) + 1)
    BY <1>1, <1>4, NextPart DEF Took
  <2>2. RejectFrame BY <1>2, <2>1 DEF RejectFault, ReAck
  <2>3. Line.op # "HELLO"
    <3>1. toServer \in Seq(Wired) /\ toServer # <<>> BY <1>1, PromptFacts DEF Took
    <3>2. 1 \in 1..Len(toServer) BY <3>1, TailFacts
    <3> QED BY <1>1, <2>1, <3>2 DEF Greeting
  <2>4. Line.op = "MSGP" /\ ~ValidPart(Line) BY <2>1, <2>2, <2>3 DEF RejectFrame
  <2>5. Carried(Line, issued) BY <1>2, <2>4 DEF Piece, Greets
  <2>6. Line.k \in 1..Line.n /\ Line.n = Len(issued[Line.chunk.id]) BY <2>5 DEF Carried
  <2>7. ValidPart(Line) BY <2>1, <2>6 DEF ValidPart
  <2> QED BY <2>4, <2>7
<1> QED BY <1>1, <1>3, <1>4, StillWhole

\* A whole prompt runs, and it is the next one.
LEMMA RanWhole ==
  ASSUME TypeInv, Whole, cli.pc = "up", cli.pending = Nothing, Took, IsFrame(toServer[1]),
         Carried(toServer[1], issued), toServer[1].k = toServer[1].n,
         ran' = Append(ran, issued[toServer[1].chunk.id]), srv'.parts = <<>>,
         cli' = cli, issued' = issued
  PROVE  Whole' /\ LastRan(ran') = toServer[1].chunk.id
<1> DEFINE f == toServer[1]
           m == f.chunk.id
           n == Len(issued)
           last == LastRan(ran)
           t == Tail(toServer)
<1>1. /\ toServer \in Seq(Wired) /\ issued \in Seq(Seq(Chunks)) /\ ran \in Seq(Seq(Chunks))
      /\ n \in Nat /\ last \in Nat /\ last <= n /\ toServer # <<>> /\ toServer' = t
      /\ Len(ran) \in Nat
  BY PromptFacts, LenProperties DEF Took
<1>2. /\ m \in 1..n /\ f.k = Len(issued[m]) /\ f.op # "HELLO"
  BY DEF Carried
<1>3. /\ last < m /\ Passed(f, cli, n)
      /\ \A j \in 1..Len(t) : IsFrame(t[j]) => Ahead(f, t[j])
  BY <1>2, ReadPiece
<1>4. /\ RunsAsIssued /\ Issues(issued) /\ \A i \in DOMAIN ran : ran[i][1].id \in 1..n
      /\ Pacing(cli, issued, last) /\ Queued(toServer, cli, issued, last)
  BY DEF Whole
<1>5. /\ issued[m] \in Seq(Chunks) /\ issued[m] # <<>> /\ issued[m][1].id = m
      /\ Len(issued[m]) \in Nat
  <2>1. issued[m] \in Seq(Chunks) BY <1>1, <1>2, ElementOfSeq
  <2>2. issued[m] # <<>> BY <1>2, <1>4 DEF Issues
  <2>3. Len(issued[m]) \in Nat /\ Len(issued[m]) # 0 BY <2>1, <2>2, LenProperties, EmptySeq
  <2>4. 1 \in 1..Len(issued[m]) BY <2>3
  <2> QED BY <1>2, <1>4, <2>1, <2>2, <2>3, <2>4 DEF Issues
<1> DEFINE p == issued[m]
           r == Append(ran, p)
<1>7. ran' = r OBVIOUS
<1>6. /\ Len(r) = Len(ran) + 1 /\ r[Len(ran) + 1] = p /\ r # <<>>
      /\ \A i \in 1..Len(ran) : r[i] = ran[i]
      /\ DOMAIN r = 1..Len(r) /\ DOMAIN ran = 1..Len(ran)
  <2> DEFINE S == Seq(Chunks)
  <2>1. ran \in Seq(S) /\ p \in S BY <1>1, <1>5
  <2> HIDE DEF S, p, last, n
  <2>2. /\ r \in Seq(S) /\ Len(r) = Len(ran) + 1 /\ r[Len(ran) + 1] = p
        /\ \A i \in 1..Len(ran) : r[i] = ran[i]
    BY <2>1, AppendFacts
  <2> HIDE DEF r
  <2>3. DOMAIN r = 1..Len(r) /\ DOMAIN ran = 1..Len(ran) BY <2>1, <2>2, LenProperties
  <2>4. Len(r) # 0 BY <1>1, <2>2
  <2>5. r # <<>> BY <2>4, EmptySeq
  <2> QED BY <2>2, <2>3, <2>5
<1>0. p = issued[m] /\ p[1].id = m BY <1>5
<1> HIDE DEF t, m, p, r, last, n
<1>8. LastRan(r) = m BY <1>0, <1>1, <1>6 DEF LastRan
<1>9. \A i \in 1..Len(ran) : ran[i][1].id \in 1..n /\ ran[i][1].id <= last
  <2> SUFFICES ASSUME NEW i \in 1..Len(ran) PROVE ran[i][1].id \in 1..n /\ ran[i][1].id <= last
    OBVIOUS
  <2>1. ran[i][1].id \in 1..n BY <1>4, <1>6 DEF n
  <2>2. Len(ran) > 0 /\ Len(ran) \in 1..Len(ran) BY <1>1
  <2>3. last = ran[Len(ran)][1].id
    <3>1. ran # <<>> BY <1>1, <2>2, EmptySeq
    <3> QED BY <3>1 DEF LastRan, last
  <2>4. CASE i = Len(ran)
    <3>1. ran[i][1].id = last BY <2>3, <2>4
    <3> QED BY <1>1, <2>1, <3>1
  <2>5. CASE i # Len(ran)
    <3>1. i < Len(ran) BY <1>1, <2>5
    <3>2. ran[i][1].id < ran[Len(ran)][1].id BY <1>4, <1>6, <2>2, <3>1 DEF RunsAsIssued
    <3>3. ran[i][1].id < last BY <2>3, <3>2
    <3> HIDE DEF last
    <3>4. \A x \in 1..n : x < last => x <= last BY <1>1
    <3> QED BY <2>1, <3>3, <3>4
  <2> QED BY <2>4, <2>5
<1>10. ASSUME NEW i \in DOMAIN r
       PROVE  r[i] = issued[r[i][1].id] /\ r[i][1].id \in 1..n
  <2>1. CASE i = Len(ran) + 1
    <3>1. r[i] = p BY <1>6, <2>1
    <3>2. p[1].id \in 1..n BY <1>0, <1>2 DEF m
    <3> QED BY <1>0, <3>1, <3>2
  <2>2. CASE i # Len(ran) + 1
    <3>1. i \in 1..Len(ran) /\ r[i] = ran[i] BY <1>1, <1>6, <2>2
    <3> QED BY <1>4, <1>6, <1>9, <3>1 DEF RunsAsIssued
  <2> QED BY <2>1, <2>2
<1>11. ASSUME NEW i \in DOMAIN r, NEW j \in DOMAIN r, i < j
       PROVE  r[i][1].id < r[j][1].id
  <2>1. i \in 1..Len(ran) /\ r[i] = ran[i] BY <1>1, <1>6, <1>11
  <2>2. CASE j = Len(ran) + 1
    <3>1. r[j][1].id = m BY <1>0, <1>6, <2>2
    <3>2. ran[i][1].id \in 1..n /\ ran[i][1].id <= last BY <1>9, <2>1
    <3>3. last < m /\ m \in 1..n BY <1>2, <1>3 DEF m, last, n
    <3>4. \A x \in 1..n : x <= last /\ last < m => x < m BY <1>1, <3>3
    <3> QED BY <2>1, <3>1, <3>2, <3>3, <3>4
  <2>3. CASE j # Len(ran) + 1
    <3>1. j \in 1..Len(ran) /\ r[j] = ran[j] BY <1>1, <1>6, <2>3
    <3> QED BY <1>4, <1>6, <1>11, <2>1, <3>1 DEF RunsAsIssued
  <2> QED BY <2>2, <2>3
<1>12. Pacing(cli, issued, m)
  <2>0. m \in 1..n BY <1>2 DEF m, n
  <2>1. m <= n BY <1>1, <2>0
  <2>2. Uploading(cli) => m < n
    <3> SUFFICES ASSUME Uploading(cli), m = n PROVE FALSE
      BY <1>1, <2>0, <2>1
    <3>1. f.k <= cli.partIndex BY <1>3 DEF Passed, Uploading, m, n
    <3>2. cli.parts = issued[n] /\ cli.partIndex \in 1..Len(cli.parts)
          /\ cli.partIndex < Len(cli.parts)
      BY <1>4 DEF Pacing, Uploading, n
    <3>3. f.k = Len(issued[n]) /\ Len(issued[n]) \in Nat BY <1>2, <1>5 DEF m, n
    <3> QED BY <3>1, <3>2, <3>3
  <2> QED BY <1>4, <2>1, <2>2 DEF Pacing, n
<1>13. Queued(t, cli, issued, m)
  <2>1. Queued(t, cli, issued, last) BY <1>1, <1>4, QueuedTail DEF t, last
  <2>2. ASSUME NEW i \in 1..Len(t), IsFrame(t[i])
        PROVE  t[i].op = "HELLO" \/ m < t[i].chunk.id
    <3> SUFFICES ASSUME t[i].op # "HELLO" PROVE m < t[i].chunk.id
      OBVIOUS
    <3>1. Ahead(f, t[i]) BY <1>3, <2>2 DEF t
    <3>2. Carried(t[i], issued) BY <2>1, <2>2 DEF Queued, Piece, Greets
    <3>3. ~(m = t[i].chunk.id /\ f.k < t[i].k)
      <4> SUFFICES ASSUME m = t[i].chunk.id, f.k < t[i].k PROVE FALSE
        OBVIOUS
      <4>1. t[i].k \in 1..Len(issued[m]) /\ f.k = Len(issued[m])
        BY <1>2, <3>2 DEF Carried, m
      <4> QED BY <1>5, <4>1
    <3> QED BY <3>1, <3>3 DEF Ahead, m
  <2> QED BY <2>1, <2>2, QueuedStays
<1>14. RunsAsIssued' /\ \A i \in DOMAIN ran' : ran'[i][1].id \in 1..Len(issued')
  BY <1>7, <1>10, <1>11 DEF RunsAsIssued, n
<1>15. Whole' BY <1>1, <1>4, <1>7, <1>8, <1>12, <1>13, <1>14 DEF Whole, t
<1> QED BY <1>7, <1>8, <1>15 DEF m

\* What a frame is linked to depends on its number and part alone.
LEMMA LinkedSame ==
  ASSUME NEW f, NEW g, g.seq = f.seq, g.chunk = f.chunk, g.k = f.k,
         NEW q, NEW i, NEW c, NEW n, Linked(f, q, i, c, n)
  PROVE  Linked(g, q, i, c, n)
BY DEF Linked, Then, Before

\* The buffer holds the prompt's parts up to the one just read.
LEMMA BufferParts ==
  ASSUME TypeInv, Whole, cli.pc = "up", Took, IsFrame(toServer[1]), Line = toServer[1],
         Carried(toServer[1], issued), ValidPart(Line)
  PROVE  /\ Buffer(Line) \in Seq(Chunks) /\ Len(Buffer(Line)) = Line.k
         /\ \A i \in 1..Line.k : Buffer(Line)[i] = issued[Line.chunk.id][i]
<1> DEFINE m == Line.chunk.id
           b == Buffer(Line)
<1>1. Line \in Frames BY ReadPiece
<1>2. b \in Seq(Chunks) /\ Len(b) = Line.k /\ Line.k \in Nat
  BY <1>1, BufferType DEF TypeInv
<1>3. Line.chunk = issued[m][Line.k] /\ Line.k \in 1..Len(issued[m]) BY DEF Carried
<1>4. Line.chunk \in Chunks BY <1>1, FrameFields
<1>5. ASSUME NEW i \in 1..Line.k PROVE b[i] = issued[m][i]
  <2>1. CASE Line.k = 1
    <3>1. b = <<Line.chunk>> /\ i = 1 BY <1>5, <2>1 DEF Buffer
    <3> QED BY <1>3, <2>1, <3>1
  <2>2. CASE Line.k # 1
    <3>1. b = Append(srv.parts, Line.chunk) /\ Line.k = Len(srv.parts) + 1
      BY <2>2 DEF Buffer, ValidPart
    <3>2. srv.parts \in Seq(Chunks) BY DEF TypeInv, ServerTyped, Sane, Handlers
    <3>3. Len(srv.parts) \in Nat /\ Len(srv.parts) # 0 BY <2>2, <3>1, <3>2, LenProperties
    <3>4. srv.parts # <<>> BY <3>2, <3>3, EmptySeq
    <3>5. /\ m = srv.parts[1].id
          /\ \A j \in 1..Len(srv.parts) : srv.parts[j] = issued[srv.parts[1].id][j]
      BY <2>2, <3>4, NextPart DEF Took
    <3> HIDE DEF b, m
    <3>6. /\ b[Len(srv.parts) + 1] = Line.chunk
          /\ \A j \in 1..Len(srv.parts) : b[j] = srv.parts[j]
      BY <1>4, <3>1, <3>2, AppendFacts
    <3>7. CASE i = Line.k BY <1>3, <3>1, <3>6, <3>7 DEF m
    <3>8. CASE i # Line.k
      <4>1. i \in 1..Len(srv.parts) BY <3>1, <3>3, <3>8
      <4> QED BY <3>5, <3>6, <4>1
    <3> QED BY <3>7, <3>8
  <2> QED BY <2>1, <2>2
<1> QED BY <1>2, <1>5

\* Two sequences of the same elements.
LEMMA SameSeq ==
  ASSUME NEW S, NEW s \in Seq(S), NEW t \in Seq(S), Len(s) = Len(t),
         \A i \in 1..Len(s) : s[i] = t[i]
  PROVE  s = t
<1>1. /\ s \in [1..Len(s) -> S] /\ t \in [1..Len(t) -> S] BY LenProperties
<1> QED BY <1>1

\* The line the main loop reads is the first one on the way.
LEMMA AcceptedLine ==
  ASSUME TypeInv, Whole, Greeting, AcceptHello \/ AcceptMsg \/ AcceptPart,
         UNCHANGED clientVars
  PROVE  /\ Took /\ Line = toServer[1] /\ IsFrame(toServer[1]) /\ srv.pc = "idle"
         /\ cli' = cli /\ issued' = issued /\ Line \in Frames /\ ServerTyped
         /\ srv.hello <=> Line.op # "HELLO"
         /\ Line.op = "HELLO" \/ (Carried(Line, issued) /\ got # <<>> /\ cli.pending = Nothing)
<1>1. /\ toServer # <<>> /\ toServer' = Tail(toServer) /\ IsFrame(Line) /\ srv.pc = "idle"
      /\ srv.hello <=> Line.op # "HELLO"
  BY DEF AcceptHello, AcceptMsg, AcceptPart, Reads, Fresh, Sound
<1>2. toServer \in Seq(Wired) BY PromptFacts
<1>3. Line = toServer[1] BY <1>1, <1>2, TailFacts DEF Line
<1>4. Took /\ IsFrame(toServer[1]) BY <1>1, <1>3 DEF Took
<1>5. Line \in Frames /\ Piece(Line, issued) BY <1>3, <1>4, ReadPiece
<1>6. 1 \in 1..Len(toServer) BY <1>1, <1>2, TailFacts
<1>7. ASSUME Line.op # "HELLO" PROVE Carried(Line, issued) /\ got # <<>> /\ cli.pending = Nothing
  <2>1. got # <<>> BY <1>3, <1>4, <1>6, <1>7 DEF Greeting
  <2>2. Carried(Line, issued) BY <1>5, <1>7 DEF Piece, Greets
  <2> QED BY <2>1, <2>2 DEF Greeting
<1> QED BY <1>1, <1>3, <1>4, <1>5, <1>7 DEF clientVars, TypeInv

\* HELLO comes before any part.
LEMMA AcceptHelloWhole ==
  ASSUME TypeInv, Whole, Greeting, cli.pc = "up", AcceptHello, UNCHANGED clientVars
  PROVE  Whole' /\ ran' = ran /\ srv'.lastRx = Line.seq
<1>1. Took /\ cli' = cli /\ issued' = issued /\ Line \in Frames /\ ServerTyped
  BY AcceptedLine
<1>2. srv'.parts = srv.parts /\ srv'.lastRx = Line.seq BY <1>1, HelloFields
<1>3. ~srv.hello /\ ran' = ran BY DEF AcceptHello
<1>4. srv.parts = <<>> BY <1>3 DEF Whole, Holding
<1> QED BY <1>1, <1>2, <1>3, <1>4, StillWhole

\* A prompt in one frame.
LEMMA AcceptMsgWhole ==
  ASSUME TypeInv, Whole, Greeting, cli.pc = "up", AcceptMsg, UNCHANGED clientVars
  PROVE  Whole' /\ srv'.lastRx = Line.seq /\ Line.k = Line.n /\ LastRan(ran') = Line.chunk.id
<1>1. /\ Took /\ Line = toServer[1] /\ IsFrame(toServer[1])
      /\ cli' = cli /\ issued' = issued /\ Line \in Frames /\ ServerTyped
      /\ Line.op = "HELLO" \/ (Carried(Line, issued) /\ cli.pending = Nothing)
  BY AcceptedLine
<1>2. Line.op = "MSG" /\ Run(<<Line.chunk>>, Line.seq) BY DEF AcceptMsg
<1>3. Carried(Line, issued) /\ cli.pending = Nothing BY <1>1, <1>2
<1> DEFINE p == issued[Line.chunk.id]
<1>4. p \in Seq(Chunks)
  <2>1. issued \in Seq(Seq(Chunks)) BY PromptFacts
  <2>2. Line.chunk.id \in 1..Len(issued) BY <1>3 DEF Carried
  <2> QED BY <2>1, <2>2, ElementOfSeq
<1>5. Len(p) = 1 /\ Line.k = 1 /\ Line.n = 1 /\ p[1] = Line.chunk
  <2>1. Line.n = 1 BY <1>2, <1>3 DEF Carried
  <2>2. Line.n = Len(p) /\ Line.k \in 1..Len(p) /\ Line.chunk = p[Line.k] BY <1>3 DEF Carried
  <2>3. Line.k = 1 BY <2>1, <2>2
  <2> QED BY <2>1, <2>2, <2>3
<1>6. Line.chunk \in Chunks /\ Line.seq \in 0..SeqSpace BY <1>1, FrameFields
<1>7. <<Line.chunk>> = p
  <2>1. <<Line.chunk>> \in Seq(Chunks) /\ Len(<<Line.chunk>>) = 1 /\ <<Line.chunk>>[1] = Line.chunk
    BY <1>6
  <2> HIDE DEF p
  <2> DEFINE q == <<Line.chunk>>
  <2> HIDE DEF q
  <2>2. q \in Seq(Chunks) /\ Len(q) = 1 /\ q[1] = Line.chunk BY <2>1 DEF q
  <2>3. \A i \in 1..Len(q) : q[i] = p[i] BY <1>5, <2>2
  <2>4. q = p BY <1>4, <1>5, <2>2, <2>3, SameSeq
  <2> QED BY <2>4 DEF q
<1>8. ran' = Append(ran, p) /\ srv'.parts = <<>> /\ srv'.lastRx = Line.seq
  <2>1. Run(p, Line.seq) BY <1>2, <1>7
  <2> HIDE DEF p
  <2> QED BY <1>1, <1>4, <1>6, <2>1, RunFields
<1>9. Line.k = Line.n BY <1>5
<1> QED BY <1>1, <1>3, <1>8, <1>9, RanWhole

\* A part: the prompt is not complete, or runs.
LEMMA AcceptPartWhole ==
  ASSUME TypeInv, Whole, Greeting, cli.pc = "up", AcceptPart, UNCHANGED clientVars
  PROVE  /\ Whole' /\ srv'.lastRx = Line.seq
         /\ \/ Line.k < Line.n /\ ran' = ran /\ srv'.pc = "idle" /\ srv'.hello = srv.hello
            \/ Line.k = Line.n /\ LastRan(ran') = Line.chunk.id
<1>1. /\ Took /\ Line = toServer[1] /\ IsFrame(toServer[1])
      /\ cli' = cli /\ issued' = issued /\ Line \in Frames /\ ServerTyped
      /\ Line.op = "HELLO" \/ (Carried(Line, issued) /\ cli.pending = Nothing)
  BY AcceptedLine
<1>2. Line.op = "MSGP" /\ ValidPart(Line) /\ srv.hello BY DEF AcceptPart
<1>3. Carried(Line, issued) /\ cli.pending = Nothing BY <1>1, <1>2
<1> DEFINE m == Line.chunk.id
           b == Buffer(Line)
           p == issued[m]
<1>4. b \in Seq(Chunks) /\ Len(b) = Line.k /\ \A i \in 1..Line.k : b[i] = p[i]
  BY <1>1, <1>2, <1>3, BufferParts
<1>5. /\ m \in 1..Len(issued) /\ Line.k \in 1..Len(p) /\ Line.n = Len(p)
      /\ Line.chunk = p[Line.k]
  BY <1>3 DEF Carried
<1>6. p \in Seq(Chunks) /\ Len(p) \in Nat /\ p[1].id = m
  <2>1. issued \in Seq(Seq(Chunks)) BY PromptFacts
  <2>2. p \in Seq(Chunks) BY <1>5, <2>1, ElementOfSeq
  <2>3. Len(p) \in Nat BY <2>2, LenProperties
  <2>4. 1 \in 1..Len(p) BY <1>5, <2>3
  <2>5. p[1].id = m BY <1>5, <2>4 DEF Whole, Issues
  <2> QED BY <2>2, <2>3, <2>5
<1>7. CASE Line.k < Line.n /\ ran' = ran /\ srv'.parts = b /\ srv'.total = Line.n
           /\ srv'.hello = srv.hello /\ srv'.lastRx = Line.seq /\ srv'.pc = "idle"
  <2>1. srv'.parts = b /\ srv'.total = Len(p) /\ Len(srv'.parts) = Line.k
        /\ srv'.lastRx = Line.seq /\ srv'.pc = "idle" /\ srv'.hello /\ toServer' = Tail(toServer)
    BY <1>1, <1>2, <1>4, <1>5, <1>7 DEF Took
  <2>2. /\ LastRan(ran) < m /\ Linked(Line, Tail(toServer), 0, cli, Len(issued))
    BY <1>1, <1>2, ReadPiece
  <2>3. /\ srv'.parts[1] = p[1] /\ srv'.parts[Line.k] = Line.chunk
    <3>1. 1 \in 1..Line.k /\ Line.k \in 1..Line.k BY <1>5, <1>6
    <3> QED BY <1>4, <1>5, <2>1, <3>1
  <2>4. Stored(srv').seq = Line.seq /\ Stored(srv').chunk = Line.chunk /\ Stored(srv').k = Line.k
    BY <2>1, <2>3 DEF Stored
  <2>5. Linked(Stored(srv'), toServer', 0, cli, Len(issued))
    <3> DEFINE g == Stored(srv')
               q == Tail(toServer)
    <3>1. g.seq = Line.seq /\ g.chunk = Line.chunk /\ g.k = Line.k BY <2>4
    <3>2. toServer' = q BY <2>1
    <3> HIDE DEF g, q
    <3>3. Linked(Line, q, 0, cli, Len(issued)) BY <2>2 DEF q
    <3>4. Linked(g, q, 0, cli, Len(issued)) BY <3>1, <3>3, LinkedSame
    <3> QED BY <3>2, <3>4 DEF g
  <2>6. srv'.parts[1].id = m BY <1>6, <2>3
  <2>7. Holding(srv', toServer', cli, issued, LastRan(ran))
    <3>1. \A i \in 1..Len(srv'.parts) : srv'.parts[i] = p[i] BY <1>4, <2>1
    <3>2. Len(srv'.parts) < srv'.total BY <1>5, <1>7, <2>1
    <3> QED BY <1>5, <2>1, <2>2, <2>5, <2>6, <3>1, <3>2 DEF Holding
  <2>8. toServer' = toServer \/ Took BY <1>1
  <2>9. Whole' BY <1>1, <1>7, <2>7, <2>8, StillWhole
  <2> QED BY <1>7, <2>9
<1>8. CASE Line.k = Line.n /\ Run(b, Line.seq)
  <2>1. b = p
    <3> HIDE DEF b, p
    <3> QED BY <1>4, <1>5, <1>6, <1>8, SameSeq
  <2>2. Line.seq \in 0..SeqSpace BY <1>1, FrameFields
  <2>3. ran' = Append(ran, p) /\ srv'.parts = <<>> /\ srv'.lastRx = Line.seq
    <3>1. Run(p, Line.seq) BY <1>8, <2>1
    <3> HIDE DEF p
    <3> QED BY <1>1, <1>6, <2>2, <3>1, RunFields
  <2>4. Whole' /\ LastRan(ran') = Line.chunk.id
    BY <1>1, <1>3, <1>8, <2>3, RanWhole
  <2> QED BY <1>8, <2>3, <2>4
<1> QED BY <1>1, <1>7, <1>8, PartEffect

\* What of the greeting the host's steps concern.
Opened ==
    /\ ~srv.hello => srv.pc \in {"idle", "closed"} /\ sent = <<>>
    /\ srv.hello /\ sent = <<>> =>
           \/ srv.pc = "closed"
           \/ srv.pc = "send" /\ srv.tries = 0 /\ srv.todo[1].op = "READY"
    /\ sent # <<>> => sent[1].op = "READY"

NoNaks(q) == \A i \in 1..Len(q) : q[i].kind # "NAK"

LEMMA NoNaksMore ==
  ASSUME NEW S, NEW q \in Seq(S), NEW m \in S, NoNaks(q), m.kind # "NAK"
  PROVE  NoNaks(Append(q, m))
<1> DEFINE r == Append(q, m)
<1>1. /\ Len(q) \in Nat /\ Len(r) = Len(q) + 1 /\ r[Len(q) + 1] = m
      /\ \A j \in 1..Len(q) : r[j] = q[j]
  BY AppendFacts
<1> HIDE DEF r
<1>2. ASSUME NEW i \in 1..Len(r) PROVE r[i].kind # "NAK"
  <2>1. i \in 1..Len(q) \/ i = Len(q) + 1 BY <1>1
  <2> QED BY <1>1, <2>1 DEF NoNaks
<1>3. NoNaks(r) BY <1>2 DEF NoNaks
<1> QED BY <1>3 DEF r

LEMMA GreetingStays ==
  ASSUME TypeInv, Greeting, toServer' = toServer \/ Took, UNCHANGED clientVars,
         srv'.hello = srv.hello, Opened', got = <<>> => NoNaks(toClient')
  PROVE  Greeting'
<1>1. cli' = cli /\ got' = got BY DEF clientVars
<1>2. ASSUME NEW i \in 1..Len(toServer'), IsFrame(toServer'[i])
      PROVE  /\ toServer'[i].op = "HELLO" => ~srv.hello
             /\ got = <<>> => toServer'[i].op = "HELLO"
  <2>1. PICK j \in 1..Len(toServer) : toServer'[i] = toServer[j]
    <3>1. CASE toServer' = toServer BY <1>2, <3>1
    <3>2. CASE Took
      <4>1. toServer \in Seq(Answers \union Frames) BY DEF TypeInv, ServerTyped
      <4>2. toServer # <<>> /\ toServer' = Tail(toServer) BY <3>2 DEF Took
      <4>3. /\ Len(toServer) \in Nat /\ Len(toServer') = Len(toServer) - 1
            /\ toServer'[i] = toServer[i + 1]
        BY <1>2, <4>1, <4>2, TailFacts
      <4>4. i + 1 \in 1..Len(toServer) BY <4>3
      <4> QED BY <4>3, <4>4
    <3> QED BY <3>1, <3>2
  <2> QED BY <1>2, <2>1 DEF Greeting
<1>3. /\ got = <<>> =>
             /\ ~cli.ready /\ ~cli.inFlight /\ cli.draft = NoSeq /\ cli.parts = Nothing
      /\ got # <<>> => cli.pending = Nothing
  BY DEF Greeting
<1>4. got = <<>> => \A i \in 1..Len(toClient') : toClient'[i].kind # "NAK" BY DEF NoNaks
<1> QED BY <1>1, <1>2, <1>3, <1>4 DEF Greeting, Opened

\* The greeting makes room for the frames it allows only.
LEMMA GreetingFacts ==
  ASSUME TypeInv, Greeting
  PROVE  /\ Opened /\ (got = <<>> => NoNaks(toClient))
         /\ srv.hello /\ toServer # <<>> /\ IsFrame(toServer[1]) => got # <<>>
         /\ toClient \in Seq(Answers \union HostFrames) /\ srv \in Handlers
         /\ sent \in Seq(HostFrames)
<1>1. toServer \in Seq(Answers \union Frames) /\ toClient \in Seq(Answers \union HostFrames)
      /\ srv \in Handlers /\ sent \in Seq(HostFrames)
  BY DEF TypeInv, ServerTyped, Sane, ClientTyped
<1>2. ASSUME srv.hello, toServer # <<>>, IsFrame(toServer[1]) PROVE got # <<>>
  <2>1. 1 \in 1..Len(toServer) BY <1>1, <1>2, TailFacts
  <2> QED BY <1>2, <2>1 DEF Greeting
<1> QED BY <1>1, <1>2 DEF Greeting, Opened, NoNaks

\* send_frame writes READY first.
LEMMA TransmitGreeting ==
  ASSUME TypeInv, Greeting, Numbered(srv, sent), Transmit, UNCHANGED clientVars
  PROVE  Greeting'
<1>1. /\ Opened /\ (got = <<>> => NoNaks(toClient)) /\ srv \in Handlers
      /\ toClient \in Seq(Answers \union HostFrames) /\ sent \in Seq(HostFrames)
  BY GreetingFacts
<1>2. /\ srv.pc = "send" /\ toServer' = toServer
      /\ srv' = [srv EXCEPT !.pc = "await", !.tries = @ + 1]
      /\ sent' = IF srv.tries = 0
                 THEN Append(sent, HostFrame(srv.txSeq, Head(srv.todo))) ELSE sent
  BY DEF Transmit
<1>3. srv.hello /\ srv'.hello = srv.hello BY <1>1, <1>2 DEF Opened, Handlers
<1>4. PICK f \in HostFrames : toClient' = Append(toClient, f) /\ sent' # <<>>
  BY <1>1, TransmitNumbered DEF TypeInv
<1>5. f.kind = "FRAME" BY DEF HostFrames
<1>6. got = <<>> => NoNaks(toClient')
  <2>1. f \in Answers \union HostFrames /\ f.kind # "NAK" BY <1>5
  <2> QED BY <1>1, <1>4, <2>1, NoNaksMore
<1>7. sent'[1].op = "READY"
  <2>1. CASE sent = <<>>
    <3>1. srv.tries = 0 /\ srv.todo[1].op = "READY" BY <1>1, <1>2, <1>3, <2>1 DEF Opened
    <3> DEFINE g == HostFrame(srv.txSeq, Head(srv.todo))
    <3>2. srv.todo \in Seq(Says) /\ srv.todo # <<>>
      BY <1>2 DEF TypeInv, ServerTyped, Sane, Handlers
    <3>3. Head(srv.todo) = srv.todo[1] BY <3>2, TailFacts
    <3>4. g.op = "READY" BY <3>1, <3>3 DEF HostFrame
    <3>5. sent' = Append(sent, g) BY <1>2, <3>1
    <3> HIDE DEF g
    <3>6. sent' = <<g>> BY <2>1, <3>5
    <3> QED BY <3>4, <3>6
  <2>2. CASE sent # <<>>
    <3> DEFINE g == HostFrame(srv.txSeq, Head(srv.todo))
    <3>1. sent' = sent \/ sent' = Append(sent, g) BY <1>2
    <3> HIDE DEF g
    <3>2. Len(sent) \in Nat /\ Len(sent) # 0 BY <1>1, <2>2, LenProperties, EmptySeq
    <3>3. 1 \in 1..Len(sent) BY <3>2
    <3>4. sent'[1] = sent[1] BY <3>1, <3>3, <1>1
    <3> QED BY <1>1, <2>2, <3>4 DEF Opened
  <2> QED BY <2>1, <2>2
<1>8. Opened' BY <1>3, <1>4, <1>7 DEF Opened
<1> QED BY <1>2, <1>3, <1>6, <1>8, GreetingStays

\* Outside the main loop: READY has been written, or is written now.
LEMMA AwayGreeting ==
  ASSUME TypeInv, Greeting, Numbered(srv, sent), ServerNext, UNCHANGED clientVars,
         srv.pc # "idle"
  PROVE  Greeting'
<1>1. /\ Opened /\ (got = <<>> => NoNaks(toClient)) /\ srv \in Handlers
      /\ toClient \in Seq(Answers \union HostFrames)
      /\ srv.hello /\ toServer # <<>> /\ IsFrame(toServer[1]) => got # <<>>
  BY GreetingFacts
<1>2. /\ srv'.hello = srv.hello /\ (toServer' = toServer \/ Took)
      /\ srv.pc \in {"send", "await", "agent"}
  BY AwayStep, MemoryFields DEF TypeInv
<1>3. srv.hello BY <1>1, <1>2 DEF Opened
<1>4. CASE Transmit BY <1>4, TransmitGreeting
<1>5. CASE FrameWhileBusy
  <2>1. /\ srv.pc = "await" /\ sent' = sent /\ toServer # <<>> /\ IsFrame(Line)
    BY <1>5 DEF FrameWhileBusy, serverVars, Reads
  <2>2. toServer \in Seq(Answers \union Frames) BY DEF TypeInv, ServerTyped
  <2>3. Line = toServer[1] BY <2>1, <2>2, TailFacts DEF Line
  <2>4. got # <<>> BY <1>1, <1>3, <2>1, <2>3
  <2>5. Opened' BY <1>1, <1>2, <1>3, <2>1 DEF Opened
  <2> QED BY <1>2, <2>4, <2>5, GreetingStays
<1>6. CASE \/ AckArrives \/ NakArrives \/ FrameTimeout \/ StaleLine
           \/ Agent \/ AgentProgress \/ TurnTimesOut
  <2>1. srv.pc # "send" /\ sent' = sent /\ toClient' = toClient
    BY <1>6 DEF AckArrives, NakArrives, FrameTimeout, StaleLine, Agent, AgentProgress,
                AgentReplies, AgentFails, TurnTimesOut, serverVars, Reads
  <2>2. Opened' BY <1>1, <1>2, <1>3, <2>1 DEF Opened
  <2> QED BY <1>1, <1>2, <2>1, <2>2, GreetingStays
<1>7. CASE MainLoop
  BY <1>2, <1>7 DEF MainLoop, SkipLine, RejectFault, ReAck, AcceptHello, AcceptMsg, AcceptPart,
              RejectFrame, Reads
<1>8. CASE CommandRaises
  <2>1. srv'.pc = "closed" /\ sent' = sent /\ toClient' = toClient
    BY <1>1, <1>8 DEF CommandRaises, Handlers
  <2>2. Opened' BY <1>1, <1>2, <1>3, <2>1 DEF Opened
  <2> QED BY <1>1, <1>2, <2>1, <2>2, GreetingStays
<1> QED BY <1>4, <1>5, <1>6, <1>7, <1>8 DEF ServerNext, Sender

\* A line dropped or refused in the main loop.
LEMMA RefusedGreeting ==
  ASSUME TypeInv, Whole, Greeting, cli.pc = "up",
         SkipLine \/ RejectFault \/ ReAck \/ RejectFrame, UNCHANGED clientVars
  PROVE  Greeting'
<1>1. /\ Opened /\ (got = <<>> => NoNaks(toClient)) /\ srv \in Handlers
      /\ toClient \in Seq(Answers \union HostFrames)
  BY GreetingFacts
<1>2. Took /\ sent' = sent /\ Line = toServer[1]
  <2>1. toServer # <<>> /\ toServer' = Tail(toServer) /\ sent' = sent
    BY DEF SkipLine, RejectFault, ReAck, RejectFrame, Reads, serverVars
  <2>2. toServer \in Seq(Wired) BY PromptFacts
  <2> QED BY <2>1, <2>2, TailFacts DEF Took, Line
<1>3. srv' = srv BY RefusedWhole DEF SkipLine, serverVars
<1>4. Opened' BY <1>1, <1>2, <1>3 DEF Opened
<1>5. ASSUME got = <<>> PROVE NoNaks(toClient')
  <2>1. CASE SkipLine BY <1>1, <1>5, <2>1 DEF SkipLine
  <2>2. CASE ~SkipLine
    <3>1. IsFrame(Line)
      BY <2>2 DEF RejectFault, ReAck, RejectFrame, Fresh, Sound
    <3>2. Line \in Frames /\ Sound(Line) BY <1>2, <3>1, ReadPiece
    <3>3. Line.op = "HELLO" /\ ~srv.hello
      <4>1. 1 \in 1..Len(toServer)
        <5>1. toServer \in Seq(Wired) /\ toServer # <<>> BY <1>2, PromptFacts DEF Took
        <5> QED BY <5>1, TailFacts
      <4> QED BY <1>2, <1>5, <3>1, <4>1 DEF Greeting
    <3>4. ReAck BY <2>2, <3>2, <3>3 DEF RejectFault, RejectFrame
    <3>5. toClient' = Append(toClient, AckLine(Line.seq)) BY <3>4 DEF ReAck, Reply
    <3>6. AckLine(Line.seq) \in Answers \union HostFrames /\ AckLine(Line.seq).kind = "ACK"
      BY <3>2, FrameFields, AnswerTypes DEF AckLine
    <3> QED BY <1>1, <1>5, <3>5, <3>6, NoNaksMore
  <2> QED BY <2>1, <2>2
<1> QED BY <1>2, <1>3, <1>4, <1>5, GreetingStays

\* HELLO is accepted once, and READY answers it.
LEMMA HelloGreeting ==
  ASSUME TypeInv, Whole, Greeting, cli.pc = "up", AcceptHello, UNCHANGED clientVars
  PROVE  Greeting'
<1>1. /\ Opened /\ (got = <<>> => NoNaks(toClient)) /\ srv \in Handlers
      /\ toClient \in Seq(Answers \union HostFrames)
  BY GreetingFacts
<1>2. /\ Took /\ Line = toServer[1] /\ IsFrame(toServer[1]) /\ Line \in Frames
      /\ ServerTyped /\ cli' = cli /\ got' = got
  BY AcceptedLine DEF clientVars
<1>3. Line.op = "HELLO" /\ sent' = sent /\ toClient' = Append(toClient, AckLine(Line.seq)) /\ ~srv.hello
  BY DEF AcceptHello, Accept, Reply
<1>4. /\ srv'.hello = TRUE /\ srv'.pc = "send" /\ srv'.tries = 0 /\ srv'.todo[1].op = "READY"
  BY <1>2, HelloFields, HelloQueues
<1>5. Opened' BY <1>1, <1>3, <1>4 DEF Opened
<1>6. ASSUME NEW i \in 1..Len(toServer'), IsFrame(toServer'[i])
      PROVE  toServer'[i].op # "HELLO" /\ got # <<>>
  <2> DEFINE t == Tail(toServer)
  <2>1. toServer \in Seq(Wired) /\ toServer # <<>> /\ toServer' = t BY <1>2, PromptFacts DEF Took
  <2>2. /\ Piece(Line, issued) /\ Ahead(Line, t[i]) BY <1>2, <1>6, <2>1, ReadPiece
  <2>3. i + 1 \in 1..Len(toServer) /\ t[i] = toServer[i + 1] BY <1>6, <2>1, TailFacts
  <2>4. Piece(t[i], issued) BY <1>6, <2>1, <2>3 DEF Whole, Queued
  <2>5. t[i].op # "HELLO"
    <3> SUFFICES ASSUME t[i].op = "HELLO" PROVE FALSE
      OBVIOUS
    <3>1. ~Carried(t[i], issued) BY DEF Carried
    <3>2. t[i].chunk.id = 0 /\ t[i].k = 1 BY <2>4, <3>1 DEF Piece, Greets
    <3>3. ~Carried(Line, issued) BY <1>3 DEF Carried
    <3>4. Line.chunk.id = 0 /\ Line.k = 1 BY <2>2, <3>3 DEF Piece, Greets
    <3> DEFINE x == Line.chunk.id
               y == t[i].chunk.id
               k == Line.k
               l == t[i].k
    <3>5. x < y \/ (x = y /\ k < l) BY <2>2 DEF Ahead
    <3>6. x = 0 /\ y = 0 /\ k = 1 /\ l = 1 BY <3>2, <3>4
    <3> HIDE DEF x, y, k, l
    <3> QED BY <3>5, <3>6
  <2>6. got # <<>> BY <1>6, <2>1, <2>3, <2>5 DEF Greeting
  <2> QED BY <2>1, <2>5, <2>6
<1>7. got = <<>> => NoNaks(toClient')
  <2>1. AckLine(Line.seq) \in Answers \union HostFrames /\ AckLine(Line.seq).kind = "ACK"
    BY <1>2, FrameFields, AnswerTypes DEF AckLine
  <2> QED BY <1>1, <1>3, <2>1, NoNaksMore
<1>8. /\ got = <<>> =>
             /\ ~cli.ready /\ ~cli.inFlight /\ cli.draft = NoSeq /\ cli.parts = Nothing
      /\ got # <<>> => cli.pending = Nothing
  BY DEF Greeting
<1> QED BY <1>2, <1>5, <1>6, <1>7, <1>8 DEF Greeting, Opened, NoNaks

\* A prompt, or a part of one, after the handshake.
LEMMA AcceptGreeting ==
  ASSUME TypeInv, Whole, Greeting, cli.pc = "up", AcceptMsg \/ AcceptPart, UNCHANGED clientVars
  PROVE  Greeting'
<1>1. /\ Opened /\ srv \in Handlers BY GreetingFacts
<1>2. /\ Took /\ Line \in Frames /\ ServerTyped /\ srv.pc = "idle" /\ got # <<>>
      /\ srv.hello /\ Line = toServer[1] /\ IsFrame(toServer[1])
  BY AcceptedLine DEF AcceptMsg, AcceptPart
<1>3. sent' = sent BY DEF AcceptMsg, AcceptPart
<1>4. Line.chunk \in Chunks /\ Line.seq \in 0..SeqSpace BY <1>2, FrameFields
<1>5. srv'.hello = srv.hello
  <2>1. CASE AcceptMsg
    <3>1. Run(<<Line.chunk>>, Line.seq) BY <2>1 DEF AcceptMsg
    <3>2. <<Line.chunk>> \in Seq(Chunks) BY <1>4
    <3> QED BY <1>2, <1>4, <3>1, <3>2, RunFields
  <2>2. CASE AcceptPart
    <3>1. CASE Run(Buffer(Line), Line.seq)
      <4>1. Buffer(Line) \in Seq(Chunks) BY <1>2, <2>2, BufferType DEF AcceptPart
      <4> QED BY <1>2, <1>4, <3>1, <4>1, RunFields
    <3> QED BY <1>2, <2>2, <3>1, PartEffect
  <2> QED BY <2>1, <2>2
<1>6. sent # <<>> BY <1>1, <1>2 DEF Opened
<1>7. Opened' BY <1>1, <1>2, <1>3, <1>5, <1>6 DEF Opened
<1> QED BY <1>2, <1>5, <1>7, GreetingStays

\* Every step of the host.
LEMMA ServerWhole ==
  ASSUME TypeInv, LinkInv, Whole, Greeting, cli.pc = "up", ServerRuns
  PROVE  Whole' /\ Greeting'
<1>0. ServerNext /\ UNCHANGED clientVars /\ Numbered(srv, sent) BY DEF ServerRuns, LinkInv
<1>1. CASE srv.pc # "idle" BY <1>0, <1>1, AwayWhole, AwayGreeting
<1>2. CASE srv.pc = "idle"
  <2>1. MainLoop
    BY <1>0, <1>2 DEF ServerNext, Sender, Transmit, AckArrives, NakArrives, StaleLine,
                      FrameWhileBusy, FrameTimeout, Agent, AgentReplies, AgentFails,
                      AgentProgress, TurnTimesOut, CommandRaises, Reads
  <2>2. CASE SkipLine
    <3>1. /\ Took /\ ~IsFrame(toServer[1]) /\ srv' = srv /\ ran' = ran
          /\ cli' = cli /\ issued' = issued
      <4>1. /\ toServer # <<>> /\ toServer' = Tail(toServer) /\ ~IsFrame(Line)
            /\ srv' = srv /\ ran' = ran
        BY <2>2 DEF SkipLine, Reads, serverVars
      <4>2. toServer \in Seq(Wired) BY PromptFacts
      <4>3. Line = toServer[1] BY <4>1, <4>2, TailFacts DEF Line
      <4> QED BY <1>0, <4>1, <4>3 DEF Took, clientVars
    <3> QED BY <1>0, <2>2, <3>1, SkippedWhole, RefusedGreeting
  <2>3. CASE RejectFault \/ ReAck \/ RejectFrame
    BY <1>0, <2>3, RefusedWhole, RefusedGreeting
  <2>4. CASE AcceptHello BY <1>0, <2>4, AcceptHelloWhole, HelloGreeting
  <2>5. CASE AcceptMsg BY <1>0, <2>5, AcceptMsgWhole, AcceptGreeting
  <2>6. CASE AcceptPart BY <1>0, <2>6, AcceptPartWhole, AcceptGreeting
  <2> QED BY <2>1, <2>2, <2>3, <2>4, <2>5, <2>6 DEF MainLoop
<1> QED BY <1>1, <1>2

-----------------------------------------------------------------------------
(* Every step of the system.                                               *)

LEMMA TapsWhole ==
  ASSUME TypeInv, PromptInv, UserTaps PROVE PromptInv'
<1>1. PICK n \in {1, LongParts}, cmd \in BOOLEAN :
          /\ Issue(NewPrompt(n, cmd))
          /\ \/ cli.ready = TRUE /\ SendNow(NewPrompt(n, cmd))
             \/ QueueAndConnect(NewPrompt(n, cmd))
  BY TapCases DEF UserTaps
<1> DEFINE p == NewPrompt(n, cmd)
<1>2. p \in Prompts /\ p # <<>> BY NewPromptType
<1>3. Whole /\ (cli.pc = "up" => Greeting) BY DEF PromptInv
<1>4. CASE cli.ready = TRUE /\ SendNow(p)
  <2>1. cli.pc = "up" /\ cli'.pc = "up"
    <3> HIDE DEF p
    <3> QED BY <1>2, <1>4, SendNowEffect
  <2>2. ServerKept BY <2>1 DEF UserTaps, ServerKept
  <2> QED BY <1>1, <1>3, <1>4, <2>1, <2>2, SendNowWhole DEF PromptInv
<1>5. CASE QueueAndConnect(p)
  <2>1. cli'.pc = "dialing"
    <3> HIDE DEF p
    <3> QED BY <1>2, <1>5, ConnectFields
  <2>2. ran' = ran BY <2>1 DEF UserTaps, HandlerEnds
  <2>3. Whole' BY <1>1, <1>3, <1>5, <2>2, ConnectWhole
  <2> QED BY <2>1, <2>3 DEF PromptInv
<1> QED BY <1>1, <1>4, <1>5

LEMMA PromptNext ==
  ASSUME TypeInv, LinkInv, PromptInv, [Next]_vars PROVE PromptInv'
<1>0. Whole /\ (cli.pc = "up" => Greeting) BY DEF PromptInv
<1>1. CASE ServerRuns
  <2>1. cli.pc = "up" BY <1>1, ServerNeedsUp DEF ServerRuns
  <2> QED BY <1>0, <1>1, <2>1, ServerWhole DEF PromptInv
<1>2. CASE ClientReads
  <2>1. cli.pc = "up" /\ HandleLine /\ ServerKept
    BY <1>2 DEF ClientReads, ServerKept, HandleLine, HearAck, HearOtherAck, HearNak, HearReady,
                HearStatus, HearError, HearText, HearPrompt, Hear, Hears
  <2> QED BY <1>0, <2>1, HeardWhole, HeardGreeting DEF PromptInv
<1>3. CASE UserTaps BY <1>3, TapsWhole
<1>4. CASE Connects BY <1>0, <1>4, DialedWhole DEF PromptInv
<1>5. CASE ConnectFails
  BY <1>0, <1>5, StoppedWhole DEF PromptInv, ConnectFails, serverVars
<1>6. CASE EndOfStream
  BY <1>0, <1>6, StoppedWhole DEF PromptInv, EndOfStream, Dropped, serverVars
<1>7. CASE LinkLost \/ RadioOff
  BY <1>0, <1>7, StoppedWhole DEF PromptInv, LinkLost, RadioOff, Dropped, RadioExpired,
                                  HandlerEnds
<1>8. CASE UNCHANGED vars
  <2>1. /\ cli' = cli /\ issued' = issued /\ got' = got /\ srv' = srv /\ ran' = ran
        /\ sent' = sent /\ toServer' = toServer /\ toClient' = toClient
    BY <1>8 DEF vars, serverVars, clientVars
  <2>2. Whole' BY <1>0, <2>1 DEF Whole, RunsAsIssued
  <2>3. cli.pc = "up" => Greeting' BY <1>0, <2>1 DEF Greeting
  <2> QED BY <2>1, <2>2, <2>3 DEF PromptInv
<1> QED BY <1>1, <1>2, <1>3, <1>4, <1>5, <1>6, <1>7, <1>8 DEF Next

LEMMA InitPrompt == Init => PromptInv
<1> SUFFICES ASSUME Init PROVE PromptInv
  OBVIOUS
<1>1. /\ toServer = <<>> /\ srv = NewHandler /\ ran = <<>> /\ issued = <<>>
      /\ cli.pc = "down" /\ cli.inFlight = FALSE /\ cli.draft = NoSeq
      /\ cli.parts = Nothing /\ cli.pending = Nothing
  BY DEF Init, ServerInit, ClientInit
<1>2. Len(<<>>) = 0 /\ DOMAIN <<>> = {} OBVIOUS
<1>3. RunsAsIssued /\ Issues(issued) /\ \A i \in DOMAIN ran : ran[i][1].id \in 1..Len(issued)
  BY <1>1, <1>2 DEF RunsAsIssued, Issues
<1>4. LastRan(ran) = 0 BY <1>1 DEF LastRan
<1>5. Pacing(cli, issued, 0) BY <1>1, <1>2 DEF Pacing, Uploading
<1>6. Queued(toServer, cli, issued, 0) BY <1>1, <1>2 DEF Queued
<1> QED BY <1>1, <1>3, <1>4, <1>5, <1>6 DEF PromptInv, Whole

\* A prompt runs exactly as the user issued it -- its own parts, all of them, in
\* order -- and no prompt runs twice or after a later one: whatever the host NAKed
\* or answered BUSY, whatever waited for a reconnect, and wherever the client gave
\* an upload up between two parts (native_mode's MSGP buffer, Send, pendingPrompt).
THEOREM PromptsWhole == Spec => []RunsAsIssued
<1>1. Init => TypeInv /\ LinkInv /\ PromptInv BY InitType, InitLink, InitPrompt
<1>2. TypeInv /\ LinkInv /\ PromptInv /\ [Next]_vars => TypeInv' /\ LinkInv' /\ PromptInv'
  BY NextSteps, StepType, LinkNext, PromptNext DEF LinkInv
<1>3. PromptInv => RunsAsIssued BY DEF PromptInv, Whole
<1> QED BY <1>1, <1>2, <1>3, PTL DEF Spec

-----------------------------------------------------------------------------
(* With enough sequence numbers, the ACK of the draft is of the draft.     *)

LEMMA Room ==
  ASSUME NumbersSuffice, NEW n \in Nat, n <= MaxPrompts
  PROVE  LongParts * n \in Nat /\ LongParts * n + 1 < SeqSpace
<1>1. LongParts \in Nat /\ MaxPrompts \in Nat /\ SeqSpace \in Nat
  BY Constants, NewtonClientAssumption
<1> DEFINE d == MaxPrompts - n
<1>2. d \in Nat /\ MaxPrompts = n + d BY <1>1
<1> HIDE DEF d
<1>3. LongParts * d \in Nat /\ LongParts * n \in Nat BY <1>1, <1>2
<1>4. LongParts * (n + d) = LongParts * n + LongParts * d BY <1>1, <1>2
<1>5. LongParts * MaxPrompts = LongParts * n + LongParts * d BY <1>2, <1>4
<1> DEFINE x == LongParts * n
           y == LongParts * d
           z == LongParts * MaxPrompts
<1>6. x \in Nat /\ y \in Nat /\ z = x + y /\ z + 1 < SeqSpace BY <1>3, <1>5 DEF NumbersSuffice
<1> HIDE DEF x, y, z
<1>7. x \in Nat /\ x + 1 < SeqSpace BY <1>1, <1>6
<1> QED BY <1>7 DEF x

LEMMA MoreRoom ==
  ASSUME NEW n \in Nat
  PROVE  /\ LongParts * (n + 1) = LongParts * n + LongParts
         /\ LongParts * n \in Nat
         /\ n > 0 => LongParts <= LongParts * n
<1>1. LongParts \in Nat BY Constants
<1>2. LongParts * (n + 1) = LongParts * n + LongParts /\ LongParts * n \in Nat BY <1>1
<1>3. ASSUME n > 0 PROVE LongParts <= LongParts * n
  <2> DEFINE d == n - 1
  <2>1. d \in Nat /\ n = d + 1 BY <1>3
  <2> HIDE DEF d
  <2>2. LongParts * (d + 1) = LongParts * d + LongParts /\ LongParts * d \in Nat
    BY <1>1, <2>1
  <2> DEFINE x == LongParts * d
  <2>3. LongParts * n = x + LongParts /\ x \in Nat BY <2>1, <2>2
  <2> HIDE DEF x
  <2> QED BY <1>1, <2>3
<1> QED BY <1>2, <1>3

LEMMA AfterNext ==
  ASSUME NEW seq \in Nat, seq + 1 < SeqSpace PROVE After(seq) = seq + 1
<1>1. SeqSpace \in Nat /\ SeqSpace > 1 BY Constants
<1>2. (seq + 1) % SeqSpace = seq + 1 BY <1>1
<1> QED BY <1>2 DEF After

LEMMA HeededTail ==
  ASSUME NEW S, NEW q \in Seq(S), q # <<>>, NEW rx, Heeded(q, rx)
  PROVE  Heeded(Tail(q), rx)
<1> DEFINE t == Tail(q)
<1>1. /\ Len(q) \in Nat /\ Len(t) = Len(q) - 1 /\ \A i \in 1..Len(t) : t[i] = q[i + 1]
  BY TailFacts
<1> HIDE DEF t
<1>2. ASSUME NEW i \in 1..Len(t), t[i].kind = "ACK" PROVE rx # NoSeq /\ t[i].seq <= rx
  <2>1. i + 1 \in 1..Len(q) /\ t[i] = q[i + 1] BY <1>1
  <2> QED BY <1>2, <2>1 DEF Heeded
<1>3. Heeded(t, rx) BY <1>2 DEF Heeded
<1> QED BY <1>3 DEF t

LEMMA HeededMore ==
  ASSUME NEW S, NEW q \in Seq(S), NEW m \in S, NEW rx, Heeded(q, rx),
         m.kind = "ACK" => rx # NoSeq /\ m.seq <= rx
  PROVE  Heeded(Append(q, m), rx)
<1> DEFINE r == Append(q, m)
<1>1. /\ Len(q) \in Nat /\ Len(r) = Len(q) + 1 /\ r[Len(q) + 1] = m
      /\ \A j \in 1..Len(q) : r[j] = q[j]
  BY AppendFacts
<1> HIDE DEF r
<1>2. ASSUME NEW i \in 1..Len(r), r[i].kind = "ACK" PROVE rx # NoSeq /\ r[i].seq <= rx
  <2>1. CASE i = Len(q) + 1 BY <1>1, <1>2, <2>1
  <2>2. CASE i # Len(q) + 1
    <3>1. i \in 1..Len(q) /\ r[i] = q[i] BY <1>1, <2>2
    <3> QED BY <1>2, <3>1 DEF Heeded
  <2> QED BY <2>1, <2>2
<1>3. Heeded(r, rx) BY <1>2 DEF Heeded
<1> QED BY <1>3 DEF r

\* What was acknowledged stays so when the host accepts a later frame.
LEMMA HeededUp ==
  ASSUME NEW q \in Seq(Answers \union HostFrames), NEW rx \in Nat, NEW ry \in Nat,
         Heeded(q, rx), ry # NoSeq, rx # NoSeq => rx < ry
  PROVE  Heeded(q, ry)
<1>1. ASSUME NEW i \in 1..Len(q), q[i].kind = "ACK" PROVE ry # NoSeq /\ q[i].seq <= ry
  <2>1. rx # NoSeq /\ q[i].seq <= rx BY <1>1 DEF Heeded
  <2>2. q[i] \in Answers \union HostFrames BY ElementOfSeq
  <2>3. q[i].seq \in Nat BY <2>2 DEF Answers, HostFrames
  <2> QED BY <2>1, <2>3
<1> QED BY <1>1 DEF Heeded

LEMMA NumberFacts ==
  ASSUME TypeInv, Whole
  PROVE  /\ cli \in Clients /\ cli.txSeq \in Nat /\ cli.txSeq < SeqSpace /\ cli.draft \in Nat
         /\ cli.inFlight \in BOOLEAN
         /\ srv \in Handlers /\ srv.lastRx \in Nat
         /\ Left(cli) \in Nat /\ Len(cli.pending) \in Nat
         /\ toServer \in Seq(Wired) /\ toClient \in Seq(Answers \union HostFrames)
         /\ Len(issued) \in Nat /\ LastRan(ran) \in Nat /\ LastRan(ran) <= Len(issued)
         /\ NoSeq = SeqSpace /\ SeqSpace \in Nat /\ Len(Nothing) = 0
<1>1. /\ cli \in Clients /\ srv \in Handlers /\ toServer \in Seq(Wired)
      /\ Len(issued) \in Nat /\ LastRan(ran) \in Nat /\ LastRan(ran) <= Len(issued)
      /\ toClient \in Seq(Answers \union HostFrames)
  BY PromptFacts DEF TypeInv, ServerTyped
<1>2. SeqSpace \in Nat /\ NoSeq = SeqSpace BY Constants DEF NoSeq
<1>3. /\ cli.txSeq \in 0..(SeqSpace - 1) /\ cli.draft \in 0..SeqSpace /\ cli.parts \in Prompts
      /\ cli.pending \in Prompts /\ cli.partIndex \in Nat /\ cli.inFlight \in BOOLEAN
      /\ srv.lastRx \in 0..SeqSpace
  BY <1>1 DEF Clients, Handlers
<1>4. Len(cli.pending) \in Nat /\ Len(cli.parts) \in Nat BY <1>3, PromptFields, Constants
<1>5. Left(cli) \in Nat
  <2>1. cli.parts # Nothing => cli.partIndex \in 1..Len(cli.parts) BY DEF Whole, Pacing
  <2> QED BY <1>3, <1>4, <2>1 DEF Left
<1>6. Len(Nothing) = 0 BY DEF Nothing
<1> QED BY <1>1, <1>2, <1>3, <1>4, <1>5, <1>6

\* The client reads, and leaves its upload alone or gives it up.
LEMMA NumberedSettles ==
  ASSUME TypeInv, Whole, Numbering, Keeps \/ GivesUp, AnswersOnly,
         cli'.pending \in {cli.pending, Nothing},
         issued' = issued, srv' = srv, ran' = ran, Heeded(toClient', srv.lastRx)
  PROVE  Numbering'
<1> DEFINE n == Len(issued)
           rx == srv.lastRx
<1>1. /\ cli \in Clients /\ cli.txSeq \in Nat /\ Left(cli) \in Nat /\ Len(cli.pending) \in Nat
      /\ n \in Nat /\ toServer \in Seq(Wired) /\ Len(Nothing) = 0 /\ cli.inFlight \in BOOLEAN
  BY NumberFacts
<1>2. LongParts * n \in Nat BY <1>1, MoreRoom
<1>3. cli'.txSeq = cli.txSeq BY DEF Keeps, GivesUp
<1>4. Left(cli') \in Nat /\ Left(cli') <= Left(cli)
  <2>1. CASE Keeps
    <3>1. Left(cli') = Left(cli) BY <2>1 DEF Keeps, Left
    <3> QED BY <1>1, <3>1
  <2>2. CASE GivesUp
    <3>1. Left(cli') = 0 BY <2>2 DEF GivesUp, Left
    <3> QED BY <1>1, <3>1
  <2> QED BY <2>1, <2>2
<1>5. Len(cli'.pending) \in Nat /\ Len(cli'.pending) <= Len(cli.pending)
  <2>1. CASE cli'.pending = cli.pending BY <1>1, <2>1
  <2>2. CASE cli'.pending = Nothing BY <1>1, <2>2
  <2> QED BY <2>1, <2>2
<1>6. cli'.txSeq + Left(cli') + Len(cli'.pending) <= LongParts * n + 1
  <2>1. cli.txSeq + Left(cli) + Len(cli.pending) <= LongParts * n + 1 BY DEF Numbering
  <2> DEFINE x == LongParts * n
  <2>2. x \in Nat /\ cli.txSeq + Left(cli) + Len(cli.pending) <= x + 1 BY <1>2, <2>1
  <2> HIDE DEF x, n
  <2>3. cli'.txSeq + Left(cli') + Len(cli'.pending) <= x + 1
    BY <1>1, <1>3, <1>4, <1>5, <2>2
  <2> QED BY <2>3 DEF x
<1>7. Counted(toServer', cli', n, rx)
  <2>1. Counted(toServer, cli, n, rx) BY DEF Numbering
  <2>2. \/ cli'.draft = NoSeq
        \/ cli'.draft = cli.draft /\ cli'.parts = cli.parts /\ cli'.partIndex = cli.partIndex
    BY DEF Keeps, GivesUp
  <2>3. Counted(toServer, cli', n, rx) BY <1>1, <1>3, <2>1, <2>2, CountedStays
  <2>4. CASE toServer' = toServer BY <2>3, <2>4
  <2>5. ASSUME NEW a \in Answers, toServer' = Append(toServer, a)
        PROVE  Counted(toServer', cli', n, rx)
    <3>1. a \in Wired /\ ~IsFrame(a) BY DEF Wired, IsFrame, Answers
    <3>2. Counted(Append(toServer, a), cli', n, rx) BY <1>1, <2>3, <3>1, CountedAnswer
    <3> QED BY <2>5, <3>2
  <2> QED BY <2>4, <2>5 DEF AnswersOnly
<1>8. cli'.inFlight => cli.inFlight BY <1>1 DEF Keeps, GivesUp
<1>9. CASE Keeps
  <2>1. cli'.draft = cli.draft /\ (Uploading(cli') <=> Uploading(cli))
    BY <1>9 DEF Keeps, Uploading
  <2>2. /\ cli'.draft # NoSeq /\ rx = cli'.draft /\ ~Uploading(cli') => LastRan(ran) = n
        /\ cli'.inFlight /\ cli'.draft = NoSeq => LastRan(ran) = n
        /\ cli'.draft # NoSeq => cli'.draft + 1 = cli'.txSeq
        /\ cli'.inFlight => n > 0
        /\ rx # NoSeq => rx < cli'.txSeq
    BY <1>3, <1>8, <2>1 DEF Numbering
  <2> QED BY <1>6, <1>7, <2>2 DEF Numbering
<1>10. CASE GivesUp
  <2>1. cli'.draft = NoSeq /\ cli'.inFlight = FALSE BY <1>10 DEF GivesUp
  <2>2. rx # NoSeq => rx < cli'.txSeq BY <1>3 DEF Numbering
  <2> QED BY <1>6, <1>7, <2>1, <2>2 DEF Numbering
<1> QED BY <1>9, <1>10

\* The ACK of the last part: the host has accepted that frame and no later one.
LEMMA NumberedEnd ==
  ASSUME TypeInv, Whole, Numbering, toServer' = toServer,
         cli'.txSeq = cli.txSeq, cli'.parts = Nothing, cli'.draft = NoSeq,
         cli'.pending = cli.pending, cli'.inFlight = cli.inFlight, ~Uploading(cli),
         srv.lastRx # NoSeq, cli.draft <= srv.lastRx,
         issued' = issued, srv' = srv, ran' = ran, Heeded(toClient', srv.lastRx)
  PROVE  Numbering'
<1> DEFINE n == Len(issued)
           rx == srv.lastRx
<1>1. /\ cli \in Clients /\ cli.txSeq \in Nat /\ Left(cli) \in Nat /\ Len(cli.pending) \in Nat
      /\ n \in Nat /\ toServer \in Seq(Wired) /\ rx \in Nat /\ cli.draft \in Nat
      /\ cli.txSeq < SeqSpace /\ NoSeq = SeqSpace /\ SeqSpace \in Nat
  BY NumberFacts
<1>2. LongParts * n \in Nat BY <1>1, MoreRoom
<1>3. rx < cli.txSeq BY DEF Numbering
<1>4. cli.draft # NoSeq BY <1>1, <1>3
<1>5. cli.draft + 1 = cli.txSeq BY <1>4 DEF Numbering
<1>6. rx = cli.draft BY <1>1, <1>3, <1>5
<1>7. LastRan(ran) = n BY <1>4, <1>6 DEF Numbering
<1>8. Left(cli') = 0 BY DEF Left
<1>9. cli'.txSeq + Left(cli') + Len(cli'.pending) <= LongParts * n + 1
  <2>1. cli.txSeq + Left(cli) + Len(cli.pending) <= LongParts * n + 1 BY DEF Numbering
  <2> DEFINE x == LongParts * n
  <2>2. x \in Nat /\ cli.txSeq + Left(cli) + Len(cli.pending) <= x + 1 BY <1>2, <2>1
  <2> HIDE DEF x, n
  <2>3. cli'.txSeq + Left(cli') + Len(cli'.pending) <= x + 1 BY <1>1, <1>8, <2>2
  <2> QED BY <2>3 DEF x
<1>10. Counted(toServer', cli', n, rx)
  <2>1. Counted(toServer, cli, n, rx) BY DEF Numbering
  <2>2. Counted(toServer, cli', n, rx) BY <1>1, <2>1, CountedStays
  <2> QED BY <2>2
<1>11. cli'.inFlight => n > 0 BY DEF Numbering
<1> QED BY <1>3, <1>7, <1>9, <1>10, <1>11 DEF Numbering

\* The client writes a frame.
LEMMA NumberedWrites ==
  ASSUME TypeInv, Whole, Numbering,
         NEW t \in Seq(Wired), Counted(t, cli, Len(issued), srv.lastRx),
         NEW g \in Frames, toServer' = Append(t, g), g.seq = cli.txSeq,
         g.chunk.id = Len(issued'),
         g.k = IF cli'.parts = Nothing THEN g.n ELSE cli'.partIndex,
         cli'.txSeq = After(cli.txSeq), cli'.draft = cli.txSeq,
         Left(cli') \in Nat, Len(cli'.pending) \in Nat, Len(issued') \in Nat, Len(issued') > 0,
         NumbersSuffice, Len(issued') <= MaxPrompts,
         cli.txSeq + 1 + Left(cli') + Len(cli'.pending) <= LongParts * Len(issued') + 1,
         srv' = srv, Heeded(toClient', srv.lastRx)
  PROVE  Numbering'
<1> DEFINE m == Len(issued')
           rx == srv.lastRx
           x == LongParts * m
<1>1. /\ cli.txSeq \in Nat /\ cli.txSeq < SeqSpace /\ NoSeq = SeqSpace /\ SeqSpace \in Nat
      /\ rx \in Nat
  BY NumberFacts
<1>2. x \in Nat /\ x + 1 < SeqSpace BY Room
<1>3. cli.txSeq + 1 + Left(cli') + Len(cli'.pending) <= x + 1 OBVIOUS
<1> HIDE DEF x
<1>4. cli.txSeq + 1 < SeqSpace BY <1>1, <1>2, <1>3
<1>5. cli'.txSeq = cli.txSeq + 1 BY <1>1, <1>4, AfterNext
<1>6. cli'.txSeq + Left(cli') + Len(cli'.pending) <= x + 1 BY <1>3, <1>5
<1>7. rx # NoSeq => rx < cli.txSeq BY DEF Numbering
<1>8. Counted(toServer', cli', m, rx)
  <2>1. Counted(Append(t, g), cli', m, rx) BY <1>1, <1>5, <1>7, CountedFrame
  <2> QED BY <2>1
<1>9. rx # NoSeq => rx < cli'.txSeq BY <1>1, <1>5, <1>7
<1>10. cli'.draft # NoSeq /\ ~(rx = cli'.draft) /\ cli'.draft + 1 = cli'.txSeq
  BY <1>1, <1>5, <1>7
<1>11. cli'.txSeq + Left(cli') + Len(cli'.pending) <= LongParts * Len(issued') + 1
  BY <1>6 DEF x
<1> QED BY <1>8, <1>9, <1>10, <1>11 DEF Numbering

LEMMA HeardHeeded ==
  ASSUME TypeInv, Whole, Numbering, HandleLine
  PROVE  /\ Heeded(toClient', srv.lastRx)
         /\ Heard.kind = "ACK" => srv.lastRx # NoSeq /\ Heard.seq <= srv.lastRx
<1>1. toClient # <<>> /\ toClient' = Tail(toClient)
  BY DEF HandleLine, HearAck, HearOtherAck, HearNak, HearReady, HearStatus, HearError, HearText,
         HearPrompt, Hear, Hears
<1>2. toClient \in Seq(Answers \union HostFrames) BY NumberFacts
<1>3. Heeded(toClient, srv.lastRx) BY DEF Numbering
<1>4. Heeded(toClient', srv.lastRx) BY <1>1, <1>2, <1>3, HeededTail
<1>5. Heard = toClient[1] /\ 1 \in 1..Len(toClient) BY <1>1, <1>2, TailFacts DEF Heard
<1> QED BY <1>3, <1>4, <1>5 DEF Heeded

\* What Send and FirstFrame make of a prompt.
LEMMA SendFields ==
  ASSUME NEW c \in Clients, NEW p \in Prompts, p # <<>>,
         NEW d, d = Send(c, p), NEW g, g = FirstFrame(c, p)
  PROVE  /\ g \in Frames /\ g.seq = c.txSeq /\ g.chunk.id = p[1].id
         /\ g.k = IF d.parts = Nothing THEN g.n ELSE d.partIndex
         /\ d.txSeq = After(c.txSeq) /\ d.draft = c.txSeq /\ d.pending = c.pending
         /\ Left(d) \in Nat /\ Left(d) + 1 = Len(p)
<1>1. g \in Frames BY FirstFrameType
<1>2. Len(p) \in Nat /\ Len(p) # 0
  <2>1. p \in Seq(Chunks) BY PromptFields
  <2> QED BY <2>1, LenProperties, EmptySeq
<1>3. /\ d.txSeq = After(c.txSeq) /\ d.draft = c.txSeq /\ d.pending = c.pending
      /\ Len(p) = 1 => d.parts = <<>> /\ d.partIndex = 0
      /\ Len(p) # 1 => d.parts = p /\ d.partIndex = 1
  <2> DEFINE s == Send(c, p)
  <2>1. /\ s.txSeq = After(c.txSeq) /\ s.draft = c.txSeq /\ s.pending = c.pending
        /\ Len(p) = 1 => s.parts = <<>> /\ s.partIndex = 0
        /\ Len(p) # 1 => s.parts = p /\ s.partIndex = 1
    BY SendType
  <2>2. d = s OBVIOUS
  <2> HIDE DEF s
  <2> QED BY <2>1, <2>2
<1>4. CASE Len(p) = 1
  <2>1. g.seq = c.txSeq /\ g.chunk = p[1] /\ g.k = 1 /\ g.n = 1
    BY <1>4 DEF FirstFrame, ClientFrame
  <2>2. d.parts = Nothing BY <1>3, <1>4 DEF Nothing
  <2>3. Left(d) = 0 BY <2>2 DEF Left
  <2> QED BY <1>1, <1>3, <1>4, <2>1, <2>2, <2>3
<1>5. CASE Len(p) # 1
  <2>1. g.seq = c.txSeq /\ g.chunk = p[1] /\ g.k = 1 BY <1>5 DEF FirstFrame, ClientFrame
  <2>2. d.parts # Nothing /\ d.partIndex = 1 /\ d.parts = p BY <1>3, <1>5 DEF Nothing
  <2>3. Left(d) = Len(p) - 1 BY <2>2 DEF Left
  <2>4. Left(d) \in Nat /\ Left(d) + 1 = Len(p) BY <1>2, <2>3
  <2> QED BY <1>1, <1>3, <2>1, <2>2, <2>4
<1> QED BY <1>4, <1>5

LEMMA AckNumbered ==
  ASSUME TypeInv, Whole, Numbering, NumbersSuffice, Len(issued) <= MaxPrompts, ServerKept, HearAck
  PROVE  Numbering'
<1> DEFINE n == Len(issued)
<1>1. ran' = ran /\ srv' = srv BY DEF ServerKept, serverVars
<1>2. /\ issued' = issued /\ cli'.pending = cli.pending /\ cli'.inFlight = cli.inFlight
      /\ Heard.kind = "ACK" /\ Heard.seq = cli.draft
  BY AckFields
<1>3. /\ Heeded(toClient', srv.lastRx) /\ srv.lastRx # NoSeq /\ cli.draft <= srv.lastRx
  BY <1>2, HeardHeeded DEF HandleLine
<1>4. CASE ~(cli.partIndex < Len(cli.parts))
  <2>1. /\ toServer' = toServer /\ cli'.txSeq = cli.txSeq
        /\ cli'.parts = Nothing /\ cli'.draft = NoSeq
    BY <1>4, AckFields
  <2>2. ~Uploading(cli) BY <1>4 DEF Uploading
  <2> QED BY <1>1, <1>2, <1>3, <2>1, <2>2, NumberedEnd
<1>5. CASE cli.partIndex < Len(cli.parts)
  <2>1. /\ cli'.parts = cli.parts /\ cli'.partIndex = cli.partIndex + 1
        /\ cli'.txSeq = After(cli.txSeq) /\ cli'.draft = cli.txSeq
    BY <1>5, AckFields
  <2>2. PICK c \in Clients :
                      /\ c.txSeq = cli.txSeq /\ c.parts = cli.parts
                      /\ c.partIndex = cli.partIndex /\ PartFrame(c) \in Frames
                      /\ toServer' = Append(toServer, PartFrame(c))
    BY <1>5, AckFields
  <2>3. /\ cli \in Clients /\ cli.txSeq \in Nat /\ Left(cli) \in Nat /\ Len(cli.pending) \in Nat
        /\ n \in Nat /\ toServer \in Seq(Wired)
    BY NumberFacts
  <2>4. cli.partIndex \in Nat /\ cli.parts # Nothing /\ Len(cli.parts) \in Nat
    <3>1. cli.partIndex \in Nat /\ cli.parts \in Prompts BY <2>3 DEF Clients
    <3>2. Len(cli.parts) \in Nat BY <3>1, PromptFields, Constants
    <3>3. Len(Nothing) = 0 BY DEF Nothing
    <3> QED BY <1>5, <3>1, <3>2, <3>3
  <2>5. n > 0 /\ cli.parts = issued[n] BY <2>4 DEF Whole, Pacing
  <2> DEFINE g == PartFrame(c)
             j == cli.partIndex + 1
  <2>6. j \in 1..Len(issued[n]) BY <1>5, <2>4, <2>5
  <2>7. issued[n][j].id = n
    <3>1. n \in 1..Len(issued) BY <2>3, <2>5
    <3> QED BY <2>6, <3>1 DEF Whole, Issues
  <2>8. g.seq = cli.txSeq /\ g.chunk = cli.parts[j] /\ g.k = j
    BY <2>2 DEF PartFrame, ClientFrame
  <2>9. g.chunk.id = Len(issued') /\ g.k = IF cli'.parts = Nothing THEN g.n ELSE cli'.partIndex
    BY <1>2, <2>1, <2>4, <2>5, <2>7, <2>8
  <2>10. Left(cli') = Len(cli.parts) - (cli.partIndex + 1) /\ Left(cli) = Len(cli.parts) - cli.partIndex
    BY <2>1, <2>4 DEF Left
  <2>11. Left(cli') \in Nat /\ Left(cli') + 1 = Left(cli) BY <1>5, <2>4, <2>10
  <2>12. cli.txSeq + 1 + Left(cli') + Len(cli'.pending) <= LongParts * Len(issued') + 1
    <3>1. cli.txSeq + Left(cli) + Len(cli.pending) <= LongParts * n + 1 BY DEF Numbering
    <3>2. LongParts * n \in Nat BY <2>3, MoreRoom
    <3> DEFINE x == LongParts * n
    <3>3. x \in Nat /\ cli.txSeq + Left(cli) + Len(cli.pending) <= x + 1 BY <3>1, <3>2
    <3>4. x = LongParts * Len(issued') BY <1>2
    <3> HIDE DEF x
    <3>5. cli.txSeq + 1 + Left(cli') + Len(cli'.pending) <= x + 1 BY <1>2, <2>3, <2>11, <3>3
    <3> QED BY <3>4, <3>5
  <2>13. Counted(toServer, cli, n, srv.lastRx) BY DEF Numbering
  <2>14. /\ Len(cli'.pending) \in Nat /\ Len(issued') \in Nat /\ Len(issued') > 0
         /\ Len(issued') <= MaxPrompts /\ g \in Frames /\ toServer' = Append(toServer, g)
    BY <1>2, <2>2, <2>3, <2>5
  <2> HIDE DEF g
  <2> QED BY <1>1, <1>3, <2>1, <2>3, <2>8, <2>9, <2>11, <2>12, <2>13, <2>14, NumberedWrites
<1> QED BY <1>4, <1>5

LEMMA ReadyNumbered ==
  ASSUME TypeInv, Whole, Numbering, NumbersSuffice, Len(issued) <= MaxPrompts, ServerKept, HearReady
  PROVE  Numbering'
<1> DEFINE n == Len(issued)
<1>1. ran' = ran /\ srv' = srv BY DEF ServerKept, serverVars
<1>2. issued' = issued /\ cli'.pending = Nothing BY ReadyFields
<1>3. Heeded(toClient', srv.lastRx) BY HeardHeeded DEF HandleLine
<1>4. CASE Keeps /\ AnswersOnly BY <1>1, <1>2, <1>3, <1>4, NumberedSettles
<1>5. ASSUME cli.pending # Nothing, cli.pending \in Prompts,
             NEW c \in Clients, NEW a \in Answers, c.txSeq = cli.txSeq,
             cli' = Send(c, cli.pending),
             toServer' = Append(Append(toServer, a), FirstFrame(c, cli.pending))
      PROVE  Numbering'
  <2> DEFINE p == cli.pending
             g == FirstFrame(c, p)
             t == Append(toServer, a)
  <2>1. /\ cli \in Clients /\ cli.txSeq \in Nat /\ Left(cli) \in Nat /\ Len(p) \in Nat
        /\ n \in Nat /\ toServer \in Seq(Wired)
    BY NumberFacts
  <2>2. n > 0 /\ p = issued[n] /\ p # <<>> BY <1>5 DEF Whole, Pacing, Nothing
  <2>3. p[1].id = n
    <3>1. n \in 1..Len(issued) /\ 1 \in 1..Len(issued[n])
      <4>1. p \in Seq(Chunks) BY <1>5, PromptFields
      <4>2. Len(p) # 0 BY <2>2, <4>1, EmptySeq
      <4> QED BY <2>1, <2>2, <4>2
    <3> QED BY <2>2, <3>1 DEF Whole, Issues
  <2>4. cli' = Send(c, p) /\ toServer' = Append(t, g) BY <1>5
  <2> HIDE DEF p
  <2>5. /\ g \in Frames /\ g.seq = c.txSeq /\ g.chunk.id = p[1].id
        /\ g.k = IF cli'.parts = Nothing THEN g.n ELSE cli'.partIndex
        /\ cli'.txSeq = After(c.txSeq) /\ cli'.draft = c.txSeq
        /\ Left(cli') \in Nat /\ Left(cli') + 1 = Len(p)
    <3>1. p \in Prompts /\ p # <<>> BY <1>5, <2>2 DEF p
    <3> HIDE DEF g
    <3> DEFINE d == cli'
    <3>2. d = Send(c, p) BY <2>4
    <3> HIDE DEF d
    <3>3. g = FirstFrame(c, p) BY DEF g
    <3>4. /\ g \in Frames /\ g.seq = c.txSeq /\ g.chunk.id = p[1].id
          /\ g.k = IF d.parts = Nothing THEN g.n ELSE d.partIndex
          /\ d.txSeq = After(c.txSeq) /\ d.draft = c.txSeq
          /\ Left(d) \in Nat /\ Left(d) + 1 = Len(p)
      BY <3>1, <3>2, <3>3, SendFields
    <3> QED BY <3>4 DEF d
  <2>6. t \in Seq(Wired) /\ Counted(t, cli, n, srv.lastRx)
    <3>1. a \in Wired /\ ~IsFrame(a) BY DEF Wired, IsFrame, Answers
    <3>2. Counted(toServer, cli, n, srv.lastRx) BY DEF Numbering
    <3> QED BY <2>1, <3>1, <3>2, CountedAnswer, AppendFacts
  <2> HIDE DEF t, g
  <2>7. Len(cli'.pending) = 0 /\ Len(cli'.pending) \in Nat BY <1>2 DEF Nothing
  <2>8. cli.txSeq + 1 + Left(cli') + Len(cli'.pending) <= LongParts * Len(issued') + 1
    <3>1. cli.txSeq + Left(cli) + Len(p) <= LongParts * n + 1 BY DEF Numbering, p
    <3>2. LongParts * n \in Nat BY <2>1, MoreRoom
    <3> DEFINE x == LongParts * n
    <3>3. x \in Nat /\ cli.txSeq + Left(cli) + Len(p) <= x + 1 BY <3>1, <3>2
    <3>4. x = LongParts * Len(issued') BY <1>2
    <3> HIDE DEF x
    <3>5. cli.txSeq + 1 + Left(cli') + Len(cli'.pending) <= x + 1
      BY <2>1, <2>5, <2>7, <3>3
    <3> QED BY <3>4, <3>5
  <2>9. /\ g.seq = cli.txSeq /\ g.chunk.id = Len(issued') /\ cli'.txSeq = After(cli.txSeq)
        /\ cli'.draft = cli.txSeq /\ Len(issued') \in Nat /\ Len(issued') > 0
        /\ Len(issued') <= MaxPrompts
    BY <1>2, <1>5, <2>1, <2>2, <2>3, <2>5
  <2> QED BY <1>1, <1>3, <2>4, <2>5, <2>6, <2>7, <2>8, <2>9, NumberedWrites
<1> QED BY <1>4, <1>5, ReadyFields

LEMMA HeardNumbered ==
  ASSUME TypeInv, Whole, Numbering, NumbersSuffice, Len(issued) <= MaxPrompts, ServerKept, HandleLine
  PROVE  Numbering' /\ issued' = issued
<1>1. ran' = ran /\ srv' = srv BY DEF ServerKept, serverVars
<1>2. Heeded(toClient', srv.lastRx) BY HeardHeeded
<1>3. CASE HearAck BY <1>3, AckNumbered, AckFields
<1>4. CASE HearReady BY <1>4, ReadyNumbered, ReadyFields
<1>5. CASE HearNak
  <2>1. GivesUp /\ toServer' = toServer /\ issued' = issued BY <1>5, NakGivesUp
  <2>2. AnswersOnly /\ cli'.pending = cli.pending BY <2>1 DEF AnswersOnly, GivesUp
  <2> QED BY <1>1, <1>2, <2>1, <2>2, NumberedSettles
<1>6. CASE HearOtherAck \/ HearStatus \/ HearError \/ HearText \/ HearPrompt
  <2>1. Keeps /\ cli'.pending = cli.pending /\ AnswersOnly /\ issued' = issued
    BY <1>6, HearKeeps
  <2> QED BY <1>1, <1>2, <2>1, NumberedSettles
<1> QED BY <1>3, <1>4, <1>5, <1>6 DEF HandleLine

LEMMA TapNumbered ==
  ASSUME TypeInv, Whole, Greeting, Numbering, NumbersSuffice, ServerKept, cli.ready = TRUE,
         NEW n \in {1, LongParts}, NEW cmd \in BOOLEAN,
         Issue(NewPrompt(n, cmd)), SendNow(NewPrompt(n, cmd))
  PROVE  Numbering'
<1> DEFINE p == NewPrompt(n, cmd)
           m == Len(issued)
           g == FirstFrame(cli, p)
<1>1. p \in Prompts /\ p # <<>> /\ Len(p) = n BY NewPromptType
<1>2. /\ Issues(issued') /\ Len(issued') = m + 1 /\ m \in Nat /\ p = issued'[m + 1]
      /\ Len(issued') <= MaxPrompts
  BY IssueMore DEF Whole
<1>3. cli' = Send(cli, p) /\ toServer' = Append(toServer, g) /\ toClient' = toClient
  BY DEF SendNow
<1>4. ran' = ran /\ srv' = srv /\ cli.pending = Nothing
  BY DEF ServerKept, serverVars, Greeting, TypeInv, Apart
<1>5. /\ cli \in Clients /\ cli.txSeq \in Nat /\ Left(cli) \in Nat /\ toServer \in Seq(Wired)
      /\ Len(Nothing) = 0
  BY NumberFacts
<1>6. p[1].id = m + 1
  <2>1. n \in Nat /\ n > 0 BY Constants
  <2>2. m + 1 \in 1..Len(issued') BY <1>2
  <2>3. 1 \in 1..Len(issued'[m + 1]) BY <1>1, <1>2, <2>1
  <2>4. issued'[m + 1][1].id = m + 1 BY <1>2, <2>2, <2>3 DEF Issues
  <2> QED BY <1>2, <2>4
<1> HIDE DEF p, g
<1>7. /\ g \in Frames /\ g.seq = cli.txSeq /\ g.chunk.id = p[1].id
      /\ g.k = IF cli'.parts = Nothing THEN g.n ELSE cli'.partIndex
      /\ cli'.txSeq = After(cli.txSeq) /\ cli'.draft = cli.txSeq
      /\ cli'.pending = cli.pending
      /\ Left(cli') \in Nat /\ Left(cli') + 1 = Len(p)
  <2> DEFINE d == cli'
  <2>1. d = Send(cli, p) BY <1>3
  <2> HIDE DEF d
  <2>2. g = FirstFrame(cli, p) BY DEF g
  <2>3. /\ g \in Frames /\ g.seq = cli.txSeq /\ g.chunk.id = p[1].id
        /\ g.k = IF d.parts = Nothing THEN g.n ELSE d.partIndex
        /\ d.txSeq = After(cli.txSeq) /\ d.draft = cli.txSeq
        /\ d.pending = cli.pending
        /\ Left(d) \in Nat /\ Left(d) + 1 = Len(p)
    BY <1>1, <1>5, <2>1, <2>2, SendFields
  <2> QED BY <2>3 DEF d
<1>8. Len(cli'.pending) = 0 BY <1>4, <1>5, <1>7
<1>9. cli.txSeq + 1 + Left(cli') + Len(cli'.pending) <= LongParts * Len(issued') + 1
  <2>1. cli.txSeq + Left(cli) + Len(cli.pending) <= LongParts * m + 1 BY DEF Numbering
  <2>2. LongParts * m \in Nat /\ LongParts * (m + 1) = LongParts * m + LongParts
    BY <1>2, MoreRoom
  <2> DEFINE x == LongParts * m
             y == LongParts * Len(issued')
  <2>3. /\ x \in Nat /\ y = x + LongParts
        /\ cli.txSeq + Left(cli) <= x + 1
    BY <1>2, <1>4, <1>5, <2>1, <2>2
  <2> HIDE DEF x, y
  <2>4. n \in Nat /\ n <= LongParts /\ LongParts \in Nat BY Constants
  <2>5. cli.txSeq + 1 + Left(cli') + Len(cli'.pending) = cli.txSeq + n
    BY <1>1, <1>5, <1>7, <1>8, <2>4
  <2>6. cli.txSeq + n <= y + 1 BY <1>5, <2>3, <2>4
  <2> QED BY <2>5, <2>6 DEF y
<1>10. Counted(toServer, cli, m, srv.lastRx) /\ Heeded(toClient', srv.lastRx)
  BY <1>3 DEF Numbering
<1>11. /\ Len(cli'.pending) \in Nat /\ Len(issued') \in Nat /\ Len(issued') > 0
       /\ g.chunk.id = Len(issued')
  BY <1>2, <1>6, <1>7, <1>8
<1> QED BY <1>2, <1>3, <1>4, <1>5, <1>7, <1>9, <1>10, <1>11, NumberedWrites

LEMMA DialedNumbered ==
  ASSUME TypeInv, Whole, Connects PROVE Numbering' /\ issued' = issued
<1> DEFINE hello == ClientFrame(0, "HELLO", 1, 1, Chunk(0, 0, FALSE))
           n == Len(issued)
<1>1. /\ cli.pc = "dialing" /\ cli'.txSeq = 1
      /\ cli'.inFlight = cli.inFlight /\ cli'.draft = cli.draft
      /\ cli'.parts = cli.parts /\ cli'.pending = cli.pending /\ issued' = issued
      /\ toServer' = <<hello>> /\ toClient' = <<>> /\ srv' = NewHandler /\ ran' = ran
  BY DialedFields DEF Connects, Dialed
<1>2. ~cli.inFlight /\ cli.draft = NoSeq /\ cli.parts = Nothing
  BY <1>1 DEF Whole, Pacing
<1>3. n \in Nat /\ NoSeq = SeqSpace /\ SeqSpace > 1 /\ Len(Nothing) = 0 /\ SeqSpace \in Nat
  BY NumberFacts, Constants
<1>4. srv'.lastRx = NoSeq BY <1>1 DEF NewHandler
<1>5. Counted(toServer', cli', n, srv'.lastRx)
  <2>1. hello.seq = 0 BY DEF ClientFrame
  <2>2. Len(toServer') = 1 /\ toServer'[1] = hello /\ (1 + 1)..1 = {} BY <1>1
  <2> HIDE DEF hello
  <2>3. ASSUME NEW i \in 1..Len(toServer')
        PROVE  /\ toServer'[i].seq < cli'.txSeq /\ (i + 1)..Len(toServer') = {}
               /\ cli'.draft # toServer'[i].seq
    <3>1. i = 1 BY <2>2
    <3> QED BY <1>1, <1>2, <1>3, <2>1, <2>2, <3>1
  <2> QED BY <1>4, <2>3 DEF Counted
<1>6. Heeded(toClient', srv'.lastRx)
  <2>1. Len(toClient') = 0 BY <1>1
  <2> QED BY <2>1 DEF Heeded
<1>7. cli'.txSeq + Left(cli') + Len(cli'.pending) <= LongParts * Len(issued') + 1
  <2>1. Left(cli') = 0 BY <1>1, <1>2 DEF Left
  <2>2. LongParts * n \in Nat /\ (n > 0 => LongParts <= LongParts * n) BY <1>3, MoreRoom
  <2>3. cli.pending # Nothing => n > 0 BY DEF Whole, Pacing
  <2>4. Len(cli.pending) \in 0..LongParts
    <3>1. cli.pending \in Prompts BY DEF TypeInv, ClientTyped, Clients
    <3> QED BY <3>1, PromptFields
  <2> DEFINE x == LongParts * n
  <2>5. x \in Nat /\ (n > 0 => LongParts <= x) BY <2>2
  <2> HIDE DEF x
  <2>6. Len(cli.pending) <= x
    <3>1. CASE cli.pending = Nothing BY <1>3, <2>5, <3>1
    <3>2. CASE cli.pending # Nothing BY <2>3, <2>4, <2>5, <3>2, Constants
    <3> QED BY <3>1, <3>2
  <2>7. 1 + 0 + Len(cli.pending) <= x + 1 BY <2>4, <2>5, <2>6
  <2> QED BY <1>1, <2>1, <2>7 DEF x
<1> QED BY <1>1, <1>2, <1>4, <1>5, <1>6, <1>7 DEF Numbering

\* The host does nothing with the prompts.
LEMMA NumberedAway ==
  ASSUME TypeInv, Whole, Numbering, UNCHANGED clientVars, srv'.lastRx = srv.lastRx, ran' = ran,
         toServer' = toServer \/ Took, Heeded(toClient', srv.lastRx)
  PROVE  Numbering'
<1>1. cli' = cli /\ issued' = issued BY DEF clientVars
<1>2. toServer \in Seq(Wired) /\ Counted(toServer, cli, Len(issued), srv.lastRx)
  BY NumberFacts DEF Numbering
<1>3. Counted(toServer', cli, Len(issued), srv.lastRx)
  <2>1. CASE toServer' = toServer BY <1>2, <2>1
  <2>2. CASE Took BY <1>2, <2>2, CountedTail DEF Took
  <2> QED BY <2>1, <2>2
<1> QED BY <1>1, <1>3 DEF Numbering

\* What the host answers acknowledges no frame it has not accepted.
LEMMA AnsweredNumbered ==
  ASSUME TypeInv, Whole, Numbering, UNCHANGED clientVars, srv'.lastRx = srv.lastRx, ran' = ran,
         toServer' = toServer \/ Took,
         NEW m \in Answers \union HostFrames, toClient' = Append(toClient, m),
         m.kind = "ACK" => srv.lastRx # NoSeq /\ m.seq = srv.lastRx
  PROVE  Numbering'
<1>1. toClient \in Seq(Answers \union HostFrames) /\ srv.lastRx \in Nat BY NumberFacts
<1>2. Heeded(toClient, srv.lastRx) BY DEF Numbering
<1>3. Heeded(toClient', srv.lastRx) BY <1>1, <1>2, HeededMore
<1> QED BY <1>3, NumberedAway

\* The first frame on the way is a real one.
LEMMA FirstNumber ==
  ASSUME TypeInv, Whole, Numbering, Took, IsFrame(toServer[1])
  PROVE  /\ toServer[1] \in Frames /\ toServer[1].seq \in Nat /\ toServer[1].seq # NoSeq
         /\ toServer[1].seq < cli.txSeq
         /\ srv.lastRx # NoSeq => srv.lastRx < toServer[1].seq
         /\ cli.draft = toServer[1].seq =>
                /\ toServer[1].chunk.id = Len(issued)
                /\ toServer[1].k = IF cli.parts = Nothing THEN toServer[1].n ELSE cli.partIndex
         /\ Counted(Tail(toServer), cli, Len(issued), toServer[1].seq)
<1>1. /\ toServer \in Seq(Wired) /\ toServer # <<>> /\ cli.txSeq \in Nat
      /\ cli.txSeq < SeqSpace /\ NoSeq = SeqSpace /\ SeqSpace \in Nat
  BY NumberFacts DEF Took
<1>2. Counted(toServer, cli, Len(issued), srv.lastRx) BY DEF Numbering
<1>3. toServer[1] \in Frames /\ toServer[1].seq \in Nat BY ReadPiece, FrameFields
<1>4. toServer[1].seq < cli.txSeq BY <1>1, <1>2, CountedHead
<1>5. toServer[1].seq # NoSeq BY <1>1, <1>3, <1>4
<1> QED BY <1>1, <1>2, <1>3, <1>4, <1>5, CountedHead, CountedTail

LEMMA AwayNumbered ==
  ASSUME TypeInv, LinkInv, Whole, Numbering, ServerNext, UNCHANGED clientVars, srv.pc # "idle"
  PROVE  Numbering'
<1>1. /\ srv'.lastRx = srv.lastRx /\ ran' = ran /\ (toServer' = toServer \/ Took)
  BY AwayStep, MemoryFields DEF TypeInv
<1>2. CASE Transmit
  <2>1. sent \in Seq(HostFrames) /\ Numbered(srv, sent) /\ ServerTyped
    BY DEF TypeInv, ClientTyped, LinkInv
  <2>2. PICK f \in HostFrames : toClient' = Append(toClient, f)
    BY <1>2, <2>1, TransmitNumbered
  <2>3. f \in Answers \union HostFrames /\ f.kind # "ACK" BY DEF HostFrames
  <2> QED BY <1>1, <2>2, <2>3, AnsweredNumbered
<1>3. CASE FrameWhileBusy
  <2>1. /\ toServer # <<>> /\ toServer' = Tail(toServer) /\ IsFrame(Line)
        /\ toClient' = Append(toClient, BusyReply(Line))
    BY <1>3 DEF FrameWhileBusy, Reads, Reply
  <2>2. toServer \in Seq(Wired) BY NumberFacts
  <2>3. Line = toServer[1] /\ Took BY <2>1, <2>2, TailFacts DEF Line, Took
  <2>4. Line \in Frames /\ Line.seq \in Nat /\ Line.seq # NoSeq BY <2>1, <2>3, FirstNumber
  <2>5. BusyReply(Line) \in Answers
    <3>1. \/ BusyReply(Line) = AckLine(Line.seq)
          \/ BusyReply(Line) = NakLine(Line.seq, "BUSY")
          \/ ~Sound(Line) /\ BusyReply(Line) = NakLine(Line.seq, Line.fault)
      BY DEF BusyReply
    <3>2. Sound(Line) BY <2>1, <2>3, ReadPiece
    <3> QED BY <2>4, <3>1, <3>2, AnswerTypes
  <2>6. BusyReply(Line).kind = "ACK" => srv.lastRx # NoSeq /\ BusyReply(Line).seq = srv.lastRx
    BY <2>4 DEF BusyReply, AckLine, NakLine
  <2>7. BusyReply(Line) \in Answers \union HostFrames BY <2>5
  <2> QED BY <1>1, <2>1, <2>6, <2>7, AnsweredNumbered
<1>4. CASE \/ AckArrives \/ NakArrives \/ FrameTimeout \/ StaleLine
           \/ Agent \/ AgentProgress \/ TurnTimesOut \/ CommandRaises
  <2>1. toClient' = toClient
    BY <1>4 DEF AckArrives, NakArrives, FrameTimeout, StaleLine, Agent, AgentProgress,
                AgentReplies, AgentFails, TurnTimesOut, CommandRaises
  <2>2. Heeded(toClient', srv.lastRx) BY <2>1 DEF Numbering
  <2> QED BY <1>1, <2>2, NumberedAway
<1>5. CASE MainLoop
  BY <1>5 DEF MainLoop, SkipLine, RejectFault, ReAck, AcceptHello, AcceptMsg, AcceptPart,
              RejectFrame, Reads
<1> QED BY <1>2, <1>3, <1>4, <1>5 DEF ServerNext, Sender

LEMMA RefusedNumbered ==
  ASSUME TypeInv, Whole, Greeting, Numbering, cli.pc = "up",
         SkipLine \/ RejectFault \/ ReAck \/ RejectFrame, UNCHANGED clientVars
  PROVE  Numbering'
<1>1. srv' = srv /\ ran' = ran BY RefusedWhole DEF SkipLine, serverVars
<1>2. toServer # <<>> /\ toServer' = Tail(toServer)
  BY DEF SkipLine, RejectFault, ReAck, RejectFrame, Reads
<1>3. toServer \in Seq(Wired) BY NumberFacts
<1>4. Line = toServer[1] /\ Took BY <1>2, <1>3, TailFacts DEF Line, Took
<1>5. CASE SkipLine
  <2>1. Heeded(toClient', srv.lastRx) BY <1>5 DEF SkipLine, Numbering
  <2> QED BY <1>1, <1>4, <2>1, NumberedAway
<1>6. CASE ~SkipLine
  <2>1. IsFrame(Line) BY <1>6 DEF RejectFault, ReAck, RejectFrame, Fresh, Sound
  <2>2. Line \in Frames /\ Line.seq \in Nat /\ Line.seq # NoSeq /\ Sound(Line)
    BY <1>4, <2>1, FirstNumber, ReadPiece
  <2>3. ReAck \/ RejectFrame BY <1>6, <2>2 DEF RejectFault
  <2>4. PICK m \in Answers :
            /\ toClient' = Append(toClient, m)
            /\ m.kind = "ACK" => srv.lastRx # NoSeq /\ m.seq = srv.lastRx
    <3>1. CASE ReAck
      <4>1. Line.seq = srv.lastRx /\ toClient' = Append(toClient, AckLine(Line.seq))
        BY <3>1 DEF ReAck, Reply
      <4>2. AckLine(Line.seq) \in Answers /\ AckLine(Line.seq).seq = Line.seq
        BY <2>2, AnswerTypes DEF AckLine
      <4> QED BY <2>2, <4>1, <4>2
    <3>2. CASE RejectFrame
      <4>1. \E why \in {"PART", "OP"} : toClient' = Append(toClient, NakLine(Line.seq, why))
        BY <3>2 DEF RejectFrame, Reply
      <4>2. PICK why \in {"PART", "OP"} : toClient' = Append(toClient, NakLine(Line.seq, why))
        BY <4>1
      <4>3. NakLine(Line.seq, why) \in Answers /\ NakLine(Line.seq, why).kind = "NAK"
        BY <2>2, AnswerTypes DEF NakLine
      <4> QED BY <4>2, <4>3
    <3> QED BY <2>3, <3>1, <3>2
  <2>5. m \in Answers \union HostFrames OBVIOUS
  <2> QED BY <1>1, <1>4, <2>4, <2>5, AnsweredNumbered
<1> QED BY <1>5, <1>6

\* A frame accepted: if it is the draft, and the last part, its prompt runs.
LEMMA AcceptedNumbered ==
  ASSUME TypeInv, Whole, Greeting, Numbering, cli.pc = "up", UNCHANGED clientVars,
         AcceptHello \/ AcceptMsg \/ AcceptPart, srv'.lastRx = Line.seq,
         \/ ran' = ran /\ (Line.op = "HELLO" \/ Line.k < Line.n)
         \/ Line.op # "HELLO" /\ Line.k = Line.n /\ LastRan(ran') = Line.chunk.id
  PROVE  Numbering'
<1> DEFINE n == Len(issued)
           id == Line.chunk.id
<1>1. /\ Took /\ Line = toServer[1] /\ IsFrame(toServer[1]) /\ cli' = cli /\ issued' = issued
      /\ Line.op = "HELLO" \/ Carried(Line, issued)
  BY AcceptedLine
<1>2. /\ Line \in Frames /\ Line.seq \in Nat /\ Line.seq # NoSeq /\ Line.seq < cli.txSeq
      /\ srv.lastRx # NoSeq => srv.lastRx < Line.seq
      /\ cli.draft = Line.seq =>
             id = n /\ Line.k = IF cli.parts = Nothing THEN Line.n ELSE cli.partIndex
      /\ Counted(Tail(toServer), cli, n, Line.seq)
  BY <1>1, FirstNumber
<1>3. /\ toClient \in Seq(Answers \union HostFrames) /\ srv.lastRx \in Nat /\ n \in Nat
      /\ LastRan(ran) \in Nat /\ LastRan(ran) <= n
  BY NumberFacts
<1>4. Counted(toServer', cli', n, srv'.lastRx) BY <1>1, <1>2 DEF Took
<1>5. Heeded(toClient', srv'.lastRx)
  <2> DEFINE a == AckLine(Line.seq)
  <2>1. toClient' = Append(toClient, a)
    BY DEF AcceptHello, AcceptMsg, AcceptPart, Accept, Reply
  <2>2. a \in Answers /\ a.seq = Line.seq BY <1>2, AnswerTypes DEF AckLine
  <2>3. Heeded(toClient, srv.lastRx) BY DEF Numbering
  <2>4. Heeded(toClient, Line.seq) BY <1>2, <1>3, <2>3, HeededUp
  <2>5. a \in Answers \union HostFrames /\ a.seq <= Line.seq BY <1>2, <2>2
  <2> HIDE DEF a
  <2>6. Heeded(Append(toClient, a), Line.seq) BY <1>2, <1>3, <2>4, <2>5, HeededMore
  <2> QED BY <2>1, <2>6
<1>6. ASSUME cli.draft = Line.seq, ~Uploading(cli) PROVE LastRan(ran') = n
  <2>1. id = n /\ Line.k = IF cli.parts = Nothing THEN Line.n ELSE cli.partIndex
    BY <1>2, <1>6
  <2>2. CASE Line.op = "HELLO"
    <3>1. Piece(Line, issued) BY <1>1, ReadPiece
    <3>2. id = 0 BY <2>2, <3>1, HelloId
    <3>3. ran' = ran /\ LastRan(ran) = 0 BY <1>3, <2>1, <2>2, <3>2
    <3> QED BY <2>1, <3>2, <3>3
  <2>3. CASE Line.op # "HELLO"
    <3>1. Carried(Line, issued) BY <1>1, <2>3
    <3>2. Line.k = Line.n
      <4>1. CASE cli.parts = Nothing BY <2>1, <4>1
      <4>2. CASE cli.parts # Nothing
        <5>1. cli.parts = issued[n] /\ cli.partIndex \in 1..Len(cli.parts)
          BY <4>2 DEF Whole, Pacing
        <5>2. ~(cli.partIndex < Len(cli.parts)) BY <1>6, <4>2 DEF Uploading
        <5>3. Len(cli.parts) = Line.n BY <2>1, <3>1, <5>1 DEF Carried
        <5>4. Line.k = cli.partIndex BY <2>1, <4>2
        <5>5. Len(cli.parts) \in Nat /\ cli.partIndex \in Nat
          <6>1. cli.parts \in Prompts /\ cli.partIndex \in Nat
            BY DEF TypeInv, ClientTyped, Clients
          <6> QED BY <6>1, PromptFields, Constants
        <5>6. cli.partIndex = Len(cli.parts) BY <5>1, <5>2, <5>5
        <5> QED BY <5>3, <5>4, <5>6
      <4> QED BY <4>1, <4>2
    <3>3. ~(Line.k < Line.n)
      <4>1. Line.k \in Nat BY <1>2, FrameFields
      <4> QED BY <3>2, <4>1
    <3> QED BY <2>1, <2>3, <3>3
  <2> QED BY <2>2, <2>3
<1>7. ASSUME cli.inFlight, cli.draft = NoSeq PROVE LastRan(ran') = n
  <2>1. LastRan(ran) = n BY <1>7 DEF Numbering
  <2>2. CASE ran' = ran BY <2>1, <2>2
  <2>3. CASE Line.op # "HELLO"
    <3>1. LastRan(ran) < id BY <1>1, <2>3, ReadPiece
    <3>2. id \in 1..n BY <1>1, <2>3 DEF Carried
    <3> QED BY <1>3, <2>1, <3>1, <3>2
  <2> QED BY <2>2, <2>3
<1>8. /\ cli.txSeq + Left(cli) + Len(cli.pending) <= LongParts * n + 1
      /\ cli.draft # NoSeq => cli.draft + 1 = cli.txSeq
      /\ cli.inFlight => n > 0
  BY DEF Numbering
<1> QED BY <1>1, <1>2, <1>4, <1>5, <1>6, <1>7, <1>8 DEF Numbering

LEMMA HostNumbered ==
  ASSUME TypeInv, LinkInv, Whole, Greeting, Numbering, cli.pc = "up", ServerRuns
  PROVE  Numbering' /\ issued' = issued
<1>0. ServerNext /\ UNCHANGED clientVars /\ issued' = issued BY DEF ServerRuns, clientVars
<1>1. CASE srv.pc # "idle" BY <1>0, <1>1, AwayNumbered
<1>2. CASE srv.pc = "idle"
  <2>1. MainLoop
    BY <1>0, <1>2 DEF ServerNext, Sender, Transmit, AckArrives, NakArrives, StaleLine,
                      FrameWhileBusy, FrameTimeout, Agent, AgentReplies, AgentFails,
                      AgentProgress, TurnTimesOut, CommandRaises, Reads
  <2>2. CASE SkipLine \/ RejectFault \/ ReAck \/ RejectFrame BY <1>0, <2>2, RefusedNumbered
  <2>3. CASE AcceptHello
    <3>1. ran' = ran /\ srv'.lastRx = Line.seq /\ Line.op = "HELLO"
      BY <1>0, <2>3, AcceptHelloWhole DEF AcceptHello
    <3> QED BY <1>0, <2>3, <3>1, AcceptedNumbered
  <2>4. CASE AcceptMsg
    <3>1. /\ srv'.lastRx = Line.seq /\ Line.k = Line.n /\ LastRan(ran') = Line.chunk.id
          /\ Line.op # "HELLO"
      BY <1>0, <2>4, AcceptMsgWhole DEF AcceptMsg
    <3> QED BY <1>0, <2>4, <3>1, AcceptedNumbered
  <2>5. CASE AcceptPart
    <3>1. /\ srv'.lastRx = Line.seq /\ Line.op # "HELLO"
          /\ \/ Line.k < Line.n /\ ran' = ran
             \/ Line.k = Line.n /\ LastRan(ran') = Line.chunk.id
      BY <1>0, <2>5, AcceptPartWhole DEF AcceptPart
    <3> QED BY <1>0, <2>5, <3>1, AcceptedNumbered
  <2> QED BY <2>1, <2>2, <2>3, <2>4, <2>5 DEF MainLoop
<1> QED BY <1>0, <1>1, <1>2

LEMMA CountNext ==
  ASSUME TypeInv, LinkInv, PromptInv, CountInv, NumbersSuffice, [Next]_vars PROVE CountInv'
<1>0. /\ Whole /\ Len(issued) <= MaxPrompts
      /\ (cli.pc = "up" => Greeting) /\ (cli.pc = "up" => Numbering)
  BY DEF PromptInv, CountInv
<1>1. CASE ServerRuns
  <2>1. cli.pc = "up" BY <1>1, ServerNeedsUp DEF ServerRuns
  <2> QED BY <1>0, <1>1, <2>1, HostNumbered DEF CountInv
<1>2. CASE ClientReads
  <2>1. cli.pc = "up" /\ HandleLine /\ ServerKept
    BY <1>2 DEF ClientReads, ServerKept, HandleLine, HearAck, HearOtherAck, HearNak, HearReady,
                HearStatus, HearError, HearText, HearPrompt, Hear, Hears
  <2> QED BY <1>0, <2>1, HeardNumbered DEF CountInv
<1>3. CASE UserTaps
  <2>1. PICK n \in {1, LongParts}, cmd \in BOOLEAN :
          /\ Issue(NewPrompt(n, cmd))
          /\ \/ cli.ready = TRUE /\ SendNow(NewPrompt(n, cmd))
             \/ QueueAndConnect(NewPrompt(n, cmd))
    BY <1>3, TapCases DEF UserTaps
  <2> DEFINE p == NewPrompt(n, cmd)
  <2>2. p \in Prompts /\ p # <<>> BY NewPromptType
  <2>3. Len(issued') <= MaxPrompts BY <1>0, <2>1, IssueMore DEF Whole
  <2>4. CASE cli.ready = TRUE /\ SendNow(p)
    <3>1. cli.pc = "up" /\ cli'.pc = "up"
      <4> HIDE DEF p
      <4> QED BY <2>2, <2>4, SendNowEffect
    <3>2. ServerKept BY <1>3, <3>1 DEF UserTaps, ServerKept
    <3> QED BY <1>0, <2>1, <2>3, <2>4, <3>1, <3>2, TapNumbered DEF CountInv
  <2>5. CASE QueueAndConnect(p)
    <3>1. cli'.pc = "dialing"
      <4> HIDE DEF p
      <4> QED BY <2>2, <2>5, ConnectFields
    <3> QED BY <2>3, <3>1 DEF CountInv
  <2> QED BY <2>1, <2>4, <2>5
<1>4. CASE Connects BY <1>0, <1>4, DialedNumbered DEF CountInv
<1>5. CASE ConnectFails
  BY <1>0, <1>5, StoppedWhole DEF CountInv, ConnectFails, serverVars, DialFails
<1>6. CASE EndOfStream
  BY <1>0, <1>6, StoppedWhole DEF CountInv, EndOfStream, Dropped, serverVars, HangUp
<1>7. CASE LinkLost \/ RadioOff
  BY <1>0, <1>7, StoppedWhole DEF CountInv, LinkLost, RadioOff, Dropped, RadioExpired,
                                  HandlerEnds, HangUp
<1>8. CASE UNCHANGED vars
  <2>1. /\ cli' = cli /\ issued' = issued /\ srv' = srv /\ ran' = ran
        /\ toServer' = toServer /\ toClient' = toClient
    BY <1>8 DEF vars, serverVars, clientVars
  <2>2. cli.pc = "up" => Numbering' BY <1>0, <2>1 DEF Numbering
  <2> QED BY <1>0, <2>1, <2>2 DEF CountInv
<1> QED BY <1>1, <1>2, <1>3, <1>4, <1>5, <1>6, <1>7, <1>8 DEF Next

LEMMA InitCount == Init => CountInv
<1> SUFFICES ASSUME Init PROVE CountInv
  OBVIOUS
<1>1. issued = <<>> /\ cli.pc = "down" BY DEF Init, ClientInit
<1>2. Len(<<>>) = 0 /\ MaxPrompts \in Nat BY NewtonClientAssumption
<1> QED BY <1>1, <1>2 DEF CountInv

LEMMA AckedRan ==
  ASSUME TypeInv, LinkInv, PromptInv, CountInv PROVE AckedPromptRan
<1> SUFFICES ASSUME cli.inFlight, cli.draft = NoSeq
             PROVE  ran # <<>> /\ ran[Len(ran)] = issued[Len(issued)]
  BY DEF AckedPromptRan
<1>1. Whole /\ cli.pc = "up" BY DEF PromptInv, Whole, Pacing
<1>2. LastRan(ran) = Len(issued) /\ Len(issued) > 0 BY <1>1 DEF CountInv, Numbering
<1>3. ran # <<>>
  <2> SUFFICES ASSUME ran = <<>> PROVE FALSE
    OBVIOUS
  <2> QED BY <1>2 DEF LastRan
<1>4. ran[Len(ran)][1].id = Len(issued) BY <1>2, <1>3 DEF LastRan
<1>5. Len(ran) \in DOMAIN ran
  <2>1. ran \in Seq(Seq(Chunks)) BY DEF TypeInv, ServerTyped
  <2> QED BY <1>3, <2>1, LenProperties, EmptySeq
<1>6. ran[Len(ran)] = issued[ran[Len(ran)][1].id]
  BY <1>1, <1>5 DEF Whole, RunsAsIssued
<1> QED BY <1>3, <1>4, <1>6

\* And every prompt whose last part was acknowledged did run: the ACK the client
\* compares with its draft, a bare number, is of that part and of no earlier frame.
\* This is so as long as a connection does not use its sequence numbers up.
THEOREM PromptsRun == NumbersSuffice => (Spec => []PromptsRunWhole)
<1> SUFFICES ASSUME NumbersSuffice PROVE Spec => []PromptsRunWhole
  OBVIOUS
<1>1. Init => TypeInv /\ LinkInv /\ PromptInv /\ CountInv
  BY InitType, InitLink, InitPrompt, InitCount
<1>2. TypeInv /\ LinkInv /\ PromptInv /\ CountInv /\ [Next]_vars
        => TypeInv' /\ LinkInv' /\ PromptInv' /\ CountInv'
  BY NextSteps, StepType, LinkNext, PromptNext, CountNext DEF LinkInv
<1>3. TypeInv /\ LinkInv /\ PromptInv /\ CountInv => PromptsRunWhole
  BY AckedRan DEF PromptsRunWhole, PromptInv, Whole
<1> QED BY <1>1, <1>2, <1>3, PTL DEF Spec
=============================================================================
