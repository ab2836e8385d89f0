-------------------------- MODULE NativePeerProofs --------------------------
(***************************************************************************)
(* native_mode against the retransmitting peer, for every number of        *)
(* sequence numbers, retries, frames, parts and reply lines: its registers *)
(* stay in range, it applies no frame twice, it closes every turn, and it  *)
(* runs the prompts that were accepted and no others.                      *)
(***************************************************************************)
EXTENDS NativePeer, SequenceTheorems, FiniteSetTheorems, TLAPS

Chunks == [id : Nat, part : Nat, cmd : BOOLEAN]
Says ==
    [op : {"READY", "THINKING", "PROGRESS", "ERROR", "TEXT", "PROMPT"},
     turn : Nat, part : Nat]
Answers ==
    [kind : {"ACK"}, seq : Nat]
    \union [kind : {"NAK"}, seq : Nat, why : {"CHECKSUM", "LENGTH", "PART", "OP", "BUSY"}]
Frames ==
    [kind : {"FRAME"}, seq : 0..SeqSpace, op : {"HELLO", "MSG", "MSGP", "none"},
     k : Nat, n : Nat, chunk : Chunks, fault : {"none", "CHECKSUM", "LENGTH"}]
HostFrames ==
    [kind : {"FRAME"}, seq : Nat, turn : Nat, part : Nat,
     op : {"READY", "THINKING", "PROGRESS", "ERROR", "TEXT", "PROMPT"}]
Handlers ==
    [pc : {"idle", "send", "await", "agent", "closed"},
     lastRx : 0..SeqSpace, txSeq : 0..(SeqSpace - 1), hello : BOOLEAN,
     parts : Seq(Chunks), total : Nat, todo : Seq(Says),
     after : {"idle", "agent"}, tries : 0..(FrameRetries + 1), beats : Nat]

\* A handler that sends has something to send and an attempt left; the parts
\* buffer respects the prompt limit and the announced total.
Sane(s) ==
    /\ s \in Handlers
    /\ s.pc \in {"send", "await"} => s.todo # <<>>
    /\ s.pc = "send" => s.tries <= FrameRetries
    /\ Len(s.parts) <= MaxChunks /\ Len(s.parts) <= s.total

TypeInv ==
    /\ toServer \in Seq(Answers \union Frames)
    /\ toClient \in Seq(Answers \union HostFrames)
    /\ Sane(srv)
    /\ accepted \in Seq(Frames)
    /\ ran \in Seq(Seq(Chunks))
    /\ peer \in [frame : Frames, made : Nat, resends : Nat]

-----------------------------------------------------------------------------
(* What the operators of NativeServer return.                              *)

LEMMA Constants ==
  /\ SeqSpace \in Nat /\ SeqSpace > 1 /\ FrameRetries \in Nat
  /\ MaxChunks \in Nat /\ MaxChunks > 0 /\ MaxReply \in Nat /\ MaxProgress \in Nat
BY WireAssumption, NativeServerAssumption

LEMMA SayType ==
  ASSUME NEW op \in {"READY", "THINKING", "PROGRESS", "ERROR", "TEXT", "PROMPT"},
         NEW turn \in Nat, NEW part \in Nat
  PROVE  Say(op, turn, part) \in Says
BY DEF Say, Says

LEMMA OneSay == ASSUME NEW say \in Says PROVE <<say>> \in Seq(Says) /\ <<say>> # <<>>
OBVIOUS

LEMMA TextsType ==
  ASSUME NEW turn \in Nat, NEW n \in 1..MaxReply
  PROVE  Texts(turn, n) \in Seq(Says)
<1>1. n \in Nat BY Constants
<1>2. \A i \in 1..n : Say("TEXT", turn, i) \in Says
  BY <1>1, SayType
<1>3. [i \in 1..n |-> Say("TEXT", turn, i)] \in [1..n -> Says]
  BY <1>2
<1> QED BY <1>1, <1>3 DEF Texts

LEMMA Joined ==
  ASSUME NEW s \in Seq(Says), NEW t \in Seq(Says), t # <<>>
  PROVE  s \o t \in Seq(Says) /\ s \o t # <<>>
<1>1. /\ s \o t \in Seq(Says)
      /\ Len(s \o t) = Len(s) + Len(t)
  BY ConcatProperties
<1>2. Len(s) \in Nat /\ Len(t) \in Nat /\ Len(t) # 0
  BY LenProperties, EmptySeq
<1> QED BY <1>1, <1>2

LEMMA RepliesType ==
  ASSUME NEW turn \in Nat
  PROVE  /\ ErrorReply(turn) \in Seq(Says) /\ ErrorReply(turn) # <<>>
         /\ \A n \in 1..MaxReply :
                /\ Texts(turn, n) \o Prompt(turn) \in Seq(Says)
                /\ Texts(turn, n) \o Prompt(turn) # <<>>
                /\ <<Say("READY", turn, 0)>> \o Texts(turn, n) \o Prompt(turn) \in Seq(Says)
                /\ <<Say("READY", turn, 0)>> \o Texts(turn, n) \o Prompt(turn) # <<>>
<1>1. Prompt(turn) \in Seq(Says) /\ Prompt(turn) # <<>>
  BY SayType, OneSay DEF Prompt
<1>2. /\ <<Say("ERROR", turn, 0)>> \in Seq(Says)
      /\ <<Say("READY", turn, 0)>> \in Seq(Says) /\ <<Say("READY", turn, 0)>> # <<>>
  BY SayType, OneSay
<1>3. ErrorReply(turn) \in Seq(Says) /\ ErrorReply(turn) # <<>>
  BY <1>1, <1>2, Joined DEF ErrorReply
<1>4. ASSUME NEW n \in 1..MaxReply
      PROVE  /\ Texts(turn, n) \o Prompt(turn) \in Seq(Says)
             /\ Texts(turn, n) \o Prompt(turn) # <<>>
             /\ <<Say("READY", turn, 0)>> \o Texts(turn, n) \o Prompt(turn) \in Seq(Says)
             /\ <<Say("READY", turn, 0)>> \o Texts(turn, n) \o Prompt(turn) # <<>>
  <2>1. Texts(turn, n) \in Seq(Says) BY TextsType
  <2> DEFINE ready == <<Say("READY", turn, 0)>>
             texts == Texts(turn, n)
  <2>3. ready \in Seq(Says) /\ texts \in Seq(Says) BY <1>2, <2>1
  <2> HIDE DEF ready, texts
  <2>4. ready \o texts \in Seq(Says) BY <2>3, ConcatProperties
  <2>2. <<Say("READY", turn, 0)>> \o Texts(turn, n) \in Seq(Says)
    BY <2>4 DEF ready, texts
  <2> QED BY <1>1, <2>1, <2>2, Joined
<1> QED BY <1>3, <1>4

\* Queueing lines keeps a handler sane and its last received number as it was.
LEMMA QueueSane ==
  ASSUME NEW s \in Handlers, Len(s.parts) <= MaxChunks, Len(s.parts) <= s.total,
         NEW todo \in Seq(Says), todo # <<>>, NEW after \in {"idle", "agent"}
  PROVE  Sane(Queue(s, todo, after)) /\ Queue(s, todo, after).lastRx = s.lastRx
<1>0. 0 \in 0..(FrameRetries + 1) /\ 0 <= FrameRetries BY Constants
<1> DEFINE s1 == [s EXCEPT !.pc = "send"]
           s2 == [s1 EXCEPT !.todo = todo]
           s3 == [s2 EXCEPT !.after = after]
           q == [s3 EXCEPT !.tries = 0]
<1>1. s1 \in Handlers /\ s1.pc = "send" /\ s1.parts = s.parts /\ s1.total = s.total
      /\ s1.lastRx = s.lastRx
  BY DEF Handlers
<1> HIDE DEF s1
<1>2. s2 \in Handlers /\ s2.pc = s1.pc /\ s2.parts = s1.parts /\ s2.total = s1.total
      /\ s2.lastRx = s1.lastRx /\ s2.todo = todo
  BY <1>1 DEF Handlers
<1> HIDE DEF s2
<1>3. s3 \in Handlers /\ s3.pc = s2.pc /\ s3.parts = s2.parts /\ s3.total = s2.total
      /\ s3.lastRx = s2.lastRx /\ s3.todo = s2.todo
  BY <1>2 DEF Handlers
<1> HIDE DEF s3
<1>4. q \in Handlers /\ q.pc = s3.pc /\ q.parts = s3.parts /\ q.total = s3.total
      /\ q.lastRx = s3.lastRx /\ q.todo = s3.todo /\ q.tries = 0
  BY <1>0, <1>3 DEF Handlers
<1>5. q = Queue(s, todo, after) BY DEF q, s3, s2, s1, Queue
<1> HIDE DEF q
<1> QED BY <1>0, <1>1, <1>2, <1>3, <1>4, <1>5 DEF Sane

LEMMA AfterType == ASSUME NEW seq \in 0..(SeqSpace - 1) PROVE After(seq) \in 0..(SeqSpace - 1)
BY Constants DEF After

LEMMA AckedSane ==
  ASSUME NEW s, Sane(s), s.pc = "await"
  PROVE  Sane(Acked(s)) /\ Acked(s).lastRx = s.lastRx
<1>1. s.todo \in Seq(Says) /\ s.todo # <<>> BY DEF Sane, Handlers
<1>2. Tail(s.todo) \in Seq(Says) BY <1>1, HeadTailProperties
<1>3. After(s.txSeq) \in 0..(SeqSpace - 1) BY AfterType DEF Sane, Handlers
<1> DEFINE pc == IF Tail(s.todo) = <<>> THEN s.after ELSE "send"
           s1 == [s EXCEPT !.pc = pc]
           s2 == [s1 EXCEPT !.todo = Tail(s.todo)]
           s3 == [s2 EXCEPT !.txSeq = After(s.txSeq)]
           a == [s3 EXCEPT !.tries = 0]
<1>0. 0 \in 0..(FrameRetries + 1) /\ 0 <= FrameRetries BY Constants
<1>5. pc \in {"idle", "agent", "send"} /\ (pc = "send" => Tail(s.todo) # <<>>)
  BY DEF Sane, Handlers
<1> HIDE DEF pc
<1>6. s1 \in Handlers /\ s1.pc = pc /\ s1.parts = s.parts /\ s1.total = s.total
      /\ s1.lastRx = s.lastRx
  BY <1>5 DEF Sane, Handlers
<1> HIDE DEF s1
<1>7. s2 \in Handlers /\ s2.pc = s1.pc /\ s2.parts = s1.parts /\ s2.total = s1.total
      /\ s2.lastRx = s1.lastRx /\ s2.todo = Tail(s.todo)
  BY <1>2, <1>6 DEF Handlers
<1> HIDE DEF s2
<1>8. s3 \in Handlers /\ s3.pc = s2.pc /\ s3.parts = s2.parts /\ s3.total = s2.total
      /\ s3.lastRx = s2.lastRx /\ s3.todo = s2.todo
  BY <1>3, <1>7 DEF Handlers
<1> HIDE DEF s3
<1>9. a \in Handlers /\ a.pc = s3.pc /\ a.parts = s3.parts /\ a.total = s3.total
      /\ a.lastRx = s3.lastRx /\ a.todo = s3.todo /\ a.tries = 0
  BY <1>0, <1>8 DEF Handlers
<1>10. a = Acked(s) BY DEF a, s3, s2, s1, pc, Acked
<1> HIDE DEF a
<1> QED BY <1>0, <1>5, <1>6, <1>7, <1>8, <1>9, <1>10 DEF Sane

LEMMA ClosedSane ==
  ASSUME NEW s, Sane(s)
  PROVE  /\ Sane([s EXCEPT !.pc = "closed"])
         /\ [s EXCEPT !.pc = "closed"].lastRx = s.lastRx
BY DEF Sane, Handlers

LEMMA GivenUpSane ==
  ASSUME NEW s, Sane(s), s.pc = "await"
  PROVE  Sane(GivenUp(s)) /\ GivenUp(s).lastRx = s.lastRx
<1>1. s.todo \in Seq(Says) /\ s.todo # <<>> BY DEF Sane, Handlers
<1>2. Head(s.todo) \in Says BY <1>1, HeadTailProperties
<1>3. Head(s.todo).turn \in Nat BY <1>2 DEF Says
<1>4. ErrorReply(Head(s.todo).turn) \in Seq(Says) /\ ErrorReply(Head(s.todo).turn) # <<>>
  BY <1>3, RepliesType
<1>5. /\ Sane(Queue(s, ErrorReply(Head(s.todo).turn), "idle"))
      /\ Queue(s, ErrorReply(Head(s.todo).turn), "idle").lastRx = s.lastRx
  BY <1>4, QueueSane DEF Sane
<1>6. CASE Head(s.todo).op = "PROGRESS" BY <1>5, <1>6 DEF GivenUp
<1>7. CASE Head(s.todo).op # "PROGRESS" BY <1>7, ClosedSane DEF GivenUp
<1> QED BY <1>6, <1>7

LEMMA RetrySane ==
  ASSUME NEW s, Sane(s), s.pc = "await"
  PROVE  Sane(Retry(s)) /\ Retry(s).lastRx = s.lastRx
<1>1. s.todo \in Seq(Says) /\ s.todo # <<>> BY DEF Sane, Handlers
<1>2. CASE s.tries <= FrameRetries BY <1>2, Constants, <1>1 DEF Retry, Sane, Handlers
<1>3. CASE ~(s.tries <= FrameRetries) BY <1>3, GivenUpSane DEF Retry
<1> QED BY <1>2, <1>3

-----------------------------------------------------------------------------
(* Every variable keeps its type.                                          *)

LEMMA ReadType ==
  ASSUME TypeInv, NEW pc, Reads(pc)
  PROVE  /\ Line \in Answers \union Frames /\ toServer' \in Seq(Answers \union Frames)
         /\ IsFrame(Line) => Line \in Frames
<1>1. toServer \in Seq(Answers \union Frames) /\ toServer # <<>> BY DEF TypeInv, Reads
<1>2. Line \in Answers \union Frames /\ Tail(toServer) \in Seq(Answers \union Frames)
  BY <1>1, HeadTailProperties DEF Line
<1> QED BY <1>2 DEF Reads, IsFrame, Answers

LEMMA ReplyType ==
  ASSUME TypeInv, NEW m \in Answers \union HostFrames, Reply(m)
  PROVE  toClient' \in Seq(Answers \union HostFrames)
BY AppendProperties DEF TypeInv, Reply

LEMMA AnswerTypes ==
  /\ \A seq \in Nat : AckLine(seq) \in Answers
  /\ \A seq \in Nat : \A why \in {"CHECKSUM", "LENGTH", "PART", "OP", "BUSY"} :
         NakLine(seq, why) \in Answers
BY DEF AckLine, NakLine, Answers

LEMMA FrameFields ==
  ASSUME NEW m \in Frames
  PROVE  /\ m.seq \in 0..SeqSpace /\ m.seq \in Nat /\ m.k \in Nat /\ m.n \in Nat
         /\ m.chunk \in Chunks /\ m.chunk.id \in Nat
         /\ ~Sound(m) => m.fault \in {"CHECKSUM", "LENGTH"}
BY Constants DEF Frames, Sound, IsFrame, Chunks

\* An accepted frame: its effects on everything but the handler.
LEMMA AcceptType ==
  ASSUME TypeInv, Reads("idle"), Fresh(Line), Accept(Line)
  PROVE  /\ Line \in Frames
         /\ toClient' \in Seq(Answers \union HostFrames)
         /\ accepted' \in Seq(Frames)
<1>1. Line \in Frames BY ReadType DEF Fresh, Sound
<1>2. AckLine(Line.seq) \in Answers BY <1>1, FrameFields, AnswerTypes
<1>3. toClient' \in Seq(Answers \union HostFrames) BY <1>2, ReplyType DEF Accept
<1>4. accepted' \in Seq(Frames) BY <1>1, AppendProperties DEF Accept, TypeInv
<1> QED BY <1>1, <1>3, <1>4

\* Running a whole prompt leaves a handler that has lines to send.
LEMMA RunType ==
  ASSUME Sane(srv), ran \in Seq(Seq(Chunks)), NEW prompt \in Seq(Chunks),
         NEW seq \in 0..SeqSpace, Run(prompt, seq)
  PROVE  /\ Sane(srv') /\ srv'.lastRx = seq
         /\ ran' \in Seq(Seq(Chunks))
<1> DEFINE s0 == [srv EXCEPT !.lastRx = seq]
           s1 == [s0 EXCEPT !.parts = <<>>]
           s2 == [s1 EXCEPT !.total = 0]
           s == [s2 EXCEPT !.beats = 0]
           turn == Len(ran) + 1
<1>1. s0 \in Handlers /\ s0.lastRx = seq BY DEF Sane, Handlers
<1>2. s1 \in Handlers /\ s1.lastRx = seq /\ s1.parts = <<>>
  BY <1>1, EmptySeq DEF Handlers
<1> HIDE DEF s0
<1>3. s2 \in Handlers /\ s2.lastRx = seq /\ s2.parts = <<>> /\ s2.total = 0
  BY <1>2 DEF Handlers
<1> HIDE DEF s1
<1>4. s \in Handlers /\ s.lastRx = seq /\ s.parts = <<>> /\ s.total = 0
  BY <1>3 DEF Handlers
<1>5. s = [srv EXCEPT !.lastRx = seq, !.parts = <<>>, !.total = 0, !.beats = 0]
  BY DEF s, s2, s1, s0
<1> HIDE DEF s2, s
<1>6. Len(s.parts) <= MaxChunks /\ Len(s.parts) <= s.total
  BY <1>4, Constants, EmptySeq
<1>7. turn \in Nat BY LenProperties
<1> HIDE DEF turn
<1>8. ran' \in Seq(Seq(Chunks)) BY AppendProperties DEF Run
<1>9. CASE IsCommand(prompt)
  <2>1. PICK n \in 1..MaxReply :
            srv' = Queue(s, <<Say("READY", turn, 0)>> \o Texts(turn, n) \o Prompt(turn), "idle")
    BY <1>5, <1>9 DEF Run, turn
  <2>2. /\ <<Say("READY", turn, 0)>> \o Texts(turn, n) \o Prompt(turn) \in Seq(Says)
        /\ <<Say("READY", turn, 0)>> \o Texts(turn, n) \o Prompt(turn) # <<>>
    BY <1>7, RepliesType
  <2>3. Sane(srv') /\ srv'.lastRx = s.lastRx BY <1>4, <1>6, <2>1, <2>2, QueueSane
  <2> QED BY <1>4, <1>8, <2>3
<1>10. CASE ~IsCommand(prompt)
  <2>1. srv' = Queue(s, <<Say("THINKING", turn, 0)>>, "agent")
    BY <1>5, <1>10 DEF Run, turn
  <2>2. <<Say("THINKING", turn, 0)>> \in Seq(Says) /\ <<Say("THINKING", turn, 0)>> # <<>>
    BY <1>7, SayType, OneSay
  <2>3. Sane(srv') /\ srv'.lastRx = s.lastRx BY <1>4, <1>6, <2>1, <2>2, QueueSane
  <2> QED BY <1>4, <1>8, <2>3
<1> QED BY <1>9, <1>10

\* Accepting leaves, around the handler, exactly one new accepted frame.
LEMMA AcceptHelloSane ==
  ASSUME TypeInv, AcceptHello
  PROVE  Sane(srv') /\ srv'.lastRx = Line.seq
<1>1. Line \in Frames BY AcceptType DEF AcceptHello
<1> DEFINE s0 == [srv EXCEPT !.lastRx = Line.seq]
           s == [s0 EXCEPT !.hello = TRUE]
<1>2. s0 \in Handlers /\ s0.lastRx = Line.seq /\ s0.parts = srv.parts /\ s0.total = srv.total
  BY <1>1, FrameFields DEF TypeInv, Sane, Handlers
<1> HIDE DEF s0
<1>3. s \in Handlers /\ s.lastRx = Line.seq /\ s.parts = srv.parts /\ s.total = srv.total
  BY <1>2 DEF Handlers
<1>4. srv' = Queue(s, <<Say("READY", 0, 0)>>, "idle") BY DEF AcceptHello, s, s0
<1> HIDE DEF s
<1>5. <<Say("READY", 0, 0)>> \in Seq(Says) /\ <<Say("READY", 0, 0)>> # <<>>
  BY SayType, OneSay
<1> QED BY <1>3, <1>4, <1>5, QueueSane DEF TypeInv, Sane

LEMMA AcceptMsgSane ==
  ASSUME TypeInv, AcceptMsg
  PROVE  Sane(srv') /\ srv'.lastRx = Line.seq /\ ran' \in Seq(Seq(Chunks))
<1>1. Line \in Frames BY AcceptType DEF AcceptMsg
<1>2. <<Line.chunk>> \in Seq(Chunks) BY <1>1, FrameFields
<1> QED BY <1>1, <1>2, FrameFields, RunType DEF AcceptMsg, TypeInv

LEMMA BufferType ==
  ASSUME TypeInv, Line \in Frames, ValidPart(Line)
  PROVE  /\ Buffer(Line) \in Seq(Chunks)
         /\ Len(Buffer(Line)) = Line.k /\ Line.k <= Line.n
<1>1. Line.chunk \in Chunks /\ Line.k \in Nat /\ Line.n \in Nat /\ Line.k <= Line.n
  BY FrameFields DEF ValidPart
<1>2. srv.parts \in Seq(Chunks) BY DEF TypeInv, Sane, Handlers
<1>3. CASE Line.k = 1 BY <1>1, <1>3 DEF Buffer
<1>4. CASE Line.k # 1
  <2>1. Buffer(Line) = Append(srv.parts, Line.chunk) BY <1>4 DEF Buffer
  <2>2. Line.k = Len(srv.parts) + 1 BY <1>4 DEF ValidPart
  <2> QED BY <1>1, <1>2, <2>1, <2>2, AppendProperties
<1> QED BY <1>3, <1>4

LEMMA AcceptPartSane ==
  ASSUME TypeInv, AcceptPart
  PROVE  Sane(srv') /\ srv'.lastRx = Line.seq /\ ran' \in Seq(Seq(Chunks))
<1>1. Line \in Frames BY AcceptType DEF AcceptPart
<1>2. /\ Buffer(Line) \in Seq(Chunks) /\ Len(Buffer(Line)) \in Nat
      /\ Len(Buffer(Line)) <= Line.n /\ Line.n \in Nat
  BY <1>1, BufferType, FrameFields, LenProperties DEF AcceptPart
<1> DEFINE buffer == Buffer(Line)
           s == [srv EXCEPT !.lastRx = Line.seq]
<1>3. s \in Handlers /\ s.lastRx = Line.seq
  BY <1>1, FrameFields DEF TypeInv, Sane, Handlers
<1>4. ran \in Seq(Seq(Chunks)) /\ Len(ran) \in Nat BY LenProperties DEF TypeInv
<1>5. CASE Len(buffer) > MaxChunks
  <2> DEFINE t0 == [s EXCEPT !.parts = <<>>]
             t == [t0 EXCEPT !.total = 0]
  <2>1. srv' = Queue([s EXCEPT !.parts = <<>>, !.total = 0], ErrorReply(Len(ran)), "idle")
        /\ UNCHANGED ran
    <3>1. ~(Len(buffer) <= MaxChunks /\ Line.k < Line.n) BY <1>2, <1>5, Constants
    <3> HIDE DEF t0, t
    <3> QED BY <1>5, <3>1 DEF AcceptPart
  <2>2. [s EXCEPT !.parts = <<>>, !.total = 0] = t OBVIOUS
  <2> HIDE DEF s
  <2>3. t0 \in Handlers /\ t0.lastRx = s.lastRx /\ t0.parts = <<>>
    BY <1>3, EmptySeq DEF Handlers
  <2> HIDE DEF t0
  <2>4. t \in Handlers /\ t.lastRx = s.lastRx /\ t.parts = <<>> /\ t.total = 0
    BY <2>3 DEF Handlers
  <2> HIDE DEF t
  <2>5. Len(t.parts) <= MaxChunks /\ Len(t.parts) <= t.total BY <2>4, Constants, EmptySeq
  <2>6. Sane(srv') /\ srv'.lastRx = t.lastRx
    BY <1>4, <2>1, <2>2, <2>4, <2>5, QueueSane, RepliesType
  <2> QED BY <1>3, <1>4, <2>1, <2>4, <2>6
<1>6. CASE Len(buffer) <= MaxChunks /\ Line.k < Line.n
  <2> DEFINE t == [s EXCEPT !.parts = buffer]
  <2>1. ~(Len(buffer) > MaxChunks) BY <1>2, <1>6, Constants
  <2>2. srv' = [s EXCEPT !.parts = buffer, !.total = Line.n] /\ UNCHANGED ran
    BY <1>6, <2>1 DEF AcceptPart
  <2>3. srv.pc = "idle" /\ s.pc = "idle"
    BY DEF AcceptPart, Reads, TypeInv, Sane, Handlers
  <2>4. srv' = [t EXCEPT !.total = Line.n] BY <2>2
  <2> HIDE DEF s
  <2>5. t \in Handlers /\ t.lastRx = s.lastRx /\ t.parts = buffer /\ t.pc = "idle"
    BY <1>2, <1>3, <2>3 DEF Handlers
  <2> HIDE DEF t
  <2>6. /\ srv' \in Handlers /\ srv'.lastRx = s.lastRx /\ srv'.parts = buffer
        /\ srv'.total = Line.n /\ srv'.pc = "idle"
    BY <1>2, <2>4, <2>5 DEF Handlers
  <2> QED BY <1>2, <1>3, <1>4, <1>6, <2>2, <2>6 DEF Sane
<1>7. CASE ~(Len(buffer) > MaxChunks) /\ ~(Len(buffer) <= MaxChunks /\ Line.k < Line.n)
  <2>1. Run(buffer, Line.seq) BY <1>7 DEF AcceptPart
  <2> QED BY <1>1, <1>2, <1>4, <2>1, FrameFields, RunType DEF TypeInv
<1> QED BY <1>5, <1>6, <1>7

\* What a step of the host leaves in place when it accepts nothing: the frames
\* it has accepted, the last sequence number, and a suffix of what is to read.
Passes ==
    /\ accepted' = accepted
    /\ srv'.lastRx = srv.lastRx
    /\ toServer' = toServer \/ (toServer # <<>> /\ toServer' = Tail(toServer))

Types ==
    /\ toServer' \in Seq(Answers \union Frames)
    /\ toClient' \in Seq(Answers \union HostFrames)
    /\ Sane(srv')
    /\ accepted' \in Seq(Frames)
    /\ ran' \in Seq(Seq(Chunks))

Accepts == AcceptHello \/ AcceptMsg \/ AcceptPart

\* The host accepts the frame at the head of its input, and only then.
Takes ==
    /\ toServer # <<>> /\ toServer' = Tail(toServer)
    /\ Fresh(Line)
    /\ accepted' = Append(accepted, Line)
    /\ srv'.lastRx = Line.seq

LEMMA AcceptStep == ASSUME TypeInv, Accepts PROVE Types /\ Takes
<1>1. CASE AcceptHello
  <2>1. Reads("idle") /\ Fresh(Line) /\ Accept(Line) /\ ran' = ran
    BY <1>1 DEF AcceptHello
  <2> QED BY <1>1, <2>1, ReadType, AcceptType, AcceptHelloSane
        DEF Types, Takes, TypeInv, Accept, Reads
<1>2. CASE AcceptMsg
  <2>1. Reads("idle") /\ Fresh(Line) /\ Accept(Line) BY <1>2 DEF AcceptMsg
  <2> QED BY <1>2, <2>1, ReadType, AcceptType, AcceptMsgSane
        DEF Types, Takes, TypeInv, Accept, Reads
<1>3. CASE AcceptPart
  <2>1. Reads("idle") /\ Fresh(Line) /\ Accept(Line) BY <1>3 DEF AcceptPart
  <2> QED BY <1>3, <2>1, ReadType, AcceptType, AcceptPartSane
        DEF Types, Takes, TypeInv, Accept, Reads
<1> QED BY <1>1, <1>2, <1>3 DEF Accepts

\* Lines that are answered or dropped without being applied.
LEMMA AnswerStep ==
  ASSUME TypeInv,
         SkipLine \/ RejectFault \/ ReAck \/ RejectFrame \/ StaleLine \/ FrameWhileBusy
  PROVE  Types /\ Passes
<1>1. CASE SkipLine
  BY <1>1, ReadType DEF SkipLine, Types, Passes, TypeInv, Reads, serverVars
<1>2. CASE StaleLine
  BY <1>2, ReadType DEF StaleLine, Types, Passes, TypeInv, Reads, serverVars
<1>3. CASE RejectFault
  <2>1. Line \in Frames BY <1>3, ReadType DEF RejectFault
  <2>2. NakLine(Line.seq, Line.fault) \in Answers
    BY <1>3, <2>1, FrameFields, AnswerTypes DEF RejectFault
  <2>3. toClient' \in Seq(Answers \union HostFrames)
    BY <1>3, <2>2, ReplyType DEF RejectFault
  <2>4. Sane(srv') /\ srv'.lastRx = srv.lastRx
    BY <1>3 DEF RejectFault, TypeInv, Sane, Handlers
  <2> QED BY <1>3, <2>3, <2>4, ReadType DEF RejectFault, Types, Passes, TypeInv, Reads
<1>4. CASE ReAck
  <2>1. Line \in Frames BY <1>4, ReadType DEF ReAck, Sound
  <2>2. toClient' \in Seq(Answers \union HostFrames)
    BY <1>4, <2>1, FrameFields, AnswerTypes, ReplyType DEF ReAck
  <2> QED BY <1>4, <2>2, ReadType DEF ReAck, Types, Passes, TypeInv, Reads, serverVars
<1>5. CASE RejectFrame
  <2>1. Line \in Frames BY <1>5, ReadType DEF RejectFrame, Fresh, Sound
  <2>2. toClient' \in Seq(Answers \union HostFrames)
    BY <1>5, <2>1, FrameFields, AnswerTypes, ReplyType DEF RejectFrame
  <2> QED BY <1>5, <2>2, ReadType DEF RejectFrame, Types, Passes, TypeInv, Reads, serverVars
<1>6. CASE FrameWhileBusy
  <2>1. Line \in Frames BY <1>6, ReadType DEF FrameWhileBusy
  <2>2. BusyReply(Line) \in Answers
    BY <2>1, FrameFields, AnswerTypes DEF BusyReply
  <2>3. toClient' \in Seq(Answers \union HostFrames)
    BY <1>6, <2>2, ReplyType DEF FrameWhileBusy
  <2> QED BY <1>6, <2>3, ReadType DEF FrameWhileBusy, Types, Passes, TypeInv, Reads, serverVars
<1> QED BY <1>1, <1>2, <1>3, <1>4, <1>5, <1>6

\* send_frame: writing, being acknowledged, and trying again.
LEMMA SendStep ==
  ASSUME TypeInv,
         \/ Transmit \/ AckArrives \/ NakArrives \/ FrameTimeout
         \/ TurnTimesOut \/ CommandRaises
  PROVE  Types /\ Passes
<1>1. CASE Transmit
  <2>1. srv.pc = "send" /\ srv.todo \in Seq(Says) /\ srv.todo # <<>>
        /\ srv.tries <= FrameRetries /\ srv \in Handlers
    BY <1>1 DEF Transmit, TypeInv, Sane, Handlers
  <2>2. Head(srv.todo) \in Says BY <2>1, HeadTailProperties
  <2>3. HostFrame(srv.txSeq, Head(srv.todo)) \in HostFrames
    BY <2>1, <2>2, Constants DEF HostFrame, HostFrames, Says, Handlers
  <2>4. toClient' \in Seq(Answers \union HostFrames)
    BY <1>1, <2>3, ReplyType DEF Transmit
  <2> DEFINE s == [srv EXCEPT !.pc = "await"]
  <2>5. s \in Handlers /\ s.tries = srv.tries /\ s.pc = "await" /\ s.todo = srv.todo
        /\ s.parts = srv.parts /\ s.total = srv.total /\ s.lastRx = srv.lastRx
    BY <2>1 DEF Handlers
  <2>6. srv' = [s EXCEPT !.tries = srv.tries + 1] BY <1>1 DEF Transmit
  <2> HIDE DEF s
  <2>7. srv.tries + 1 \in 0..(FrameRetries + 1) BY <2>1, Constants DEF Handlers
  <2>8. /\ srv' \in Handlers /\ srv'.pc = "await" /\ srv'.todo = srv.todo
        /\ srv'.parts = srv.parts /\ srv'.total = srv.total /\ srv'.lastRx = srv.lastRx
    BY <2>5, <2>6, <2>7 DEF Handlers
  <2> QED BY <1>1, <2>1, <2>4, <2>8 DEF Transmit, Types, Passes, TypeInv, Sane
<1>2. CASE AckArrives
  <2>1. Sane(srv) /\ srv.pc = "await" /\ srv' = Acked(srv)
    BY <1>2 DEF AckArrives, Reads, TypeInv
  <2> QED BY <1>2, <2>1, AckedSane, ReadType DEF AckArrives, Types, Passes, TypeInv, Reads
<1>3. CASE NakArrives
  <2>1. Sane(srv) /\ srv.pc = "await" /\ srv' = Retry(srv)
    BY <1>3 DEF NakArrives, Reads, TypeInv
  <2> QED BY <1>3, <2>1, RetrySane, ReadType DEF NakArrives, Types, Passes, TypeInv, Reads
<1>4. CASE FrameTimeout
  <2>1. Sane(srv) /\ srv.pc = "await" /\ srv' = Retry(srv)
    BY <1>4 DEF FrameTimeout, TypeInv
  <2> QED BY <1>4, <2>1, RetrySane DEF FrameTimeout, Types, Passes, TypeInv
<1>5. CASE TurnTimesOut
  <2>1. Sane(srv) /\ srv.pc = "await" /\ srv' = GivenUp(srv)
    BY <1>5 DEF TurnTimesOut, TypeInv
  <2> QED BY <1>5, <2>1, GivenUpSane DEF TurnTimesOut, Types, Passes, TypeInv
<1>6. CASE CommandRaises
  <2>1. Sane(srv) /\ srv' = [srv EXCEPT !.pc = "closed"] BY <1>6 DEF CommandRaises, TypeInv
  <2> QED BY <1>6, <2>1, ClosedSane DEF CommandRaises, Types, Passes, TypeInv
<1> QED BY <1>1, <1>2, <1>3, <1>4, <1>5, <1>6

\* The agent's progress, answer or failure.
LEMMA AgentStep ==
  ASSUME TypeInv, Agent \/ AgentProgress
  PROVE  Types /\ Passes
<1>1. srv \in Handlers /\ Len(srv.parts) <= MaxChunks /\ Len(srv.parts) <= srv.total
  BY DEF TypeInv, Sane
<1>2. Len(ran) \in Nat BY LenProperties DEF TypeInv
<1>3. CASE AgentProgress
  <2> DEFINE q == Queue(srv, <<Say("PROGRESS", Len(ran), 0)>>, "agent")
  <2>1. Sane(q) /\ q.lastRx = srv.lastRx BY <1>1, <1>2, SayType, OneSay, QueueSane
  <2>2. srv' = [q EXCEPT !.beats = @ + 1] BY <1>3 DEF AgentProgress
  <2> HIDE DEF q
  <2>3. Sane(srv') /\ srv'.lastRx = q.lastRx BY <2>1, <2>2 DEF Sane, Handlers
  <2> QED BY <1>3, <2>1, <2>3 DEF AgentProgress, Types, Passes, TypeInv
<1>4. CASE AgentReplies
  <2>1. PICK n \in 1..MaxReply :
            srv' = Queue(srv, Texts(Len(ran), n) \o Prompt(Len(ran)), "idle")
    BY <1>4 DEF AgentReplies
  <2>2. Sane(srv') /\ srv'.lastRx = srv.lastRx
    BY <1>1, <1>2, <2>1, RepliesType, QueueSane
  <2> QED BY <1>4, <2>2 DEF AgentReplies, Types, Passes, TypeInv
<1>5. CASE AgentFails
  <2>1. srv' = Queue(srv, ErrorReply(Len(ran)), "idle") BY <1>5 DEF AgentFails
  <2>2. Sane(srv') /\ srv'.lastRx = srv.lastRx
    BY <1>1, <1>2, <2>1, RepliesType, QueueSane
  <2> QED BY <1>5, <2>2 DEF AgentFails, Types, Passes, TypeInv
<1> QED BY <1>3, <1>4, <1>5 DEF Agent

LEMMA ServerStep ==
  ASSUME TypeInv, ServerNext
  PROVE  Types /\ (Passes \/ Takes)
BY AcceptStep, AnswerStep, SendStep, AgentStep
   DEF ServerNext, MainLoop, Sender, Accepts

LEMMA FrameType ==
  ASSUME NEW seq \in 0..SeqSpace, NEW op \in {"HELLO", "MSG", "MSGP", "none"},
         NEW k \in Nat, NEW n \in Nat, NEW id \in Nat, NEW part \in Nat, NEW cmd \in BOOLEAN
  PROVE  ClientFrame(seq, op, k, n, Chunk(id, part, cmd)) \in Frames
<1>1. Chunk(id, part, cmd) \in Chunks BY DEF Chunk, Chunks
<1> HIDE DEF Chunk, Chunks
<1> QED BY <1>1 DEF ClientFrame, Frames

LEMMA NoFrameType == NoFrame \in Frames
<1>1. SeqSpace \in 0..SeqSpace /\ 0 \in Nat BY Constants
<1>2. ClientFrame(SeqSpace, "none", 0, 0, Chunk(0, 0, FALSE)) \in Frames
  BY <1>1, FrameType
<1> QED BY <1>2 DEF NoFrame, NoSeq

LEMMA OffersType ==
  ASSUME NEW made \in Nat, NEW frame \in Offers(made % SeqSpace, made + 1)
  PROVE  frame \in Frames
<1>1. made % SeqSpace \in 0..SeqSpace /\ made + 1 \in Nat BY Constants
<1> DEFINE seq == made % SeqSpace
           id == made + 1
<1>2. \/ frame = ClientFrame(seq, "HELLO", 1, 1, Chunk(id, 1, FALSE))
      \/ \E cmd \in BOOLEAN : frame = ClientFrame(seq, "MSG", 1, 1, Chunk(id, 1, cmd))
      \/ \E p \in Parts : frame = ClientFrame(seq, "MSGP", p[1], p[2], Chunk(id, p[1], FALSE))
  BY DEF Offers
<1>3. \A p \in Parts : p[1] \in Nat /\ p[2] \in Nat BY NativePeerAssumption
<1> HIDE DEF seq, id
<1>4. seq \in 0..SeqSpace /\ id \in Nat /\ 1 \in Nat BY <1>1 DEF seq, id
<1>5. CASE frame = ClientFrame(seq, "HELLO", 1, 1, Chunk(id, 1, FALSE))
  <2>1. ClientFrame(seq, "HELLO", 1, 1, Chunk(id, 1, FALSE)) \in Frames BY <1>4, FrameType
  <2> QED BY <1>5, <2>1
<1>6. ASSUME NEW cmd \in BOOLEAN, frame = ClientFrame(seq, "MSG", 1, 1, Chunk(id, 1, cmd))
      PROVE  frame \in Frames
  <2>1. ClientFrame(seq, "MSG", 1, 1, Chunk(id, 1, cmd)) \in Frames BY <1>4, FrameType
  <2> QED BY <1>6, <2>1
<1>7. ASSUME NEW p \in Parts,
             frame = ClientFrame(seq, "MSGP", p[1], p[2], Chunk(id, p[1], FALSE))
      PROVE  frame \in Frames
  <2>1. p[1] \in Nat /\ p[2] \in Nat BY <1>3
  <2>2. ClientFrame(seq, "MSGP", p[1], p[2], Chunk(id, p[1], FALSE)) \in Frames
    BY <1>4, <2>1, FrameType
  <2> QED BY <1>7, <2>2
<1> QED BY <1>2, <1>5, <1>6, <1>7

LEMMA PeerStep ==
  ASSUME TypeInv, PeerNext
  PROVE  /\ toServer' \in Seq(Answers \union Frames)
         /\ toClient' \in Seq(Answers \union HostFrames)
         /\ UNCHANGED serverVars
         /\ peer' \in [frame : Frames, made : Nat, resends : Nat]
<1> USE DEF TypeInv
<1>1. UNCHANGED serverVars
  BY DEF PeerNext, PeerSends, PeerResends, PeerMovesOn, PeerNaked, PeerIgnores, PeerAnswers
<1>2. peer.frame \in Frames BY DEF TypeInv
<1>3. ASSUME NEW frame \in Frames, Write(frame)
      PROVE  toServer' \in Seq(Answers \union Frames)
  <2>1. PICK fault \in {"none", "CHECKSUM", "LENGTH"} :
            toServer' = Append(toServer, [frame EXCEPT !.fault = fault])
    BY <1>3 DEF Write
  <2>2. [frame EXCEPT !.fault = fault] \in Answers \union Frames BY DEF Frames
  <2> QED BY <2>1, <2>2, AppendProperties
<1>4. ASSUME PeerReads
      PROVE  /\ FromHost \in Answers \union HostFrames /\ FromHost.seq \in Nat
             /\ toClient' \in Seq(Answers \union HostFrames)
  <2>1. FromHost \in Answers \union HostFrames /\ Tail(toClient) \in Seq(Answers \union HostFrames)
    BY <1>4, HeadTailProperties DEF PeerReads, FromHost
  <2> QED BY <1>4, <2>1 DEF PeerReads, Answers, HostFrames
<1>5. CASE PeerSends
  <2>1. PICK frame \in Offers(peer.made % SeqSpace, peer.made + 1) :
            /\ peer' = [frame |-> frame, made |-> peer.made + 1, resends |-> peer.resends]
            /\ Write(frame)
    BY <1>5 DEF PeerSends
  <2>2. frame \in Frames BY <2>1, OffersType
  <2>3. toServer' \in Seq(Answers \union Frames) BY <1>3, <2>1, <2>2
  <2> QED BY <1>1, <1>5, <2>1, <2>2, <2>3 DEF PeerSends
<1>6. CASE PeerResends
  <2>1. toServer' \in Seq(Answers \union Frames) BY <1>2, <1>3, <1>6 DEF PeerResends
  <2> QED BY <1>1, <1>6, <2>1 DEF PeerResends
<1>7. CASE PeerMovesOn BY <1>1, <1>4, <1>7, NoFrameType DEF PeerMovesOn
<1>8. CASE PeerNaked
  <2>1. PeerReads /\ Write(peer.frame) /\ peer' = [peer EXCEPT !.resends = @ + 1]
    BY <1>8 DEF PeerNaked
  <2>2. toServer' \in Seq(Answers \union Frames) BY <1>2, <1>3, <2>1
  <2>3. toClient' \in Seq(Answers \union HostFrames) BY <1>4, <2>1
  <2>4. peer \in [frame : Frames, made : Nat, resends : Nat] BY DEF TypeInv
  <2> HIDE DEF TypeInv, PeerReads, Write, Frames
  <2>5. peer' \in [frame : Frames, made : Nat, resends : Nat] BY <2>1, <2>4
  <2> QED BY <1>1, <2>2, <2>3, <2>5
<1>9. CASE PeerIgnores BY <1>1, <1>4, <1>9 DEF PeerIgnores
<1>10. CASE PeerAnswers
  <2>1. PICK m \in {AckLine(FromHost.seq), NakLine(FromHost.seq, "CHECKSUM")} :
            toServer' = Append(toServer, m)
    BY <1>10 DEF PeerAnswers
  <2>2. m \in Answers \union Frames BY <1>4, <1>10, AnswerTypes DEF PeerAnswers
  <2> QED BY <1>1, <1>4, <1>10, <2>1, <2>2, AppendProperties DEF PeerAnswers
<1> QED BY <1>5, <1>6, <1>7, <1>8, <1>9, <1>10 DEF PeerNext

LEMMA InitType == Init => TypeInv
<1> SUFFICES ASSUME Init PROVE TypeInv
  OBVIOUS
<1>1. NoFrame \in Frames BY NoFrameType
<1>2. Sane(NewHandler)
  BY Constants, EmptySeq DEF NewHandler, Sane, Handlers, NoSeq
<1> QED BY <1>1, <1>2, EmptySeq DEF Init, ServerInit, TypeInv

LEMMA NextType == TypeInv /\ [Next]_vars => TypeInv'
<1> SUFFICES ASSUME TypeInv, [Next]_vars PROVE TypeInv'
  OBVIOUS
<1>1. CASE PeerNext BY <1>1, PeerStep DEF TypeInv, serverVars
<1>2. CASE ServerNext /\ UNCHANGED peer BY <1>2, ServerStep DEF TypeInv, Types
<1>3. CASE UNCHANGED vars BY <1>3 DEF TypeInv, vars, serverVars
<1> QED BY <1>1, <1>2, <1>3 DEF Next

\* The handler's registers stay in range, retries stay within FRAME_RETRIES and
\* the MSGP buffer within the prompt limit and its announced total, whatever the
\* peer sends (native_mode, send_frame).
THEOREM TypeCorrect == Spec => []TypeOK
<1>1. TypeInv => TypeOK
  <2> SUFFICES ASSUME TypeInv PROVE TypeOK
    OBVIOUS
  <2>1. Sane(srv) /\ srv \in Handlers BY DEF TypeInv, Sane
  <2>2. Len(srv.parts) \in Nat BY <2>1, LenProperties DEF Handlers
  <2> QED BY <2>1, <2>2, Constants DEF TypeOK, Sane, Handlers
<1> QED BY <1>1, InitType, NextType, PTL DEF Spec

-----------------------------------------------------------------------------
(* No frame is applied twice.                                              *)
(* The peer numbers its frames in the order it makes them, and TCP keeps   *)
(* that order, so between two copies of one frame the host reads only      *)
(* copies of that frame.  The first one accepted sets last_rx to its       *)
(* sequence number, and no other can change it before the second.          *)

\* The sequence number of the peer's frame `id`.
SeqOf(id) == (id - 1) % SeqSpace
Named(f, made) == f.chunk.id \in 1..made /\ f.seq = SeqOf(f.chunk.id)

\* The frames on their way to the host are the peer's, in the order it made them.
Ordered(q, made) ==
    /\ \A i \in DOMAIN q : IsFrame(q[i]) => Named(q[i], made)
    /\ \A i, j \in DOMAIN q :
           i < j /\ IsFrame(q[i]) /\ IsFrame(q[j]) => q[i].chunk.id <= q[j].chunk.id

\* The host accepted frames in that order too, each once and none newer than
\* what it has yet to read, and it remembers the number of the last of them.
Remembered(acc, last, q, made) ==
    /\ \A i \in DOMAIN acc : Named(acc[i], made)
    /\ \A i, j \in DOMAIN acc : i < j => acc[i].chunk.id < acc[j].chunk.id
    /\ \A i \in DOMAIN acc : \A j \in DOMAIN q :
           IsFrame(q[j]) => acc[i].chunk.id <= q[j].chunk.id
    /\ acc # <<>> => last = acc[Len(acc)].seq

\* The frame the peer may resend is the last it made.
Newest(p) ==
    p.frame # NoFrame => p.frame.chunk.id = p.made /\ Named(p.frame, p.made)

OnceInv ==
    /\ Ordered(toServer, peer.made)
    /\ Remembered(accepted, srv.lastRx, toServer, peer.made)
    /\ Newest(peer)

-----------------------------------------------------------------------------
(* What reading and writing the channel preserves.                         *)

LEMMA TailFacts ==
  ASSUME NEW S, NEW q \in Seq(S), q # <<>>
  PROVE  /\ \A i \in DOMAIN Tail(q) : i + 1 \in DOMAIN q /\ Tail(q)[i] = q[i + 1]
         /\ \A i \in DOMAIN Tail(q) : i \in Nat
         /\ 1 \in DOMAIN q /\ Head(q) = q[1]
OBVIOUS

LEMMA AppendFacts ==
  ASSUME NEW S, NEW q \in Seq(S), NEW m \in S
  PROVE  /\ DOMAIN q = 1..Len(q) /\ Len(q) \in Nat
         /\ DOMAIN Append(q, m) = 1..(Len(q) + 1) /\ Append(q, m) # <<>>
         /\ Len(Append(q, m)) = Len(q) + 1
         /\ \A i \in 1..Len(q) : Append(q, m)[i] = q[i]
         /\ Append(q, m)[Len(q) + 1] = m
OBVIOUS

LEMMA OrderedTail ==
  ASSUME NEW S, NEW q \in Seq(S), q # <<>>, NEW made \in Nat, Ordered(q, made)
  PROVE  Ordered(Tail(q), made)
<1>1. ASSUME NEW i \in DOMAIN Tail(q), IsFrame(Tail(q)[i]) PROVE Named(Tail(q)[i], made)
  BY <1>1, TailFacts DEF Ordered
<1>2. ASSUME NEW i \in DOMAIN Tail(q), NEW j \in DOMAIN Tail(q), i < j,
             IsFrame(Tail(q)[i]), IsFrame(Tail(q)[j])
      PROVE  Tail(q)[i].chunk.id <= Tail(q)[j].chunk.id
  <2>1. i + 1 \in DOMAIN q /\ j + 1 \in DOMAIN q /\ i + 1 < j + 1
    BY <1>2, TailFacts
  <2> QED BY <1>2, <2>1, TailFacts DEF Ordered
<1> QED BY <1>1, <1>2 DEF Ordered

LEMMA OrderedAnswer ==
  ASSUME NEW S, NEW q \in Seq(S), NEW m \in S, ~IsFrame(m), NEW made \in Nat,
         Ordered(q, made)
  PROVE  Ordered(Append(q, m), made)
<1> DEFINE r == Append(q, m)
<1>1. \A i \in DOMAIN r : IsFrame(r[i]) => i \in DOMAIN q /\ r[i] = q[i]
  <2> SUFFICES ASSUME NEW i \in DOMAIN r, IsFrame(r[i]) PROVE i \in DOMAIN q /\ r[i] = q[i]
    OBVIOUS
  <2>1. i \in 1..Len(q) \/ i = Len(q) + 1 BY AppendFacts
  <2> QED BY <2>1, AppendFacts
<1> HIDE DEF r
<1>2. Ordered(r, made) BY <1>1 DEF Ordered
<1> QED BY <1>2 DEF r

\* A frame whose number is the newest goes behind all others.
LEMMA OrderedFrame ==
  ASSUME NEW S, NEW q \in Seq(S), NEW m \in S, NEW old \in Nat, NEW made \in Nat,
         old <= made, Ordered(q, old), Named(m, made), m.chunk.id = made
  PROVE  Ordered(Append(q, m), made)
<1> DEFINE r == Append(q, m)
<1>1. \A i \in DOMAIN q : IsFrame(q[i]) =>
          Named(q[i], made) /\ q[i].chunk.id <= m.chunk.id
  BY DEF Ordered, Named
<1>2. \A i \in DOMAIN r : (i \in DOMAIN q /\ r[i] = q[i]) \/ (i = Len(q) + 1 /\ r[i] = m)
  BY AppendFacts
<1>3. DOMAIN q = 1..Len(q) /\ Len(q) \in Nat BY AppendFacts
<1> HIDE DEF r
<1>4. \A i \in DOMAIN r : IsFrame(r[i]) => Named(r[i], made) BY <1>1, <1>2
<1>5. ASSUME NEW i \in DOMAIN r, NEW j \in DOMAIN r, i < j, IsFrame(r[i]), IsFrame(r[j])
      PROVE  r[i].chunk.id <= r[j].chunk.id
  <2>1. i \in DOMAIN q /\ r[i] = q[i] BY <1>2, <1>3, <1>5
  <2>2. CASE j \in DOMAIN q /\ r[j] = q[j] BY <1>5, <2>1, <2>2 DEF Ordered
  <2>3. CASE r[j] = m BY <1>1, <1>5, <2>1, <2>3
  <2> QED BY <1>2, <2>2, <2>3
<1>6. Ordered(r, made) BY <1>4, <1>5 DEF Ordered
<1> QED BY <1>6 DEF r

LEMMA RememberedTail ==
  ASSUME NEW S, NEW q \in Seq(S), q # <<>>, NEW made, NEW acc, NEW last,
         Remembered(acc, last, q, made)
  PROVE  Remembered(acc, last, Tail(q), made)
<1>1. \A i \in DOMAIN acc : \A j \in DOMAIN Tail(q) :
          IsFrame(Tail(q)[j]) => acc[i].chunk.id <= Tail(q)[j].chunk.id
  BY TailFacts DEF Remembered
<1> QED BY <1>1 DEF Remembered

\* Writing the newest frame, or no frame, to the host leaves what it accepted.
LEMMA RememberedAppend ==
  ASSUME NEW S, NEW q \in Seq(S), NEW m \in S, NEW old \in Nat, NEW made \in Nat,
         old <= made, NEW acc, NEW last, Remembered(acc, last, q, old),
         IsFrame(m) => m.chunk.id = made
  PROVE  Remembered(acc, last, Append(q, m), made)
<1> DEFINE r == Append(q, m)
<1>1. \A i \in DOMAIN r : (i \in DOMAIN q /\ r[i] = q[i]) \/ r[i] = m BY AppendFacts
<1>2. \A i \in DOMAIN acc : Named(acc[i], made) /\ acc[i].chunk.id <= made
  BY DEF Remembered, Named
<1> HIDE DEF r
<1>3. \A i \in DOMAIN acc : \A j \in DOMAIN r :
          IsFrame(r[j]) => acc[i].chunk.id <= r[j].chunk.id
  BY <1>1, <1>2 DEF Remembered
<1>4. Remembered(acc, last, r, made) BY <1>2, <1>3 DEF Remembered
<1> QED BY <1>4 DEF r

\* Accepting: a frame with another number than the last is a newer frame.
LEMMA RememberedTake ==
  ASSUME NEW S, NEW q \in Seq(S), q # <<>>, NEW made \in Nat, Ordered(q, made),
         NEW T, NEW acc \in Seq(T), Head(q) \in T, NEW last,
         Remembered(acc, last, q, made), IsFrame(Head(q)), Head(q).seq # last
  PROVE  Remembered(Append(acc, Head(q)), Head(q).seq, Tail(q), made)
<1> DEFINE m == Head(q)
           r == Append(acc, m)
           rest == Tail(q)
<1>1. 1 \in DOMAIN q /\ m = q[1] BY TailFacts
<1>2. Named(m, made) BY <1>1 DEF Ordered
<1>3. /\ DOMAIN acc = 1..Len(acc) /\ Len(acc) \in Nat
      /\ DOMAIN r = 1..(Len(acc) + 1) /\ r # <<>> /\ Len(r) = Len(acc) + 1
      /\ \A i \in 1..Len(acc) : r[i] = acc[i]
      /\ r[Len(acc) + 1] = m
  BY AppendFacts
<1>4. \A i \in DOMAIN acc : acc[i].chunk.id <= m.chunk.id BY <1>1 DEF Remembered
<1>5. \A i \in DOMAIN acc : acc[i].chunk.id \in 1..made BY DEF Remembered, Named
<1>6. ASSUME NEW i \in DOMAIN acc PROVE acc[i].chunk.id < m.chunk.id
  <2> DEFINE n == Len(acc)
  <2>1. n \in DOMAIN acc /\ acc # <<>> BY <1>3
  <2>2. last = acc[n].seq /\ Named(acc[n], made) BY <2>1 DEF Remembered
  <2>3. acc[n].chunk.id # m.chunk.id BY <1>2, <2>2 DEF Named
  <2>4. acc[n].chunk.id < m.chunk.id BY <1>2, <1>4, <1>5, <2>1, <2>3 DEF Named
  <2>5. acc[i].chunk.id <= acc[n].chunk.id BY <1>3, <1>5, <2>1 DEF Remembered
  <2> QED BY <1>2, <1>5, <2>1, <2>4, <2>5 DEF Named
<1>7. \A j \in DOMAIN rest : IsFrame(rest[j]) =>
          /\ m.chunk.id <= rest[j].chunk.id
          /\ \A i \in DOMAIN acc : acc[i].chunk.id <= rest[j].chunk.id
  <2> SUFFICES ASSUME NEW j \in DOMAIN rest, IsFrame(rest[j])
               PROVE  /\ m.chunk.id <= rest[j].chunk.id
                      /\ \A i \in DOMAIN acc : acc[i].chunk.id <= rest[j].chunk.id
    OBVIOUS
  <2>1. j + 1 \in DOMAIN q /\ rest[j] = q[j + 1] /\ j \in Nat /\ 1 < j + 1
    <3>1. j + 1 \in DOMAIN q /\ rest[j] = q[j + 1] /\ j \in Nat /\ j # 0 BY TailFacts
    <3> QED BY <3>1
  <2> QED BY <1>1, <2>1 DEF Ordered, Remembered
<1> HIDE DEF m, r, rest
<1>8. \A i \in DOMAIN r : (i \in DOMAIN acc /\ r[i] = acc[i]) \/ (i = Len(acc) + 1 /\ r[i] = m)
  BY <1>3
<1>9. \A i \in DOMAIN r : Named(r[i], made) BY <1>2, <1>8 DEF Remembered
<1>10. ASSUME NEW i \in DOMAIN r, NEW j \in DOMAIN r, i < j
       PROVE  r[i].chunk.id < r[j].chunk.id
  <2>1. i \in DOMAIN acc /\ r[i] = acc[i] BY <1>3, <1>8, <1>10
  <2> QED BY <1>6, <1>8, <1>10, <2>1 DEF Remembered
<1>11. \A i \in DOMAIN r : \A j \in DOMAIN rest :
           IsFrame(rest[j]) => r[i].chunk.id <= rest[j].chunk.id
  BY <1>7, <1>8
<1>12. m.seq = r[Len(r)].seq BY <1>3
<1>13. Remembered(r, m.seq, rest, made) BY <1>9, <1>10, <1>11, <1>12 DEF Remembered
<1> QED BY <1>13 DEF m, r, rest

-----------------------------------------------------------------------------
(* Every step.                                                             *)

\* A new frame bears the next number.
LEMMA OffersNamed ==
  ASSUME NEW made \in Nat, NEW frame \in Offers(made % SeqSpace, made + 1)
  PROVE  frame.chunk.id = made + 1 /\ Named(frame, made + 1)
<1>1. frame.chunk.id = made + 1 /\ frame.seq = made % SeqSpace
  BY DEF Offers, ClientFrame, Chunk
<1>2. (made + 1) - 1 = made /\ made + 1 \in 1..(made + 1) OBVIOUS
<1> QED BY <1>1, <1>2 DEF Named, SeqOf

LEMMA WriteOnce ==
  ASSUME TypeInv, OnceInv, NEW frame \in Frames, NEW made \in Nat, peer.made <= made,
         Named(frame, made), frame.chunk.id = made, Write(frame), UNCHANGED serverVars
  PROVE  /\ Ordered(toServer', made)
         /\ Remembered(accepted', srv'.lastRx, toServer', made)
<1>1. PICK fault \in {"none", "CHECKSUM", "LENGTH"} :
          toServer' = Append(toServer, [frame EXCEPT !.fault = fault])
  BY DEF Write
<1> DEFINE m == [frame EXCEPT !.fault = fault]
<1>2. m \in Answers \union Frames /\ m.chunk = frame.chunk /\ m.seq = frame.seq
  BY DEF Frames
<1>3. toServer \in Seq(Answers \union Frames) /\ peer.made \in Nat BY DEF TypeInv
<1>4. Ordered(toServer, peer.made) /\ Remembered(accepted, srv.lastRx, toServer, peer.made)
  BY DEF OnceInv
<1>5. accepted' = accepted /\ srv' = srv BY DEF serverVars
<1>6. toServer' = Append(toServer, m) BY <1>1
<1> HIDE DEF m
<1>7. Named(m, made) /\ m.chunk.id = made BY <1>2 DEF Named
<1>8. Ordered(toServer', made) BY <1>2, <1>3, <1>4, <1>6, <1>7, OrderedFrame
<1>9. Remembered(accepted, srv.lastRx, toServer', made)
  BY <1>2, <1>3, <1>4, <1>6, <1>7, RememberedAppend
<1> QED BY <1>5, <1>8, <1>9

LEMMA PeerOnce ==
  ASSUME TypeInv, OnceInv, PeerNext
  PROVE  OnceInv'
<1>1. /\ toServer \in Seq(Answers \union Frames) /\ peer.made \in Nat
      /\ peer \in [frame : Frames, made : Nat, resends : Nat]
  BY DEF TypeInv
<1>2. UNCHANGED serverVars BY PeerStep
<1>3. accepted' = accepted /\ srv' = srv BY <1>2 DEF serverVars
<1>4. CASE PeerSends
  <2>1. PICK frame \in Offers(peer.made % SeqSpace, peer.made + 1) :
            /\ peer' = [frame |-> frame, made |-> peer.made + 1, resends |-> peer.resends]
            /\ Write(frame)
    BY <1>4 DEF PeerSends
  <2>2. frame \in Frames /\ frame.chunk.id = peer.made + 1 /\ Named(frame, peer.made + 1)
    BY <1>1, OffersType, OffersNamed
  <2>3. peer'.made = peer.made + 1 /\ peer'.frame = frame BY <2>1
  <2>4. /\ Ordered(toServer', peer.made + 1)
        /\ Remembered(accepted', srv'.lastRx, toServer', peer.made + 1)
    BY <1>1, <1>2, <2>1, <2>2, WriteOnce
  <2> QED BY <2>2, <2>3, <2>4 DEF OnceInv, Newest
<1>5. ASSUME MayResend, Write(peer.frame), peer' = [peer EXCEPT !.resends = @ + 1]
      PROVE  OnceInv'
  <2>1. peer'.made = peer.made /\ peer'.frame = peer.frame BY <1>1, <1>5
  <2>2. peer.frame.chunk.id = peer.made /\ Named(peer.frame, peer.made)
    BY <1>5 DEF OnceInv, Newest, MayResend
  <2>3. /\ Ordered(toServer', peer.made)
        /\ Remembered(accepted', srv'.lastRx, toServer', peer.made)
    BY <1>1, <1>2, <1>5, <2>2, WriteOnce
  <2> QED BY <2>1, <2>2, <2>3 DEF OnceInv, Newest
<1>6. CASE PeerResends BY <1>5, <1>6 DEF PeerResends
<1>7. CASE PeerNaked BY <1>5, <1>7 DEF PeerNaked
<1>8. CASE PeerMovesOn
  <2>1. toServer' = toServer /\ peer' = [peer EXCEPT !.frame = NoFrame]
    BY <1>8 DEF PeerMovesOn
  <2>2. peer'.made = peer.made /\ peer'.frame = NoFrame BY <1>1, <2>1
  <2> QED BY <1>3, <2>1, <2>2 DEF OnceInv, Newest
<1>9. CASE PeerIgnores BY <1>3, <1>9 DEF PeerIgnores, OnceInv, Newest
<1>10. CASE PeerAnswers
  <2>1. PICK m \in {AckLine(FromHost.seq), NakLine(FromHost.seq, "CHECKSUM")} :
            toServer' = Append(toServer, m)
    BY <1>10 DEF PeerAnswers
  <2>2. ~IsFrame(m) BY DEF IsFrame, AckLine, NakLine
  <2>3. Ordered(toServer, peer.made) /\ Remembered(accepted, srv.lastRx, toServer, peer.made)
    BY DEF OnceInv
  <2>4. toServer \in Seq(Answers \union Frames \union {m}) /\ m \in Answers \union Frames \union {m}
    BY <1>1
  <2>5. Ordered(toServer', peer.made) BY <1>1, <2>1, <2>2, <2>3, <2>4, OrderedAnswer
  <2>6. Remembered(accepted, srv.lastRx, toServer', peer.made)
    BY <1>1, <2>1, <2>2, <2>3, <2>4, RememberedAppend
  <2>7. peer' = peer BY <1>10 DEF PeerAnswers
  <2> QED BY <1>3, <2>5, <2>6, <2>7 DEF OnceInv, Newest
<1> QED BY <1>4, <1>6, <1>7, <1>8, <1>9, <1>10 DEF PeerNext

LEMMA ServerOnce ==
  ASSUME TypeInv, OnceInv, ServerNext, UNCHANGED peer
  PROVE  OnceInv'
<1>1. /\ toServer \in Seq(Answers \union Frames) /\ accepted \in Seq(Frames)
      /\ peer.made \in Nat
  BY DEF TypeInv
<1>2. /\ Ordered(toServer, peer.made)
      /\ Remembered(accepted, srv.lastRx, toServer, peer.made)
  BY DEF OnceInv
<1>3. Passes \/ Takes BY ServerStep
<1>4. CASE Passes
  <2>1. accepted' = accepted /\ srv'.lastRx = srv.lastRx BY <1>4 DEF Passes
  <2>2. CASE toServer' = toServer BY <1>2, <2>1, <2>2 DEF OnceInv
  <2>3. CASE toServer # <<>> /\ toServer' = Tail(toServer)
    <3>1. Ordered(toServer', peer.made) BY <1>1, <1>2, <2>3, OrderedTail
    <3>2. Remembered(accepted, srv.lastRx, toServer', peer.made)
      BY <1>1, <1>2, <2>3, RememberedTail
    <3> QED BY <2>1, <3>1, <3>2 DEF OnceInv
  <2> QED BY <1>4, <2>2, <2>3 DEF Passes
<1>5. CASE Takes
  <2>1. /\ toServer # <<>> /\ toServer' = Tail(toServer)
        /\ accepted' = Append(accepted, Head(toServer))
        /\ srv'.lastRx = Head(toServer).seq
    BY <1>5 DEF Takes, Line
  <2>2. IsFrame(Head(toServer)) /\ Head(toServer).seq # srv.lastRx
    BY <1>5 DEF Takes, Fresh, Sound, Line
  <2>3. Head(toServer) \in Frames
    <3>1. Head(toServer) \in Answers \union Frames BY <1>1, <2>1, HeadTailProperties
    <3> QED BY <2>2, <3>1 DEF IsFrame, Answers
  <2>4. Ordered(toServer', peer.made) BY <1>1, <1>2, <2>1, OrderedTail
  <2>5. Remembered(Append(accepted, Head(toServer)), Head(toServer).seq, Tail(toServer), peer.made)
    BY <1>1, <1>2, <2>1, <2>2, <2>3, RememberedTake
  <2> QED BY <2>1, <2>4, <2>5 DEF OnceInv
<1> QED BY <1>3, <1>4, <1>5

LEMMA InitOnce == Init => OnceInv
BY EmptySeq DEF Init, ServerInit, OnceInv, Ordered, Remembered, Newest

LEMMA NextOnce == TypeInv /\ OnceInv /\ [Next]_vars => OnceInv'
<1> SUFFICES ASSUME TypeInv, OnceInv, [Next]_vars PROVE OnceInv'
  OBVIOUS
<1>1. CASE PeerNext BY <1>1, PeerOnce
<1>2. CASE ServerNext /\ UNCHANGED peer BY <1>2, ServerOnce
<1>3. CASE UNCHANGED vars BY <1>3 DEF vars, serverVars, OnceInv
<1> QED BY <1>1, <1>2, <1>3 DEF Next

\* No frame of the peer is applied twice, however often it is resent, however
\* late its ACKs are and however the sequence numbers wrap (native_mode's
\* last_rx, "applies it only once").
THEOREM NeverTwice == Spec => []AppliesOnce
<1>1. TypeInv /\ OnceInv => AppliesOnce
  <2> SUFFICES ASSUME TypeInv, OnceInv, NEW i \in DOMAIN accepted, NEW j \in DOMAIN accepted,
                      accepted[i].chunk.id = accepted[j].chunk.id
               PROVE  i = j
    BY DEF AppliesOnce
  <2>1. i \in Nat /\ j \in Nat /\ accepted[i].chunk.id \in Nat
    <3>1. accepted \in Seq(Frames) BY DEF TypeInv
    <3>2. accepted[i] \in Frames /\ i \in Nat /\ j \in Nat BY <3>1
    <3> QED BY <3>2, FrameFields
  <2>2. ~(i < j) /\ ~(j < i) BY <2>1 DEF OnceInv, Remembered
  <2> QED BY <2>1, <2>2
<1> QED BY <1>1, InitType, NextType, InitOnce, NextOnce, PTL DEF Spec

-----------------------------------------------------------------------------
(* What the host says, and in which order.                                 *)

\* The frame that carries a thing to say.
Carries(f, say) == f.op = say.op /\ f.turn = say.turn /\ f.part = say.part

\* What may be the last thing said while backend.chat runs.
Working(f, turn) == f.op \in {"THINKING", "PROGRESS"} /\ f.turn = turn

Chained(q) == \A i \in 1..(Len(q) - 1) : Follows(q[i], q[i + 1])

\* What is left to send leads to where the handler goes on.
Script(todo, after, turn) ==
    /\ Chained(todo)
    /\ after = "idle" => Closes(todo[Len(todo)])
    /\ after = "agent" => Working(todo[Len(todo)], turn)

\* A frame was given to send_frame when it was first written; from then on it is
\* the last one, until its ACK.
Orderly(s, q, turn) ==
    /\ q \in Seq(HostFrames) /\ Chained(q)
    /\ s.pc = "idle" /\ q # <<>> => Closes(q[Len(q)])
    /\ s.pc = "agent" => q # <<>> /\ Working(q[Len(q)], turn)
    /\ s.pc \in {"send", "await"} => Script(s.todo, s.after, turn)
    /\ s.pc = "send" /\ s.tries = 0 /\ q # <<>> => Follows(q[Len(q)], s.todo[1])
    /\ s.pc = "await" \/ (s.pc = "send" /\ s.tries # 0) =>
           q # <<>> /\ Carries(q[Len(q)], s.todo[1])
    /\ s.pc = "await" => s.tries # 0

TurnInv == Orderly(srv, sent, Len(ran))

LEMMA ClosedThen ==
  ASSUME NEW a, Closes(a), NEW b, b.op \in {"THINKING", "READY", "ERROR"}
  PROVE  Follows(a, b)
BY DEF Closes, Follows

LEMMA WorkingThen ==
  ASSUME NEW turn, NEW a, Working(a, turn),
         NEW b, b.op \in {"PROGRESS", "TEXT", "ERROR"}, b.part <= 1, b.turn = turn
  PROVE  Follows(a, b)
BY DEF Working, Follows

\* A frame that carries a thing to say is followed by what that is followed by.
LEMMA CarriedThen ==
  ASSUME NEW f, NEW say, Carries(f, say), NEW b
  PROVE  /\ Follows(say, b) => Follows(f, b)
         /\ Follows(b, say) => Follows(b, f)
         /\ Closes(say) => Closes(f)
         /\ \A turn : Working(say, turn) => Working(f, turn)
BY DEF Carries, Follows, Closes, Working

\* One more frame behind the last.
LEMMA ChainedAppend ==
  ASSUME NEW S, NEW q \in Seq(S), Chained(q), NEW f \in S,
         q # <<>> => Follows(q[Len(q)], f)
  PROVE  /\ Append(q, f) \in Seq(S) /\ Chained(Append(q, f))
         /\ Append(q, f) # <<>> /\ Append(q, f)[Len(Append(q, f))] = f
<1> DEFINE r == Append(q, f)
<1>1. /\ r \in Seq(S) /\ Len(r) = Len(q) + 1 /\ Len(q) \in Nat /\ r # <<>>
      /\ \A i \in 1..Len(q) : r[i] = q[i]
      /\ r[Len(q) + 1] = f
  BY AppendFacts, AppendProperties
<1>2. q = <<>> <=> Len(q) = 0 BY EmptySeq
<1> HIDE DEF r
<1>3. ASSUME NEW i \in 1..(Len(r) - 1) PROVE Follows(r[i], r[i + 1])
  <2>1. CASE i < Len(q)
    <3>1. r[i] = q[i] /\ r[i + 1] = q[i + 1] /\ i \in 1..(Len(q) - 1) BY <1>1, <2>1
    <3> QED BY <3>1 DEF Chained
  <2>2. CASE i = Len(q) BY <1>1, <1>2, <2>2
  <2> QED BY <1>1, <2>1, <2>2
<1>4. Chained(r) BY <1>3 DEF Chained
<1> QED BY <1>1, <1>4 DEF r

LEMMA ChainedTail ==
  ASSUME NEW S, NEW q \in Seq(S), q # <<>>, Chained(q), Tail(q) # <<>>
  PROVE  /\ Chained(Tail(q)) /\ Follows(q[1], Tail(q)[1])
         /\ Tail(q)[Len(Tail(q))] = q[Len(q)]
<1> DEFINE r == Tail(q)
<1>1. Len(q) \in Nat /\ Len(q) # 0 /\ Len(r) = Len(q) - 1 /\ r \in Seq(S)
  BY LenProperties, EmptySeq, HeadTailProperties
<1>2. \A i \in 1..Len(r) : r[i] = q[i + 1] BY HeadTailProperties
<1>3. Len(r) # 0 BY <1>1, EmptySeq
<1> HIDE DEF r
<1>4. ASSUME NEW i \in 1..(Len(r) - 1) PROVE Follows(r[i], r[i + 1])
  <2>1. r[i] = q[i + 1] /\ r[i + 1] = q[i + 2] /\ i + 1 \in 1..(Len(q) - 1)
    BY <1>1, <1>2
  <2>2. Follows(q[i + 1], q[(i + 1) + 1]) BY <2>1 DEF Chained
  <2> QED BY <2>1, <2>2
<1>5. Chained(r) BY <1>4 DEF Chained
<1>6. Follows(q[1], q[1 + 1]) BY <1>1, <1>3 DEF Chained
<1>7. r[1] = q[2] /\ r[Len(r)] = q[Len(q)] BY <1>1, <1>2, <1>3
<1> QED BY <1>5, <1>6, <1>7 DEF r

-----------------------------------------------------------------------------
(* The answers native_mode queues are scripts.                             *)

\* A reply is its lines, numbered from 1, and the PROMPT.
LEMMA ReplyScript ==
  ASSUME NEW turn \in Nat, NEW n \in 1..MaxReply
  PROVE  LET reply == Texts(turn, n) \o Prompt(turn)
         IN  /\ reply \in Seq(Says) /\ Len(reply) = n + 1
             /\ \A i \in 1..n : reply[i] = Say("TEXT", turn, i)
             /\ reply[n + 1] = Say("PROMPT", turn, 0)
             /\ Script(reply, "idle", turn)
<1> DEFINE t == Texts(turn, n)
           p == Prompt(turn)
           reply == t \o p
<1>1. n \in Nat /\ n >= 1 BY Constants
<1>2. t \in Seq(Says) /\ Len(t) = n /\ \A i \in 1..n : t[i] = Say("TEXT", turn, i)
  BY <1>1, TextsType DEF Texts
<1>3. p \in Seq(Says) /\ Len(p) = 1 /\ p[1] = Say("PROMPT", turn, 0)
  BY SayType, OneSay DEF Prompt
<1> HIDE DEF t, p
<1>4. /\ reply \in Seq(Says) /\ Len(reply) = n + 1
      /\ \A i \in 1..(n + 1) : reply[i] = IF i <= n THEN t[i] ELSE p[i - n]
  <2>1. /\ t \o p \in Seq(Says) /\ Len(t \o p) = Len(t) + Len(p)
        /\ \A i \in 1..(Len(t) + Len(p)) :
               (t \o p)[i] = IF i <= Len(t) THEN t[i] ELSE p[i - Len(t)]
    BY <1>2, <1>3, ConcatProperties
  <2> QED BY <1>2, <1>3, <2>1
<1> HIDE DEF reply
<1>5. \A i \in 1..n : reply[i] = Say("TEXT", turn, i) BY <1>1, <1>2, <1>4
<1>6. reply[n + 1] = Say("PROMPT", turn, 0)
  <2>1. (n + 1) - n = 1 /\ ~(n + 1 <= n) /\ n + 1 \in 1..(n + 1) BY <1>1
  <2> QED BY <1>3, <1>4, <2>1
<1>7. ASSUME NEW i \in 1..(Len(reply) - 1) PROVE Follows(reply[i], reply[i + 1])
  <2>1. i \in 1..n /\ i \in Nat /\ (i + 1 \in 1..n \/ i + 1 = n + 1) BY <1>1, <1>4
  <2>2. reply[i] = Say("TEXT", turn, i) BY <1>5, <2>1
  <2>3. reply[i + 1] \in {Say("TEXT", turn, i + 1), Say("PROMPT", turn, 0)}
    BY <1>5, <1>6, <2>1
  <2> HIDE DEF reply
  <2> QED BY <2>2, <2>3 DEF Follows, Closes, Say
<1>8. Chained(reply) BY <1>7 DEF Chained
<1>9. Closes(reply[Len(reply)]) BY <1>4, <1>6 DEF Closes, Say
<1>10. Script(reply, "idle", turn) BY <1>8, <1>9 DEF Script
<1> QED BY <1>4, <1>5, <1>6, <1>10 DEF reply, t, p

\* A command's reply is that, behind a READY.
LEMMA CommandScript ==
  ASSUME NEW turn \in Nat \ {0}, NEW n \in 1..MaxReply
  PROVE  LET reply == <<Say("READY", turn, 0)>> \o Texts(turn, n) \o Prompt(turn)
         IN  reply[1] = Say("READY", turn, 0) /\ Script(reply, "idle", turn)
<1> DEFINE a == <<Say("READY", turn, 0)>>
           t == Texts(turn, n)
           p == Prompt(turn)
           at == a \o t
           reply == at \o p
<1>1. n \in Nat /\ n >= 1 BY Constants
<1>2. a \in Seq(Says) /\ Len(a) = 1 /\ a[1] = Say("READY", turn, 0) BY SayType, OneSay
<1>3. t \in Seq(Says) /\ Len(t) = n /\ \A i \in 1..n : t[i] = Say("TEXT", turn, i)
  BY <1>1, TextsType DEF Texts
<1>4. p \in Seq(Says) /\ Len(p) = 1 /\ p[1] = Say("PROMPT", turn, 0)
  BY SayType, OneSay DEF Prompt
<1> HIDE DEF a, t, p
<1>5. /\ at \in Seq(Says) /\ Len(at) = n + 1
      /\ \A i \in 1..(n + 1) : at[i] = IF i <= 1 THEN a[i] ELSE t[i - 1]
  <2>1. /\ a \o t \in Seq(Says) /\ Len(a \o t) = Len(a) + Len(t)
        /\ \A i \in 1..(Len(a) + Len(t)) :
               (a \o t)[i] = IF i <= Len(a) THEN a[i] ELSE t[i - Len(a)]
    BY <1>2, <1>3, ConcatProperties
  <2>2. Len(a) + Len(t) = n + 1 BY <1>1, <1>2, <1>3
  <2> QED BY <1>2, <1>3, <2>1, <2>2
<1> HIDE DEF at
<1>6. /\ reply \in Seq(Says) /\ Len(reply) = n + 2
      /\ \A i \in 1..(n + 2) : reply[i] = IF i <= n + 1 THEN at[i] ELSE p[i - (n + 1)]
  <2>1. /\ at \o p \in Seq(Says) /\ Len(at \o p) = Len(at) + Len(p)
        /\ \A i \in 1..(Len(at) + Len(p)) :
               (at \o p)[i] = IF i <= Len(at) THEN at[i] ELSE p[i - Len(at)]
    BY <1>4, <1>5, ConcatProperties
  <2>2. Len(at) + Len(p) = n + 2 BY <1>1, <1>4, <1>5
  <2> QED BY <1>4, <1>5, <2>1, <2>2 DEF reply
<1> HIDE DEF reply
<1>7. reply[1] = Say("READY", turn, 0) BY <1>1, <1>2, <1>5, <1>6
<1>8. \A i \in 1..n : reply[i + 1] = Say("TEXT", turn, i)
  <2> SUFFICES ASSUME NEW i \in 1..n PROVE reply[i + 1] = Say("TEXT", turn, i)
    OBVIOUS
  <2>1. i + 1 \in 1..(n + 1) /\ i + 1 \in 1..(n + 2) /\ i + 1 <= n + 1
        /\ ~(i + 1 <= 1) /\ (i + 1) - 1 = i
    BY <1>1
  <2> QED BY <1>3, <1>5, <1>6, <2>1
<1>9. reply[n + 2] = Say("PROMPT", turn, 0)
  <2>1. (n + 2) - (n + 1) = 1 /\ ~(n + 2 <= n + 1) /\ n + 2 \in 1..(n + 2) BY <1>1
  <2> QED BY <1>4, <1>6, <2>1
<1>10. ASSUME NEW i \in 1..(Len(reply) - 1) PROVE Follows(reply[i], reply[i + 1])
  <2>1. CASE i = 1
    <3>1. reply[1 + 1] = Say("TEXT", turn, 1) BY <1>1, <1>8
    <3> QED BY <1>7, <2>1, <3>1 DEF Follows, Closes, Say
  <2>2. CASE i # 1
    <3>1. PICK j \in 1..n : i = j + 1
      <4>1. i - 1 \in 1..n /\ i = (i - 1) + 1 BY <1>1, <1>6, <2>2
      <4> QED BY <4>1
    <3>2. reply[i] = Say("TEXT", turn, j) BY <1>8, <3>1
    <3>3. CASE j < n
      <4>1. j + 1 \in 1..n BY <3>3, <1>1
      <4>2. reply[i + 1] = Say("TEXT", turn, j + 1) BY <1>8, <3>1, <4>1
      <4> QED BY <3>2, <4>2 DEF Follows, Closes, Say
    <3>4. CASE j = n
      <4>1. reply[i + 1] = Say("PROMPT", turn, 0)
        <5>1. i + 1 = n + 2 BY <1>1, <3>1, <3>4
        <5> QED BY <1>9, <5>1
      <4> QED BY <3>2, <4>1 DEF Follows, Closes, Say
    <3> QED BY <1>1, <3>3, <3>4
  <2> QED BY <2>1, <2>2
<1>11. Chained(reply) BY <1>10 DEF Chained
<1>12. Closes(reply[Len(reply)]) BY <1>6, <1>9 DEF Closes, Say
<1>13. Script(reply, "idle", turn) BY <1>11, <1>12 DEF Script
<1>14. reply = <<Say("READY", turn, 0)>> \o Texts(turn, n) \o Prompt(turn)
  BY DEF reply, at, a, t, p
<1> QED BY <1>7, <1>13, <1>14

\* The answers of one or two frames.
LEMMA ShortScripts ==
  ASSUME NEW turn \in Nat
  PROVE  /\ ErrorReply(turn)[1] = Say("ERROR", turn, 0)
         /\ Script(ErrorReply(turn), "idle", turn)
         /\ Script(<<Say("READY", 0, 0)>>, "idle", turn)
         /\ Script(<<Say("THINKING", turn, 0)>>, "agent", turn)
         /\ Script(<<Say("PROGRESS", turn, 0)>>, "agent", turn)
<1>1. ASSUME NEW say PROVE Len(<<say>>) = 1 /\ <<say>>[1] = say /\ Chained(<<say>>)
  BY DEF Chained
<1>2. /\ Len(ErrorReply(turn)) = 2
      /\ ErrorReply(turn)[1] = Say("ERROR", turn, 0)
      /\ ErrorReply(turn)[2] = Say("PROMPT", turn, 0)
  <2> DEFINE a == <<Say("ERROR", turn, 0)>>
             p == Prompt(turn)
  <2>1. a \in Seq(Says) /\ Len(a) = 1 /\ a[1] = Say("ERROR", turn, 0) BY SayType, OneSay
  <2>2. p \in Seq(Says) /\ Len(p) = 1 /\ p[1] = Say("PROMPT", turn, 0)
    BY SayType, OneSay DEF Prompt
  <2>3. ErrorReply(turn) = a \o p BY DEF ErrorReply
  <2> HIDE DEF a, p
  <2>4. /\ a \o p \in Seq(Says) /\ Len(a \o p) = Len(a) + Len(p)
        /\ \A i \in 1..(Len(a) + Len(p)) :
               (a \o p)[i] = IF i <= Len(a) THEN a[i] ELSE p[i - Len(a)]
    BY <2>1, <2>2, ConcatProperties
  <2> QED BY <2>1, <2>2, <2>3, <2>4
<1>3. Follows(Say("ERROR", turn, 0), Say("PROMPT", turn, 0)) BY DEF Follows, Closes, Say
<1>4. /\ Chained(ErrorReply(turn)) /\ Len(ErrorReply(turn)) = 2
      /\ ErrorReply(turn)[1] = Say("ERROR", turn, 0)
      /\ ErrorReply(turn)[2] = Say("PROMPT", turn, 0)
  BY <1>2, <1>3 DEF Chained
<1>5. Closes(Say("PROMPT", turn, 0)) /\ Closes(Say("READY", 0, 0)) BY DEF Closes, Say
<1>6. Working(Say("THINKING", turn, 0), turn) /\ Working(Say("PROGRESS", turn, 0), turn)
  BY DEF Working, Say
<1>7. Script(ErrorReply(turn), "idle", turn) BY <1>4, <1>5 DEF Script
<1>8. Script(<<Say("READY", 0, 0)>>, "idle", turn) BY <1>1, <1>5 DEF Script
<1>9. Script(<<Say("THINKING", turn, 0)>>, "agent", turn) BY <1>1, <1>6 DEF Script
<1>10. Script(<<Say("PROGRESS", turn, 0)>>, "agent", turn) BY <1>1, <1>6 DEF Script
<1> QED BY <1>4, <1>7, <1>8, <1>9, <1>10

-----------------------------------------------------------------------------
(* Every turn is closed.                                                   *)

LEMMA QueueFields ==
  ASSUME NEW s \in Handlers, NEW todo \in Seq(Says), NEW after \in {"idle", "agent"}
  PROVE  LET q == Queue(s, todo, after)
         IN  /\ q.pc = "send" /\ q.todo = todo /\ q.after = after /\ q.tries = 0
             /\ q.parts = s.parts /\ q.total = s.total /\ q.hello = s.hello
<1> DEFINE s1 == [s EXCEPT !.pc = "send"]
           s2 == [s1 EXCEPT !.todo = todo]
           s3 == [s2 EXCEPT !.after = after]
           q == [s3 EXCEPT !.tries = 0]
<1>0. 0 \in 0..(FrameRetries + 1) BY Constants
<1>1. s1 \in Handlers /\ s1.pc = "send" /\ s1.parts = s.parts /\ s1.total = s.total
      /\ s1.hello = s.hello
  BY DEF Handlers
<1> HIDE DEF s1
<1>2. s2 \in Handlers /\ s2.pc = s1.pc /\ s2.parts = s1.parts /\ s2.total = s1.total
      /\ s2.hello = s1.hello /\ s2.todo = todo
  BY <1>1 DEF Handlers
<1> HIDE DEF s2
<1>3. s3 \in Handlers /\ s3.pc = s2.pc /\ s3.parts = s2.parts /\ s3.total = s2.total
      /\ s3.hello = s2.hello /\ s3.todo = s2.todo /\ s3.after = after
  BY <1>2 DEF Handlers
<1> HIDE DEF s3
<1>4. q.pc = s3.pc /\ q.parts = s3.parts /\ q.total = s3.total /\ q.tries = 0
      /\ q.hello = s3.hello /\ q.todo = s3.todo /\ q.after = s3.after
  BY <1>0, <1>3 DEF Handlers
<1>5. q = Queue(s, todo, after) BY DEF q, s3, s2, s1, Queue
<1> HIDE DEF q
<1> QED BY <1>1, <1>2, <1>3, <1>4, <1>5

\* Queueing a script that the last frame may be followed by.
LEMMA QueueOrderly ==
  ASSUME NEW s \in Handlers, NEW todo \in Seq(Says), NEW after \in {"idle", "agent"},
         NEW q \in Seq(HostFrames), Chained(q), NEW turn, Script(todo, after, turn),
         q # <<>> => Follows(q[Len(q)], todo[1])
  PROVE  Orderly(Queue(s, todo, after), q, turn)
BY QueueFields DEF Orderly

\* The first writing of a frame makes it the last one sent; a resend changes nothing.
LEMMA TransmitOrderly ==
  ASSUME TypeInv, TurnInv, Transmit PROVE TurnInv'
<1>1. srv.pc = "send" /\ srv \in Handlers /\ srv.todo \in Seq(Says) /\ srv.todo # <<>>
  BY DEF Transmit, TypeInv, Sane, Handlers
<1>2. Head(srv.todo) = srv.todo[1] /\ Head(srv.todo) \in Says
  BY <1>1, HeadTailProperties
<1> DEFINE say == srv.todo[1]
           frame == HostFrame(srv.txSeq, say)
<1>3. frame \in HostFrames /\ Carries(frame, say)
  BY <1>1, <1>2, Constants DEF HostFrame, HostFrames, Says, Handlers, Carries
<1>4. /\ srv'.pc = "await" /\ srv'.todo = srv.todo /\ srv'.after = srv.after
      /\ srv'.tries = srv.tries + 1 /\ srv.tries \in Nat
  <2> DEFINE s == [srv EXCEPT !.pc = "await"]
  <2>1. s.pc = "await" /\ s.todo = srv.todo /\ s.after = srv.after /\ s.tries = srv.tries
        /\ s \in Handlers
    BY <1>1 DEF Handlers
  <2>2. srv' = [s EXCEPT !.tries = srv.tries + 1] BY DEF Transmit
  <2> HIDE DEF s
  <2> QED BY <1>1, <2>1, <2>2, Constants DEF Handlers
<1>5. sent' = IF srv.tries = 0 THEN Append(sent, frame) ELSE sent
  BY <1>2 DEF Transmit
<1>6. ran' = ran BY DEF Transmit
<1>7. sent \in Seq(HostFrames) /\ Chained(sent) /\ Script(srv.todo, srv.after, Len(ran))
  BY <1>1 DEF TurnInv, Orderly
<1> HIDE DEF frame, say
<1>8. /\ sent' \in Seq(HostFrames) /\ Chained(sent') /\ sent' # <<>>
      /\ Carries(sent'[Len(sent')], say)
  <2>1. CASE srv.tries = 0
    <3>1. sent # <<>> => Follows(sent[Len(sent)], frame)
      BY <1>1, <1>3, <2>1, CarriedThen DEF TurnInv, Orderly, say
    <3> QED BY <1>3, <1>5, <1>7, <2>1, <3>1, ChainedAppend
  <2>2. CASE srv.tries # 0
    BY <1>1, <1>5, <1>7, <2>2 DEF TurnInv, Orderly, say
  <2> QED BY <2>1, <2>2
<1> QED BY <1>4, <1>6, <1>7, <1>8 DEF TurnInv, Orderly, say

\* The ACK moves the script on by one.
LEMMA AckedFields ==
  ASSUME NEW s \in Handlers, s.todo # <<>>
  PROVE  LET a == Acked(s)
         IN  /\ a.pc = IF Tail(s.todo) = <<>> THEN s.after ELSE "send"
             /\ a.todo = Tail(s.todo) /\ a.after = s.after /\ a.tries = 0
             /\ a.parts = s.parts /\ a.total = s.total /\ a.hello = s.hello
<1> DEFINE pc == IF Tail(s.todo) = <<>> THEN s.after ELSE "send"
           s1 == [s EXCEPT !.pc = pc]
           s2 == [s1 EXCEPT !.todo = Tail(s.todo)]
           s3 == [s2 EXCEPT !.txSeq = After(s.txSeq)]
           a == [s3 EXCEPT !.tries = 0]
<1>0. 0 \in 0..(FrameRetries + 1) BY Constants
<1>1. After(s.txSeq) \in 0..(SeqSpace - 1) BY AfterType DEF Handlers
<1>2. s.todo \in Seq(Says) /\ Tail(s.todo) \in Seq(Says) BY HeadTailProperties DEF Handlers
<1>3. pc \in {"idle", "agent", "send"} BY DEF Handlers
<1> HIDE DEF pc
<1>4. s1 \in Handlers /\ s1.pc = pc /\ s1.parts = s.parts /\ s1.total = s.total
      /\ s1.hello = s.hello /\ s1.after = s.after
  BY <1>3 DEF Handlers
<1> HIDE DEF s1
<1>5. s2 \in Handlers /\ s2.pc = s1.pc /\ s2.parts = s1.parts /\ s2.total = s1.total
      /\ s2.hello = s1.hello /\ s2.after = s1.after /\ s2.todo = Tail(s.todo)
  BY <1>2, <1>4 DEF Handlers
<1> HIDE DEF s2
<1>6. s3 \in Handlers /\ s3.pc = s2.pc /\ s3.parts = s2.parts /\ s3.total = s2.total
      /\ s3.hello = s2.hello /\ s3.after = s2.after /\ s3.todo = s2.todo
  BY <1>1, <1>5 DEF Handlers
<1> HIDE DEF s3
<1>7. a.pc = s3.pc /\ a.parts = s3.parts /\ a.total = s3.total /\ a.tries = 0
      /\ a.hello = s3.hello /\ a.after = s3.after /\ a.todo = s3.todo
  BY <1>0, <1>6 DEF Handlers
<1>8. a = Acked(s) BY DEF a, s3, s2, s1, pc, Acked
<1> HIDE DEF a
<1> QED BY <1>4, <1>5, <1>6, <1>7, <1>8 DEF pc

LEMMA AckedOrderly ==
  ASSUME NEW s, Sane(s), s.pc = "await", NEW q, NEW turn, Orderly(s, q, turn)
  PROVE  Orderly(Acked(s), q, turn)
<1>1. s \in Handlers /\ s.todo \in Seq(Says) /\ s.todo # <<>> /\ s.after \in {"idle", "agent"}
  BY DEF Sane, Handlers
<1> DEFINE a == Acked(s)
           rest == Tail(s.todo)
<1>2. /\ a.pc = IF rest = <<>> THEN s.after ELSE "send"
      /\ a.todo = rest /\ a.after = s.after /\ a.tries = 0
  BY <1>1, AckedFields
<1>3. /\ q \in Seq(HostFrames) /\ Chained(q) /\ q # <<>> /\ Carries(q[Len(q)], s.todo[1])
      /\ Chained(s.todo) /\ Script(s.todo, s.after, turn)
  BY DEF Orderly, Script
<1>4. CASE rest = <<>>
  <2>1. s.todo[Len(s.todo)] = s.todo[1]
    <3>1. Len(rest) = Len(s.todo) - 1 /\ Len(rest) = 0 /\ Len(s.todo) \in Nat
      BY <1>1, <1>4, HeadTailProperties, EmptySeq, LenProperties
    <3>2. Len(s.todo) = 1 BY <3>1
    <3> QED BY <3>2
  <2>2. s.after = "idle" => Closes(q[Len(q)]) BY <1>3, <2>1, CarriedThen DEF Script
  <2>3. s.after = "agent" => Working(q[Len(q)], turn) BY <1>3, <2>1, CarriedThen DEF Script
  <2> HIDE DEF a, rest
  <2>4. Orderly(a, q, turn) BY <1>1, <1>2, <1>3, <1>4, <2>2, <2>3 DEF Orderly
  <2> QED BY <2>4 DEF a
<1>5. CASE rest # <<>>
  <2>1. /\ Chained(rest) /\ Follows(s.todo[1], rest[1])
        /\ rest[Len(rest)] = s.todo[Len(s.todo)]
    BY <1>1, <1>3, <1>5, ChainedTail
  <2>2. Script(rest, s.after, turn) BY <1>3, <2>1 DEF Script
  <2> HIDE DEF a, rest
  <2>3. Follows(q[Len(q)], rest[1]) BY <1>3, <2>1 DEF Carries, Follows, Closes
  <2>4. Orderly(a, q, turn) BY <1>2, <1>3, <1>5, <2>2, <2>3 DEF Orderly
  <2> QED BY <2>4 DEF a
<1> QED BY <1>4, <1>5

\* Another attempt keeps the frame; a progress note given up ends its own turn.
LEMMA GivenUpOrderly ==
  ASSUME NEW s, Sane(s), s.pc = "await", NEW q, NEW turn, Orderly(s, q, turn)
  PROVE  Orderly(GivenUp(s), q, turn)
<1>1. s \in Handlers /\ s.todo \in Seq(Says) /\ s.todo # <<>>
  BY DEF Sane, Handlers
<1>2. Head(s.todo) = s.todo[1] /\ Head(s.todo) \in Says BY <1>1, HeadTailProperties
<1>4. CASE Head(s.todo).op = "PROGRESS"
  <2> DEFINE t == Head(s.todo).turn
  <2>1. t \in Nat BY <1>2 DEF Says
  <2>2. GivenUp(s) = Queue(s, ErrorReply(t), "idle") BY <1>4 DEF GivenUp
  <2>3. ErrorReply(t) \in Seq(Says) /\ ErrorReply(t)[1] = Say("ERROR", t, 0)
        /\ Script(ErrorReply(t), "idle", t)
    BY <2>1, RepliesType, ShortScripts
  <2>4. q # <<>> /\ Carries(q[Len(q)], s.todo[1]) /\ q \in Seq(HostFrames) /\ Chained(q)
    BY DEF Orderly
  <2>5. Working(q[Len(q)], t) BY <1>2, <1>4, <2>4 DEF Carries, Working
  <2>6. Follows(q[Len(q)], Say("ERROR", t, 0)) BY <2>1, <2>5, WorkingThen DEF Say
  <2>7. Script(ErrorReply(t), "idle", turn) BY <2>3 DEF Script
  <2> HIDE DEF t
  <2> QED BY <1>1, <2>2, <2>3, <2>4, <2>6, <2>7, QueueOrderly
<1>5. CASE Head(s.todo).op # "PROGRESS"
  <2>1. GivenUp(s) = [s EXCEPT !.pc = "closed"] BY <1>5 DEF GivenUp
  <2> QED BY <1>1, <2>1 DEF Orderly, Handlers
<1> QED BY <1>4, <1>5

LEMMA RetryOrderly ==
  ASSUME NEW s, Sane(s), s.pc = "await", NEW q, NEW turn, Orderly(s, q, turn)
  PROVE  Orderly(Retry(s), q, turn)
<1>1. s \in Handlers /\ s.todo \in Seq(Says) /\ s.todo # <<>>
  BY DEF Sane, Handlers
<1>2. CASE s.tries <= FrameRetries
  <2>1. Retry(s) = [s EXCEPT !.pc = "send"] BY <1>2 DEF Retry
  <2> QED BY <1>1, <2>1 DEF Orderly, Handlers
<1>3. CASE ~(s.tries <= FrameRetries) BY <1>3, GivenUpOrderly DEF Retry
<1> QED BY <1>2, <1>3

\* A prompt is run behind a frame that closes what came before.
LEMMA RunOrderly ==
  ASSUME TypeInv, TurnInv, srv.pc = "idle", sent' = sent,
         NEW prompt \in Seq(Chunks), NEW seq \in 0..SeqSpace, Run(prompt, seq)
  PROVE  TurnInv'
<1> DEFINE s0 == [srv EXCEPT !.lastRx = seq]
           s1 == [s0 EXCEPT !.parts = <<>>]
           s2 == [s1 EXCEPT !.total = 0]
           s == [s2 EXCEPT !.beats = 0]
           turn == Len(ran) + 1
<1>1. s0 \in Handlers BY DEF TypeInv, Sane, Handlers
<1>2. s1 \in Handlers BY <1>1, EmptySeq DEF Handlers
<1> HIDE DEF s0
<1>3. s2 \in Handlers BY <1>2 DEF Handlers
<1> HIDE DEF s1
<1>4. s \in Handlers BY <1>3 DEF Handlers
<1>5. s = [srv EXCEPT !.lastRx = seq, !.parts = <<>>, !.total = 0, !.beats = 0]
  BY DEF s, s2, s1, s0
<1> HIDE DEF s2, s
<1>6. turn \in Nat \ {0} /\ Len(ran') = turn
  <2>1. ran \in Seq(Seq(Chunks)) /\ ran' = Append(ran, prompt) BY DEF TypeInv, Run
  <2> QED BY <2>1, LenProperties, AppendProperties
<1>7. sent \in Seq(HostFrames) /\ Chained(sent) /\ (sent # <<>> => Closes(sent[Len(sent)]))
  BY DEF TurnInv, Orderly
<1> HIDE DEF turn
<1>8. CASE IsCommand(prompt)
  <2>1. PICK n \in 1..MaxReply :
            srv' = Queue(s, <<Say("READY", turn, 0)>> \o Texts(turn, n) \o Prompt(turn), "idle")
    BY <1>5, <1>8 DEF Run, turn
  <2> DEFINE reply == <<Say("READY", turn, 0)>> \o Texts(turn, n) \o Prompt(turn)
  <2>2. reply \in Seq(Says) BY <1>6, RepliesType
  <2>3. reply[1] = Say("READY", turn, 0) /\ Script(reply, "idle", turn)
    BY <1>6, CommandScript
  <2>4. sent # <<>> => Follows(sent[Len(sent)], reply[1])
    BY <1>7, <2>3, ClosedThen DEF Say
  <2> HIDE DEF reply
  <2>5. Orderly(Queue(s, reply, "idle"), sent, turn)
    BY <1>4, <1>7, <2>2, <2>3, <2>4, QueueOrderly
  <2> QED BY <1>6, <2>1, <2>5 DEF TurnInv, reply
<1>9. CASE ~IsCommand(prompt)
  <2> DEFINE todo == <<Say("THINKING", turn, 0)>>
  <2>1. srv' = Queue(s, todo, "agent") BY <1>5, <1>9 DEF Run, turn
  <2>2. todo \in Seq(Says) BY <1>6, SayType, OneSay
  <2>3. Script(todo, "agent", turn) BY <1>6, ShortScripts
  <2>4. sent # <<>> => Follows(sent[Len(sent)], todo[1]) BY <1>7, ClosedThen DEF Say
  <2> HIDE DEF todo
  <2>5. Orderly(Queue(s, todo, "agent"), sent, turn)
    BY <1>4, <1>7, <2>2, <2>3, <2>4, QueueOrderly
  <2> QED BY <1>6, <2>1, <2>5 DEF TurnInv
<1> QED BY <1>8, <1>9

LEMMA HelloOrderly ==
  ASSUME TypeInv, TurnInv, AcceptHello PROVE TurnInv'
<1>1. Line \in Frames BY AcceptType DEF AcceptHello
<1> DEFINE s0 == [srv EXCEPT !.lastRx = Line.seq]
           s == [s0 EXCEPT !.hello = TRUE]
           todo == <<Say("READY", 0, 0)>>
<1>2. s0 \in Handlers BY <1>1, FrameFields DEF TypeInv, Sane, Handlers
<1> HIDE DEF s0
<1>3. s \in Handlers BY <1>2 DEF Handlers
<1>4. srv' = Queue(s, todo, "idle") /\ sent' = sent /\ ran' = ran
  BY DEF AcceptHello, s, s0
<1> HIDE DEF s
<1>5. todo \in Seq(Says) BY SayType, OneSay
<1>6. Script(todo, "idle", 0) BY ShortScripts
<1>7. Script(todo, "idle", Len(ran)) BY <1>6 DEF Script
<1>8. sent \in Seq(HostFrames) /\ Chained(sent) /\ (sent # <<>> => Closes(sent[Len(sent)]))
  BY DEF TurnInv, Orderly, AcceptHello, Reads
<1>9. sent # <<>> => Follows(sent[Len(sent)], todo[1]) BY <1>8, ClosedThen DEF Say
<1> HIDE DEF todo
<1>10. Orderly(Queue(s, todo, "idle"), sent, Len(ran))
  BY <1>3, <1>5, <1>7, <1>8, <1>9, QueueOrderly
<1> QED BY <1>4, <1>10 DEF TurnInv

LEMMA PartOrderly ==
  ASSUME TypeInv, TurnInv, AcceptPart PROVE TurnInv'
<1>1. Line \in Frames BY AcceptType DEF AcceptPart
<1>2. /\ Buffer(Line) \in Seq(Chunks) /\ Len(Buffer(Line)) \in Nat
      /\ Line.n \in Nat /\ Line.k \in Nat
  BY <1>1, BufferType, FrameFields, LenProperties DEF AcceptPart
<1> DEFINE buffer == Buffer(Line)
           s == [srv EXCEPT !.lastRx = Line.seq]
<1>3. s \in Handlers /\ s.pc = srv.pc
  BY <1>1, FrameFields DEF TypeInv, Sane, Handlers
<1>4. ran \in Seq(Seq(Chunks)) /\ Len(ran) \in Nat BY LenProperties DEF TypeInv
<1>5. srv.pc = "idle" /\ sent' = sent BY DEF AcceptPart, Reads
<1>6. sent \in Seq(HostFrames) /\ Chained(sent) /\ (sent # <<>> => Closes(sent[Len(sent)]))
  BY <1>5 DEF TurnInv, Orderly
<1>7. CASE Len(buffer) > MaxChunks
  <2> DEFINE t0 == [s EXCEPT !.parts = <<>>]
             t == [t0 EXCEPT !.total = 0]
             todo == ErrorReply(Len(ran))
  <2>1. srv' = Queue([s EXCEPT !.parts = <<>>, !.total = 0], ErrorReply(Len(ran)), "idle")
        /\ ran' = ran
    <3>1. ~(Len(buffer) <= MaxChunks /\ Line.k < Line.n) BY <1>2, <1>7, Constants
    <3> HIDE DEF t0, t
    <3> QED BY <1>7, <3>1 DEF AcceptPart
  <2>2. srv' = Queue(t, todo, "idle") BY <2>1
  <2> HIDE DEF s
  <2>3. t0 \in Handlers BY <1>3, EmptySeq DEF Handlers
  <2> HIDE DEF t0
  <2>4. t \in Handlers BY <2>3 DEF Handlers
  <2> HIDE DEF t
  <2>5. todo \in Seq(Says) /\ todo[1] = Say("ERROR", Len(ran), 0)
        /\ Script(todo, "idle", Len(ran))
    BY <1>4, RepliesType, ShortScripts
  <2>6. sent # <<>> => Follows(sent[Len(sent)], todo[1]) BY <1>6, <2>5, ClosedThen DEF Say
  <2> HIDE DEF todo
  <2>7. Orderly(Queue(t, todo, "idle"), sent, Len(ran))
    BY <1>6, <2>4, <2>5, <2>6, QueueOrderly
  <2> QED BY <1>5, <2>1, <2>2, <2>7 DEF TurnInv
<1>8. CASE Len(buffer) <= MaxChunks /\ Line.k < Line.n
  <2> DEFINE t == [s EXCEPT !.parts = buffer]
  <2>1. ~(Len(buffer) > MaxChunks) BY <1>2, <1>8, Constants
  <2>2. srv' = [s EXCEPT !.parts = buffer, !.total = Line.n] /\ ran' = ran
    BY <1>8, <2>1 DEF AcceptPart
  <2>3. srv' = [t EXCEPT !.total = Line.n] BY <2>2
  <2> HIDE DEF s
  <2>4. t \in Handlers /\ t.pc = "idle" BY <1>2, <1>3, <1>5 DEF Handlers
  <2> HIDE DEF t
  <2>5. srv'.pc = "idle" BY <2>3, <2>4 DEF Handlers
  <2> QED BY <1>5, <1>6, <2>2, <2>5 DEF TurnInv, Orderly
<1>9. CASE ~(Len(buffer) > MaxChunks) /\ ~(Len(buffer) <= MaxChunks /\ Line.k < Line.n)
  <2>1. Run(buffer, Line.seq) BY <1>9 DEF AcceptPart
  <2> QED BY <1>1, <1>2, <1>5, <2>1, FrameFields, RunOrderly
<1> QED BY <1>7, <1>8, <1>9

LEMMA AgentOrderly ==
  ASSUME TypeInv, TurnInv, Agent \/ AgentProgress PROVE TurnInv'
<1>1. srv \in Handlers /\ srv.pc = "agent" /\ sent' = sent /\ ran' = ran
  BY DEF TypeInv, Sane, Agent, AgentReplies, AgentFails, AgentProgress
<1> DEFINE turn == Len(ran)
<1>2. turn \in Nat BY LenProperties DEF TypeInv
<1>3. /\ sent \in Seq(HostFrames) /\ Chained(sent) /\ sent # <<>>
      /\ Working(sent[Len(sent)], turn)
  BY <1>1 DEF TurnInv, Orderly
<1> HIDE DEF turn
<1>4. CASE AgentProgress
  <2> DEFINE todo == <<Say("PROGRESS", turn, 0)>>
             q == Queue(srv, todo, "agent")
  <2>1. todo \in Seq(Says) BY <1>2, SayType, OneSay
  <2>2. Script(todo, "agent", turn) BY <1>2, ShortScripts
  <2>3. Follows(sent[Len(sent)], todo[1]) BY <1>2, <1>3, WorkingThen DEF Say
  <2>4. srv' = [q EXCEPT !.beats = @ + 1] BY <1>4 DEF AgentProgress, turn
  <2> HIDE DEF todo
  <2>5. Orderly(q, sent, turn) BY <1>1, <1>3, <2>1, <2>2, <2>3, QueueOrderly
  <2>6. q \in Handlers
    BY <1>1, <2>1, <2>2, QueueSane, AgentStep, <1>2, SayType, OneSay DEF Sane, TypeInv, todo
  <2> HIDE DEF q
  <2>7. srv'.pc = q.pc /\ srv'.todo = q.todo /\ srv'.after = q.after /\ srv'.tries = q.tries
    BY <2>4, <2>6 DEF Handlers
  <2>8. Orderly(srv', sent, turn) BY <2>5, <2>7 DEF Orderly
  <2> QED BY <1>1, <2>8 DEF TurnInv, turn
<1>5. CASE AgentReplies
  <2>1. PICK n \in 1..MaxReply : srv' = Queue(srv, Texts(turn, n) \o Prompt(turn), "idle")
    BY <1>5 DEF AgentReplies, turn
  <2> DEFINE reply == Texts(turn, n) \o Prompt(turn)
  <2>2. reply \in Seq(Says) /\ Script(reply, "idle", turn) BY <1>2, ReplyScript
  <2>3. reply[1] = Say("TEXT", turn, 1)
    <3>1. 1 \in 1..n BY Constants
    <3> QED BY <1>2, <3>1, ReplyScript
  <2>4. Follows(sent[Len(sent)], reply[1]) BY <1>2, <1>3, <2>3, WorkingThen DEF Say
  <2> HIDE DEF reply
  <2>5. Orderly(Queue(srv, reply, "idle"), sent, turn)
    BY <1>1, <1>3, <2>2, <2>4, QueueOrderly
  <2> QED BY <1>1, <2>1, <2>5 DEF TurnInv, turn, reply
<1>6. CASE AgentFails
  <2> DEFINE todo == ErrorReply(turn)
  <2>1. srv' = Queue(srv, todo, "idle") BY <1>6 DEF AgentFails, turn
  <2>2. todo \in Seq(Says) /\ todo[1] = Say("ERROR", turn, 0) /\ Script(todo, "idle", turn)
    BY <1>2, RepliesType, ShortScripts
  <2>3. Follows(sent[Len(sent)], todo[1]) BY <1>2, <1>3, <2>2, WorkingThen DEF Say
  <2> HIDE DEF todo
  <2>4. Orderly(Queue(srv, todo, "idle"), sent, turn)
    BY <1>1, <1>3, <2>2, <2>3, QueueOrderly
  <2> QED BY <1>1, <2>1, <2>4 DEF TurnInv, turn
<1> QED BY <1>4, <1>5, <1>6 DEF Agent

LEMMA ServerOrderly ==
  ASSUME TypeInv, TurnInv, ServerNext PROVE TurnInv'
<1>1. CASE UNCHANGED serverVars BY <1>1 DEF TurnInv, serverVars
<1>2. CASE SkipLine \/ ReAck \/ RejectFrame \/ StaleLine \/ FrameWhileBusy
  BY <1>1, <1>2 DEF SkipLine, ReAck, RejectFrame, StaleLine, FrameWhileBusy
<1>3. CASE RejectFault
  <2>1. srv.pc = "idle" /\ sent' = sent /\ ran' = ran BY <1>3 DEF RejectFault, Reads
  <2>2. srv' = srv \/ srv' = [srv EXCEPT !.pc = "closed"] BY <1>3 DEF RejectFault
  <2>3. srv' = srv \/ srv'.pc = "closed" BY <2>2 DEF TypeInv, Sane, Handlers
  <2> QED BY <2>1, <2>3 DEF TurnInv, Orderly
<1>4. CASE AcceptHello BY <1>4, HelloOrderly
<1>5. CASE AcceptMsg
  <2>1. Line \in Frames BY <1>5, AcceptType DEF AcceptMsg
  <2>2. <<Line.chunk>> \in Seq(Chunks) /\ Line.seq \in 0..SeqSpace BY <2>1, FrameFields
  <2> QED BY <1>5, <2>2, RunOrderly DEF AcceptMsg, Reads
<1>6. CASE AcceptPart BY <1>6, PartOrderly
<1>7. CASE Transmit BY <1>7, TransmitOrderly
<1>8. CASE AckArrives
  <2>1. Sane(srv) /\ srv.pc = "await" /\ srv' = Acked(srv) /\ sent' = sent /\ ran' = ran
    BY <1>8 DEF AckArrives, Reads, TypeInv
  <2> QED BY <2>1, AckedOrderly DEF TurnInv
<1>9. CASE NakArrives \/ FrameTimeout
  <2>1. Sane(srv) /\ srv.pc = "await" /\ srv' = Retry(srv) /\ sent' = sent /\ ran' = ran
    BY <1>9 DEF NakArrives, FrameTimeout, Reads, TypeInv
  <2> QED BY <2>1, RetryOrderly DEF TurnInv
<1>10. CASE Agent \/ AgentProgress BY <1>10, AgentOrderly
<1>11. CASE TurnTimesOut
  <2>1. Sane(srv) /\ srv.pc = "await" /\ srv' = GivenUp(srv) /\ sent' = sent /\ ran' = ran
    BY <1>11 DEF TurnTimesOut, TypeInv
  <2> QED BY <2>1, GivenUpOrderly DEF TurnInv
<1>12. CASE CommandRaises
  <2>1. srv' = [srv EXCEPT !.pc = "closed"] /\ srv \in Handlers /\ sent' = sent /\ ran' = ran
    BY <1>12 DEF CommandRaises, TypeInv, Sane
  <2>2. srv'.pc = "closed" BY <2>1 DEF Handlers
  <2> QED BY <2>1, <2>2 DEF TurnInv, Orderly
<1> QED BY <1>2, <1>3, <1>4, <1>5, <1>6, <1>7, <1>8, <1>9, <1>10, <1>11, <1>12
      DEF ServerNext, MainLoop, Sender

LEMMA InitOrderly == Init => TurnInv
<1> SUFFICES ASSUME Init PROVE TurnInv
  OBVIOUS
<1>1. sent = <<>> /\ srv.pc = "idle" /\ sent \in Seq(HostFrames)
  BY EmptySeq DEF Init, ServerInit, NewHandler
<1>2. Chained(sent) BY <1>1 DEF Chained
<1> QED BY <1>1, <1>2 DEF TurnInv, Orderly

LEMMA NextOrderly == TypeInv /\ TurnInv /\ [Next]_vars => TurnInv'
<1> SUFFICES ASSUME TypeInv, TurnInv, [Next]_vars PROVE TurnInv'
  OBVIOUS
<1>1. CASE PeerNext BY <1>1, PeerStep DEF TurnInv, serverVars
<1>2. CASE ServerNext /\ UNCHANGED peer BY <1>2, ServerOrderly
<1>3. CASE UNCHANGED vars BY <1>3 DEF TurnInv, vars, serverVars
<1> QED BY <1>1, <1>2, <1>3 DEF Next

\* Every turn the host starts is closed by one PROMPT, its lines in order, before
\* the next frame is accepted: when a progress note is given up after its last
\* retry, when the agent fails, whatever the peer refuses (send_frame,
\* native_mode's failed turn).
THEOREM TurnsAreClosed == Spec => []TurnsClosed
<1>1. TypeInv /\ TurnInv => TurnsClosed BY DEF TurnInv, Orderly, Chained, TurnsClosed
<1> QED BY <1>1, InitType, NextType, InitOrderly, NextOrderly, PTL DEF Spec

-----------------------------------------------------------------------------
(* What was accepted is what runs.                                         *)

\* The parts buffer holds the last parts accepted, 1 to k of one prompt, k short
\* of its total; before HELLO there are none.
Buffered(s, acc) ==
    /\ s.hello = FALSE => s.parts = <<>>
    /\ s.parts # <<>> =>
           /\ Len(s.parts) <= Len(acc) /\ Len(s.parts) < s.total
           /\ \A i \in 1..Len(s.parts) :
                  LET m == acc[(Len(acc) - Len(s.parts)) + i]
                  IN  m.op = "MSGP" /\ m.k = i /\ m.n = s.total /\ m.chunk = s.parts[i]

Ends(h) == {j \in DOMAIN h : EndsPrompt(h, j)}

Runs(h, run) ==
    /\ Cardinality(Ends(h)) = Len(run)
    /\ \A j \in Ends(h) : run[Cardinality({i \in Ends(h) : i <= j})] = PromptAt(h, j)

RunInv == Buffered(srv, accepted) /\ Runs(accepted, ran)

LEMMA EndsFinite ==
  ASSUME NEW S, NEW h \in Seq(S), NEW j
  PROVE  /\ IsFiniteSet(Ends(h)) /\ Cardinality(Ends(h)) \in Nat
         /\ IsFiniteSet({i \in Ends(h) : i <= j})
         /\ Cardinality({i \in Ends(h) : i <= j}) \in Nat
         /\ Cardinality({i \in Ends(h) : i <= j}) <= Cardinality(Ends(h))
<1>1. DOMAIN h = 1..Len(h) /\ Len(h) \in Nat BY LenProperties
<1>2. IsFiniteSet(1..Len(h)) BY <1>1, FS_Interval
<1>3. Ends(h) \in SUBSET (1..Len(h)) BY <1>1 DEF Ends
<1>4. IsFiniteSet(Ends(h)) BY <1>2, <1>3, FS_Subset
<1>5. {i \in Ends(h) : i <= j} \in SUBSET Ends(h) OBVIOUS
<1> HIDE DEF Ends
<1>6. /\ IsFiniteSet({i \in Ends(h) : i <= j})
      /\ Cardinality({i \in Ends(h) : i <= j}) <= Cardinality(Ends(h))
  BY <1>4, <1>5, FS_Subset
<1> QED BY <1>4, <1>6, FS_CardinalityType

\* Whether an entry ends a prompt, and which, is settled when it is accepted.
LEMMA EndsSettled ==
  ASSUME NEW h \in Seq(Frames), NEW m \in Frames, NEW j \in DOMAIN h
  PROVE  /\ EndsPrompt(Append(h, m), j) <=> EndsPrompt(h, j)
         /\ EndsPrompt(h, j) => PromptAt(Append(h, m), j) = PromptAt(h, j)
<1> DEFINE r == Append(h, m)
<1>1. /\ DOMAIN h = 1..Len(h) /\ Len(h) \in Nat
      /\ \A i \in 1..Len(h) : r[i] = h[i]
  BY AppendFacts
<1>2. j \in 1..Len(h) /\ r[j] = h[j] /\ h[j] \in Frames BY <1>1
<1>3. h[j].n \in Nat BY <1>2, FrameFields
<1> HIDE DEF r
<1>4. ASSUME h[j].n \in 1..j
      PROVE  \A i \in 1..h[j].n : r[j - h[j].n + i] = h[j - h[j].n + i]
  <2> SUFFICES ASSUME NEW i \in 1..h[j].n PROVE r[j - h[j].n + i] = h[j - h[j].n + i]
    OBVIOUS
  <2>1. j - h[j].n + i \in 1..Len(h) BY <1>1, <1>2, <1>3, <1>4
  <2> QED BY <1>1, <2>1
<1>5. EndsPrompt(r, j) <=> EndsPrompt(h, j)
  <2>1. CASE h[j].n \in 1..j BY <1>2, <1>4, <2>1 DEF EndsPrompt
  <2>2. CASE h[j].n \notin 1..j BY <1>2, <2>2 DEF EndsPrompt
  <2> QED BY <2>1, <2>2
<1>6. ASSUME EndsPrompt(h, j) PROVE PromptAt(r, j) = PromptAt(h, j)
  <2>1. CASE h[j].op # "MSGP" BY <1>2, <2>1 DEF PromptAt
  <2>2. CASE h[j].op = "MSGP"
    <3>1. h[j].n \in 1..j BY <1>6, <2>2 DEF EndsPrompt
    <3>2. \A i \in 1..h[j].n : r[j - h[j].n + i].chunk = h[j - h[j].n + i].chunk
      BY <1>4, <3>1
    <3> QED BY <1>2, <2>2, <3>2 DEF PromptAt
  <2> QED BY <2>1, <2>2
<1> QED BY <1>5, <1>6 DEF r

LEMMA EndsAppend ==
  ASSUME NEW h \in Seq(Frames), NEW m \in Frames
  PROVE  Ends(Append(h, m)) =
             IF EndsPrompt(Append(h, m), Len(h) + 1) THEN Ends(h) \union {Len(h) + 1}
             ELSE Ends(h)
<1> DEFINE r == Append(h, m)
<1>1. DOMAIN h = 1..Len(h) /\ Len(h) \in Nat /\ DOMAIN r = 1..(Len(h) + 1)
  BY AppendFacts
<1>2. \A j \in DOMAIN h : EndsPrompt(r, j) <=> EndsPrompt(h, j) BY EndsSettled
<1> HIDE DEF r
<1>3. DOMAIN r = DOMAIN h \union {Len(h) + 1} BY <1>1
<1>4. Ends(r) = IF EndsPrompt(r, Len(h) + 1) THEN Ends(h) \union {Len(h) + 1} ELSE Ends(h)
  BY <1>2, <1>3 DEF Ends
<1> QED BY <1>4 DEF r

\* An entry that ends no prompt.
LEMMA RunsKept ==
  ASSUME NEW h \in Seq(Frames), NEW m \in Frames, NEW run, Runs(h, run),
         ~EndsPrompt(Append(h, m), Len(h) + 1)
  PROVE  Runs(Append(h, m), run)
<1> DEFINE r == Append(h, m)
<1>1. Ends(r) = Ends(h) BY EndsAppend
<1>2. \A j \in Ends(h) : PromptAt(r, j) = PromptAt(h, j) BY EndsSettled DEF Ends
<1> HIDE DEF r
<1>3. Runs(r, run) BY <1>1, <1>2 DEF Runs
<1> QED BY <1>3 DEF r

\* An entry that ends one is the last of them.
LEMMA RunsMore ==
  ASSUME NEW h \in Seq(Frames), NEW m \in Frames, NEW S, NEW run \in Seq(S), Runs(h, run),
         NEW prompt \in S, prompt = PromptAt(Append(h, m), Len(h) + 1),
         EndsPrompt(Append(h, m), Len(h) + 1)
  PROVE  Runs(Append(h, m), Append(run, prompt))
<1> DEFINE r == Append(h, m)
           n == Len(h) + 1
           more == Append(run, prompt)
<1>1. Ends(r) = Ends(h) \union {n} BY EndsAppend
<1>2. \A j \in Ends(h) : PromptAt(r, j) = PromptAt(h, j) BY EndsSettled DEF Ends
<1>3. \A j \in Ends(h) : j \in Nat /\ j < n
  <2>1. DOMAIN h = 1..Len(h) /\ Len(h) \in Nat BY LenProperties
  <2> QED BY <2>1 DEF Ends
<1>4. n \in Nat BY LenProperties
<1>5. /\ Len(more) = Len(run) + 1 /\ Len(run) \in Nat /\ more[Len(run) + 1] = prompt
      /\ \A i \in 1..Len(run) : more[i] = run[i]
  BY AppendFacts
<1>6. IsFiniteSet(Ends(h)) /\ Cardinality(Ends(h)) = Len(run) BY EndsFinite DEF Runs
<1>7. n \notin Ends(h) BY <1>3, <1>4
<1>8. Cardinality(Ends(h) \union {n}) = Len(run) + 1 BY <1>6, <1>7, FS_AddElement
<1> HIDE DEF r, n, more
<1>9. ASSUME NEW j \in Ends(r) PROVE more[Cardinality({i \in Ends(r) : i <= j})] = PromptAt(r, j)
  <2>1. CASE j = n
    <3>0. \A i \in Ends(r) : i <= j BY <1>1, <1>3, <1>4, <2>1
    <3>1. {i \in Ends(r) : i <= j} = Ends(h) \union {n} BY <1>1, <3>0
    <3> QED BY <1>5, <1>8, <2>1, <3>1 DEF r, n
  <2>2. CASE j \in Ends(h)
    <3> DEFINE upto == {i \in Ends(h) : i <= j}
    <3>1. {i \in Ends(r) : i <= j} = upto BY <1>1, <1>3, <1>4, <2>2
    <3>2. IsFiniteSet(upto) /\ Cardinality(upto) \in Nat /\ Cardinality(upto) <= Len(run)
      BY <1>6, EndsFinite
    <3>3. upto # {}
      <4>1. j \in upto BY <1>3, <2>2
      <4> QED BY <4>1
    <3>4. run[Cardinality(upto)] = PromptAt(h, j) BY <2>2 DEF Runs
    <3> HIDE DEF upto
    <3>5. Cardinality(upto) # 0 BY <3>2, <3>3, FS_EmptySet
    <3>6. more[Cardinality(upto)] = run[Cardinality(upto)] BY <1>5, <3>2, <3>5
    <3> QED BY <1>2, <2>2, <3>1, <3>4, <3>6
  <2> QED BY <1>1, <2>1, <2>2
<1>10. Runs(r, more) BY <1>1, <1>5, <1>8, <1>9 DEF Runs
<1> QED BY <1>10 DEF r, more

\* The buffer, its total and the HELLO flag are left alone.
SameParts(s, t) == t.parts = s.parts /\ t.total = s.total /\ t.hello = s.hello

LEMMA BufferedSame ==
  ASSUME NEW s, NEW t, NEW acc, Buffered(s, acc), SameParts(s, t) PROVE Buffered(t, acc)
BY DEF Buffered, SameParts

LEMMA GivenUpParts ==
  ASSUME NEW s, Sane(s), s.pc = "await" PROVE SameParts(s, GivenUp(s))
<1>1. s \in Handlers /\ s.todo \in Seq(Says) /\ s.todo # <<>> BY DEF Sane, Handlers
<1>2. Head(s.todo) \in Says BY <1>1, HeadTailProperties
<1>3. Head(s.todo).turn \in Nat BY <1>2 DEF Says
<1>4. ErrorReply(Head(s.todo).turn) \in Seq(Says) BY <1>3, RepliesType
<1> DEFINE e == ErrorReply(Head(s.todo).turn)
<1>5. SameParts(s, Queue(s, e, "idle")) BY <1>1, <1>4, QueueFields DEF SameParts
<1>6. CASE Head(s.todo).op = "PROGRESS" BY <1>5, <1>6 DEF GivenUp
<1>7. CASE Head(s.todo).op # "PROGRESS" BY <1>1, <1>7 DEF GivenUp, SameParts, Handlers
<1> QED BY <1>6, <1>7

LEMMA RetryParts ==
  ASSUME NEW s, Sane(s), s.pc = "await" PROVE SameParts(s, Retry(s))
<1>1. s \in Handlers BY DEF Sane
<1>2. CASE s.tries <= FrameRetries BY <1>1, <1>2 DEF Retry, SameParts, Handlers
<1>3. CASE ~(s.tries <= FrameRetries) BY <1>3, GivenUpParts DEF Retry
<1> QED BY <1>2, <1>3

LEMMA OthersParts ==
  ASSUME TypeInv, ServerNext, ~Accepts
  PROVE  SameParts(srv, srv') /\ accepted' = accepted /\ ran' = ran
<1>1. Sane(srv) /\ srv \in Handlers BY DEF TypeInv, Sane
<1>2. CASE SkipLine \/ ReAck \/ RejectFrame \/ StaleLine \/ FrameWhileBusy
  BY <1>2 DEF SkipLine, ReAck, RejectFrame, StaleLine, FrameWhileBusy, serverVars, SameParts
<1>3. CASE RejectFault BY <1>1, <1>3 DEF RejectFault, SameParts, Handlers
<1>4. CASE Transmit
  <2> DEFINE s == [srv EXCEPT !.pc = "await"]
  <2>1. SameParts(srv, s) /\ s \in Handlers BY <1>1 DEF SameParts, Handlers
  <2>2. srv' = [s EXCEPT !.tries = srv.tries + 1] BY <1>4 DEF Transmit
  <2> HIDE DEF s
  <2>3. SameParts(s, srv') BY <2>1, <2>2 DEF SameParts, Handlers
  <2> QED BY <1>4, <2>1, <2>3 DEF Transmit, SameParts
<1>5. CASE AckArrives
  <2>1. srv.pc = "await" /\ srv' = Acked(srv) BY <1>5 DEF AckArrives, Reads
  <2>2. srv.todo # <<>> BY <1>1, <2>1 DEF Sane
  <2> QED BY <1>1, <1>5, <2>1, <2>2, AckedFields DEF AckArrives, SameParts
<1>6. CASE NakArrives \/ FrameTimeout
  BY <1>1, <1>6, RetryParts DEF NakArrives, FrameTimeout, Reads
<1>7. CASE AgentProgress
  <2> DEFINE todo == <<Say("PROGRESS", Len(ran), 0)>>
             q == Queue(srv, todo, "agent")
  <2>1. Len(ran) \in Nat BY LenProperties DEF TypeInv
  <2>2. todo \in Seq(Says) /\ todo # <<>> BY <2>1, SayType, OneSay
  <2>3. srv' = [q EXCEPT !.beats = @ + 1] BY <1>7 DEF AgentProgress
  <2> HIDE DEF todo
  <2>4. SameParts(srv, q) BY <1>1, <2>2, QueueFields DEF SameParts
  <2>5. q \in Handlers BY <1>1, <2>2, QueueSane DEF Sane
  <2> HIDE DEF q
  <2>6. SameParts(q, srv') BY <2>3, <2>5 DEF SameParts, Handlers
  <2> QED BY <1>7, <2>4, <2>6 DEF AgentProgress, SameParts
<1>8. CASE AgentReplies
  <2>1. Len(ran) \in Nat BY LenProperties DEF TypeInv
  <2>2. PICK n \in 1..MaxReply :
            srv' = Queue(srv, Texts(Len(ran), n) \o Prompt(Len(ran)), "idle")
    BY <1>8 DEF AgentReplies
  <2> DEFINE reply == Texts(Len(ran), n) \o Prompt(Len(ran))
  <2>3. reply \in Seq(Says) BY <2>1, RepliesType
  <2> HIDE DEF reply
  <2>4. SameParts(srv, Queue(srv, reply, "idle")) BY <1>1, <2>3, QueueFields DEF SameParts
  <2> QED BY <1>8, <2>2, <2>4 DEF AgentReplies, reply
<1>9. CASE AgentFails
  <2>1. Len(ran) \in Nat BY LenProperties DEF TypeInv
  <2>2. ErrorReply(Len(ran)) \in Seq(Says) BY <2>1, RepliesType
  <2>3. SameParts(srv, Queue(srv, ErrorReply(Len(ran)), "idle"))
    BY <1>1, <2>2, QueueFields DEF SameParts
  <2> QED BY <1>9, <2>3 DEF AgentFails
<1>10. CASE TurnTimesOut BY <1>1, <1>10, GivenUpParts DEF TurnTimesOut
<1>11. CASE CommandRaises BY <1>1, <1>11 DEF CommandRaises, SameParts, Handlers
<1> QED BY <1>2, <1>3, <1>4, <1>5, <1>6, <1>7, <1>8, <1>9, <1>10, <1>11
      DEF Accepts, ServerNext, MainLoop, Sender, Agent

\* Running a prompt empties the buffer.
LEMMA RunParts ==
  ASSUME TypeInv, NEW prompt \in Seq(Chunks), NEW seq \in 0..SeqSpace, Run(prompt, seq)
  PROVE  srv'.parts = <<>> /\ ran' = Append(ran, prompt)
<1> DEFINE s0 == [srv EXCEPT !.lastRx = seq]
           s1 == [s0 EXCEPT !.parts = <<>>]
           s2 == [s1 EXCEPT !.total = 0]
           s == [s2 EXCEPT !.beats = 0]
           turn == Len(ran) + 1
<1>1. s0 \in Handlers BY DEF TypeInv, Sane, Handlers
<1>2. s1 \in Handlers /\ s1.parts = <<>> BY <1>1, EmptySeq DEF Handlers
<1> HIDE DEF s0
<1>3. s2 \in Handlers /\ s2.parts = <<>> BY <1>2 DEF Handlers
<1> HIDE DEF s1
<1>4. s \in Handlers /\ s.parts = <<>> BY <1>3 DEF Handlers
<1>5. s = [srv EXCEPT !.lastRx = seq, !.parts = <<>>, !.total = 0, !.beats = 0]
  BY DEF s, s2, s1, s0
<1> HIDE DEF s2, s
<1>6. turn \in Nat BY LenProperties DEF TypeInv
<1> HIDE DEF turn
<1>7. CASE IsCommand(prompt)
  <2>1. PICK n \in 1..MaxReply :
            srv' = Queue(s, <<Say("READY", turn, 0)>> \o Texts(turn, n) \o Prompt(turn), "idle")
    BY <1>5, <1>7 DEF Run, turn
  <2> DEFINE reply == <<Say("READY", turn, 0)>> \o Texts(turn, n) \o Prompt(turn)
  <2>2. reply \in Seq(Says) BY <1>6, RepliesType
  <2> HIDE DEF reply
  <2>3. Queue(s, reply, "idle").parts = <<>> BY <1>4, <2>2, QueueFields
  <2> QED BY <2>1, <2>3 DEF Run, reply
<1>8. CASE ~IsCommand(prompt)
  <2> DEFINE todo == <<Say("THINKING", turn, 0)>>
  <2>1. srv' = Queue(s, todo, "agent") BY <1>5, <1>8 DEF Run, turn
  <2>2. todo \in Seq(Says) BY <1>6, SayType, OneSay
  <2> HIDE DEF todo
  <2>3. Queue(s, todo, "agent").parts = <<>> BY <1>4, <2>2, QueueFields
  <2> QED BY <2>1, <2>3 DEF Run
<1> QED BY <1>7, <1>8

\* HELLO comes before any part.
LEMMA HelloRuns ==
  ASSUME TypeInv, RunInv, AcceptHello PROVE RunInv'
<1>1. Line \in Frames /\ accepted \in Seq(Frames) BY AcceptType DEF AcceptHello, TypeInv
<1>2. srv.parts = <<>> /\ Line.op = "HELLO" /\ ran' = ran
  <2>1. srv.hello = FALSE BY DEF AcceptHello, TypeInv, Sane, Handlers
  <2> QED BY <2>1 DEF RunInv, Buffered, AcceptHello
<1> DEFINE s0 == [srv EXCEPT !.lastRx = Line.seq]
           s == [s0 EXCEPT !.hello = TRUE]
           todo == <<Say("READY", 0, 0)>>
<1>3. s0 \in Handlers /\ s0.parts = srv.parts BY <1>1, FrameFields DEF TypeInv, Sane, Handlers
<1> HIDE DEF s0
<1>4. s \in Handlers /\ s.parts = srv.parts BY <1>3 DEF Handlers
<1>5. srv' = Queue(s, todo, "idle") BY DEF AcceptHello, s, s0
<1> HIDE DEF s
<1>6. todo \in Seq(Says) BY SayType, OneSay
<1> HIDE DEF todo
<1>7. srv'.parts = <<>> BY <1>2, <1>4, <1>5, <1>6, QueueFields
<1>8. accepted' = Append(accepted, Line) BY DEF AcceptHello, Accept
<1>9. Append(accepted, Line)[Len(accepted) + 1] = Line BY <1>1, AppendFacts
<1>10. ~EndsPrompt(Append(accepted, Line), Len(accepted) + 1)
  BY <1>2, <1>9 DEF EndsPrompt
<1>11. Runs(Append(accepted, Line), ran) BY <1>1, <1>10, RunsKept DEF RunInv
<1> QED BY <1>2, <1>7, <1>8, <1>11 DEF RunInv, Buffered

\* A MSG is a prompt of its own, and drops the parts of an unfinished one.
LEMMA MsgRuns ==
  ASSUME TypeInv, RunInv, AcceptMsg PROVE RunInv'
<1>1. Line \in Frames /\ accepted \in Seq(Frames) BY AcceptType DEF AcceptMsg, TypeInv
<1> DEFINE prompt == <<Line.chunk>>
           r == Append(accepted, Line)
           n == Len(accepted) + 1
<1>2. prompt \in Seq(Chunks) /\ Line.seq \in 0..SeqSpace BY <1>1, FrameFields
<1>3. Run(prompt, Line.seq) /\ accepted' = r /\ Line.op = "MSG"
  BY DEF AcceptMsg, Accept
<1>4. srv'.parts = <<>> /\ ran' = Append(ran, prompt) BY <1>2, <1>3, RunParts
<1>5. r[n] = Line BY <1>1, AppendFacts
<1>6. EndsPrompt(r, n) /\ PromptAt(r, n) = prompt BY <1>3, <1>5 DEF EndsPrompt, PromptAt
<1>7. ran \in Seq(Seq(Chunks)) BY DEF TypeInv
<1>8. Runs(r, Append(ran, prompt)) BY <1>1, <1>2, <1>6, <1>7, RunsMore DEF RunInv
<1> HIDE DEF prompt, r
<1> QED BY <1>3, <1>4, <1>8 DEF RunInv, Buffered

\* A part that continues the buffer stands right behind the parts in it.
LEMMA PartsBehind ==
  ASSUME TypeInv, RunInv, NEW m \in Frames, m.op = "MSGP", ValidPart(m)
  PROVE  LET r == Append(accepted, m)
         IN  /\ m.k <= Len(r)
             /\ \A i \in 1..m.k :
                    LET e == r[(Len(r) - m.k) + i]
                    IN  e.op = "MSGP" /\ e.k = i /\ e.n = m.n /\ e.chunk = Buffer(m)[i]
<1> DEFINE r == Append(accepted, m)
           n == Len(accepted)
<1>1. /\ accepted \in Seq(Frames) /\ n \in Nat
      /\ Len(r) = n + 1 /\ r[n + 1] = m
      /\ \A i \in 1..n : r[i] = accepted[i]
  BY AppendFacts DEF TypeInv
<1>2. m.k \in Nat /\ m.n \in Nat /\ m.k >= 1 /\ m.chunk \in Chunks
  BY FrameFields DEF ValidPart
<1>3. srv.parts \in Seq(Chunks) BY DEF TypeInv, Sane, Handlers
<1> HIDE DEF r
<1>4. CASE m.k = 1
  <2>1. Buffer(m) = <<m.chunk>> BY <1>4 DEF Buffer
  <2>2. \A i \in 1..m.k : i = 1 /\ (Len(r) - m.k) + i = n + 1 BY <1>1, <1>4
  <2>3. <<m.chunk>>[1] = m.chunk OBVIOUS
  <2> QED BY <1>1, <1>4, <2>1, <2>2, <2>3 DEF r
<1>5. CASE m.k # 1
  <2> DEFINE p == Len(srv.parts)
  <2>1. Buffer(m) = Append(srv.parts, m.chunk) /\ m.k = p + 1 /\ m.n = srv.total
    BY <1>5 DEF Buffer, ValidPart
  <2>2. p \in Nat /\ p # 0 /\ srv.parts # <<>> BY <1>2, <1>3, <1>5, <2>1, EmptySeq, LenProperties
  <2>3. /\ p <= n
        /\ \A i \in 1..p :
               LET e == accepted[(n - p) + i]
               IN  e.op = "MSGP" /\ e.k = i /\ e.n = srv.total /\ e.chunk = srv.parts[i]
    BY <2>2 DEF RunInv, Buffered
  <2>4. Buffer(m)[p + 1] = m.chunk /\ \A i \in 1..p : Buffer(m)[i] = srv.parts[i]
    BY <1>2, <1>3, <2>1, AppendFacts
  <2> HIDE DEF p, n
  <2>5. m.k <= Len(r) BY <1>1, <2>1, <2>2, <2>3
  <2>6. ASSUME NEW i \in 1..m.k
        PROVE  LET e == r[(Len(r) - m.k) + i]
               IN  e.op = "MSGP" /\ e.k = i /\ e.n = m.n /\ e.chunk = Buffer(m)[i]
    <3>1. CASE i = m.k
      <4>1. (Len(r) - m.k) + i = n + 1 BY <1>1, <1>2, <3>1
      <4> QED BY <1>1, <2>1, <2>4, <3>1, <4>1
    <3>2. CASE i # m.k
      <4>1. i \in 1..p /\ (Len(r) - m.k) + i = (n - p) + i /\ (n - p) + i \in 1..n
        BY <1>1, <1>2, <2>1, <2>2, <2>3, <3>2
      <4>2. r[(Len(r) - m.k) + i] = accepted[(n - p) + i] BY <1>1, <4>1
      <4> QED BY <2>1, <2>3, <2>4, <4>1, <4>2
    <3> QED BY <3>1, <3>2
  <2> QED BY <2>5, <2>6 DEF r
<1> QED BY <1>4, <1>5

\* The last part of a prompt runs all of it, any other is kept.
LEMMA PartRuns ==
  ASSUME TypeInv, RunInv, AcceptPart PROVE RunInv'
<1>1. Line \in Frames /\ accepted \in Seq(Frames) /\ Line.op = "MSGP" /\ ValidPart(Line)
  BY AcceptType DEF AcceptPart, TypeInv
<1> DEFINE buffer == Buffer(Line)
           r == Append(accepted, Line)
           n == Len(accepted) + 1
           s == [srv EXCEPT !.lastRx = Line.seq]
<1>2. buffer \in Seq(Chunks) /\ Len(buffer) = Line.k /\ Line.k <= Line.n
  BY <1>1, BufferType
<1>3. /\ Line.k \in Nat /\ Line.n \in Nat /\ Line.k >= 1 /\ Line.seq \in 0..SeqSpace
  BY <1>1, FrameFields DEF ValidPart
<1>4. /\ r[n] = Line /\ Len(r) = n /\ n \in Nat BY <1>1, AppendFacts
<1>5. /\ Line.k <= n
      /\ \A i \in 1..Line.k :
             LET e == r[(n - Line.k) + i]
             IN  e.op = "MSGP" /\ e.k = i /\ e.n = Line.n /\ e.chunk = buffer[i]
  <2>1. /\ Line.k <= Len(r)
        /\ \A i \in 1..Line.k :
               LET e == r[(Len(r) - Line.k) + i]
               IN  e.op = "MSGP" /\ e.k = i /\ e.n = Line.n /\ e.chunk = buffer[i]
    BY <1>1, PartsBehind
  <2> HIDE DEF r, n, buffer
  <2> QED BY <1>4, <2>1
<1>6. s \in Handlers /\ s.hello = srv.hello /\ srv.hello = TRUE
  BY <1>1, FrameFields DEF TypeInv, Sane, Handlers, AcceptPart
<1>7. accepted' = r BY DEF AcceptPart, Accept
<1>8. ran \in Seq(Seq(Chunks)) /\ Runs(accepted, ran) BY DEF TypeInv, RunInv
<1>9. \/ ~(Len(buffer) > MaxChunks) /\ ~(Len(buffer) <= MaxChunks /\ Line.k < Line.n)
      \/ Len(buffer) > MaxChunks \/ (Len(buffer) <= MaxChunks /\ Line.k < Line.n)
  OBVIOUS
<1>10. CASE Len(buffer) > MaxChunks
  <2> DEFINE t0 == [s EXCEPT !.parts = <<>>]
             t == [t0 EXCEPT !.total = 0]
             todo == ErrorReply(Len(ran))
  <2>1. srv' = Queue([s EXCEPT !.parts = <<>>, !.total = 0], ErrorReply(Len(ran)), "idle")
        /\ ran' = ran
    <3>1. ~(Len(buffer) <= MaxChunks /\ Line.k < Line.n) BY <1>2, <1>3, <1>10, Constants
    <3> HIDE DEF t0, t
    <3> QED BY <1>10, <3>1 DEF AcceptPart
  <2>2. srv' = Queue(t, todo, "idle") BY <2>1
  <2>3. t0 \in Handlers /\ t0.parts = <<>> /\ t0.hello = s.hello
    <3> HIDE DEF s
    <3> QED BY <1>6, EmptySeq DEF Handlers
  <2> HIDE DEF t0
  <2>4. t \in Handlers /\ t.parts = <<>> /\ t.hello = s.hello BY <2>3 DEF Handlers
  <2> HIDE DEF t
  <2>5. todo \in Seq(Says)
    <3>1. Len(ran) \in Nat BY <1>8, LenProperties
    <3> QED BY <3>1, RepliesType
  <2> HIDE DEF todo
  <2>6. srv'.parts = <<>> BY <2>2, <2>4, <2>5, QueueFields
  <2>7. ~EndsPrompt(r, n)
    <3>1. Line.n > MaxChunks BY <1>2, <1>3, <1>10, Constants
    <3>2. r[n].op = "MSGP" /\ ~(r[n].n <= MaxChunks) BY <1>1, <1>3, <1>4, <3>1, Constants
    <3> HIDE DEF r, n
    <3> QED BY <3>2 DEF EndsPrompt
  <2>8. Runs(r, ran) BY <1>1, <1>8, <2>7, RunsKept
  <2> HIDE DEF r
  <2> QED BY <1>7, <2>1, <2>6, <2>8 DEF RunInv, Buffered
<1>11. CASE Len(buffer) <= MaxChunks /\ Line.k < Line.n
  <2> DEFINE t == [s EXCEPT !.parts = buffer]
  <2>1. ~(Len(buffer) > MaxChunks) BY <1>2, <1>3, <1>11, Constants
  <2>2. srv' = [s EXCEPT !.parts = buffer, !.total = Line.n] /\ ran' = ran
    BY <1>11, <2>1 DEF AcceptPart
  <2>3. srv' = [t EXCEPT !.total = Line.n] BY <2>2
  <2> HIDE DEF s
  <2>4. t \in Handlers /\ t.parts = buffer /\ t.hello = s.hello BY <1>2, <1>6 DEF Handlers
  <2> HIDE DEF t
  <2>5. srv'.parts = buffer /\ srv'.total = Line.n /\ srv'.hello = TRUE
    BY <1>3, <1>6, <2>3, <2>4 DEF Handlers
  <2>6. ~EndsPrompt(r, n)
    <3>1. r[n].op = "MSGP" /\ r[n].k # r[n].n BY <1>1, <1>3, <1>4, <1>11
    <3> HIDE DEF r, n
    <3> QED BY <3>1 DEF EndsPrompt
  <2>7. Runs(r, ran) BY <1>1, <1>8, <2>6, RunsKept
  <2> HIDE DEF r, n, buffer
  <2>8. \A h : h.parts = buffer /\ h.total = Line.n /\ h.hello = TRUE => Buffered(h, r)
    <3> SUFFICES ASSUME NEW h, h.parts = buffer, h.total = Line.n, h.hello = TRUE
                 PROVE  Buffered(h, r)
      OBVIOUS
    <3>1. Len(h.parts) = Line.k /\ Len(r) = n BY <1>2, <1>4
    <3>2. \A i \in 1..Len(h.parts) :
              LET m == r[(Len(r) - Len(h.parts)) + i]
              IN  m.op = "MSGP" /\ m.k = i /\ m.n = h.total /\ m.chunk = h.parts[i]
      BY <1>5, <3>1
    <3>3. Len(h.parts) <= Len(r) /\ Len(h.parts) < h.total BY <1>5, <1>11, <3>1
    <3> QED BY <3>2, <3>3 DEF Buffered
  <2> QED BY <1>7, <2>2, <2>5, <2>7, <2>8 DEF RunInv
<1>12. CASE ~(Len(buffer) > MaxChunks) /\ ~(Len(buffer) <= MaxChunks /\ Line.k < Line.n)
  <2>1. Run(buffer, Line.seq) BY <1>12 DEF AcceptPart
  <2>2. srv'.parts = <<>> /\ ran' = Append(ran, buffer) BY <1>2, <1>3, <2>1, RunParts
  <2>3. Line.k = Line.n /\ Line.n <= MaxChunks BY <1>2, <1>3, <1>12, Constants
  <2> HIDE DEF buffer, r, n
  <2>4. EndsPrompt(r, n) BY <1>1, <1>3, <1>4, <1>5, <2>3 DEF EndsPrompt
  <2>5. PromptAt(r, n) = buffer
    <3>1. PromptAt(r, n) = [i \in 1..Line.n |-> r[n - Line.n + i].chunk]
      BY <1>1, <1>4 DEF PromptAt
    <3>2. \A i \in 1..Line.n : r[n - Line.n + i].chunk = buffer[i] BY <1>5, <2>3
    <3>3. buffer \in [1..Line.n -> Chunks] BY <1>2, <2>3, LenProperties
    <3> QED BY <3>1, <3>2, <3>3
  <2>6. Runs(r, Append(ran, buffer)) BY <1>1, <1>2, <1>8, <2>4, <2>5, RunsMore DEF r, n
  <2> QED BY <1>7, <2>2, <2>6 DEF RunInv, Buffered
<1> HIDE DEF buffer
<1> QED BY <1>9, <1>10, <1>11, <1>12

LEMMA ServerRunsOnly ==
  ASSUME TypeInv, RunInv, ServerNext PROVE RunInv'
<1>1. CASE Accepts BY <1>1, HelloRuns, MsgRuns, PartRuns DEF Accepts
<1>2. CASE ~Accepts
  <2>1. SameParts(srv, srv') /\ accepted' = accepted /\ ran' = ran BY <1>2, OthersParts
  <2>2. Buffered(srv, accepted) /\ Runs(accepted, ran) BY DEF RunInv
  <2>3. Buffered(srv', accepted) BY <2>1, <2>2, BufferedSame
  <2> QED BY <2>1, <2>2, <2>3 DEF RunInv
<1> QED BY <1>1, <1>2

LEMMA InitRuns == Init => RunInv
<1> SUFFICES ASSUME Init PROVE RunInv
  OBVIOUS
<1>1. accepted = <<>> /\ ran = <<>> /\ srv.parts = <<>>
  BY DEF Init, ServerInit, NewHandler
<1>2. Ends(<<>>) = {} BY DEF Ends
<1>3. Runs(<<>>, <<>>) BY <1>2, FS_EmptySet, EmptySeq DEF Runs
<1> QED BY <1>1, <1>3 DEF RunInv, Buffered

LEMMA NextRuns == TypeInv /\ RunInv /\ [Next]_vars => RunInv'
<1> SUFFICES ASSUME TypeInv, RunInv, [Next]_vars PROVE RunInv'
  OBVIOUS
<1>1. CASE PeerNext BY <1>1, PeerStep DEF RunInv, serverVars
<1>2. CASE ServerNext /\ UNCHANGED peer BY <1>2, ServerRunsOnly
<1>3. CASE UNCHANGED vars BY <1>3 DEF RunInv, vars, serverVars
<1> QED BY <1>1, <1>2, <1>3 DEF Next

\* The prompts that run are exactly those that stand in the accepted frames: a
\* MSG, or the parts 1 to n of one MSGP prompt in a row, each once, in order, and
\* none longer than the limit (native_mode's part_buffer, MAX_PROMPT).
THEOREM RunsAccepted == Spec => []RunsWhatWasAccepted
<1>1. RunInv => RunsWhatWasAccepted BY DEF RunInv, Runs, Ends, RunsWhatWasAccepted
<1> QED BY <1>1, InitType, NextType, InitRuns, NextRuns, PTL DEF Spec
=============================================================================
