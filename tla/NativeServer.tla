---------------------------- MODULE NativeServer ----------------------------
(***************************************************************************)
(* native_mode and send_frame of server.py for one native connection: the  *)
(* main loop that accepts client frames, the MSGP buffer, and the          *)
(* stop-and-wait sender with its timeouts, retries and interleaved lines.  *)
(* The agent behind backend.chat answers, reports progress or fails.       *)
(***************************************************************************)
EXTENDS Wire

CONSTANTS
    FrameRetries,   \* FRAME_RETRIES: sends beyond the first (3 in the code)
    MaxChunks,      \* MAX_PROMPT, counted in chunks
    MaxReply,       \* bound: TEXT frames in one reply
    MaxProgress     \* bound: PROGRESS frames in one turn

ASSUME NativeServerAssumption ==
    /\ FrameRetries \in Nat /\ MaxChunks \in Nat \ {0}
    /\ MaxReply \in Nat \ {0} /\ MaxProgress \in Nat

VARIABLES
    srv,        \* the coroutine of this connection and its `state` dict
    accepted,   \* history: client frames accepted on this connection
    ran,        \* history: prompts handed to a command or the agent
    sent        \* history: frames given to send_frame on this connection

serverVars == <<srv, accepted, ran, sent>>

\* pc: "idle" in the main loop, "send" about to write Head(todo), "await" its
\* ACK, "agent" inside backend.chat, "closed" after handle's finally.
\* todo: frames the handler still has to send before it goes on to `after`.
NewHandler ==
    [pc |-> "idle", lastRx |-> NoSeq, txSeq |-> 0, hello |-> FALSE,
     parts |-> <<>>, total |-> 0, todo |-> <<>>, after |-> "idle",
     tries |-> 0, beats |-> 0]

ServerInit ==
    /\ srv = NewHandler
    /\ accepted = <<>>
    /\ ran = <<>>
    /\ sent = <<>>

Texts(turn, n) == [i \in 1..n |-> Say("TEXT", turn, i)]
Prompt(turn) == <<Say("PROMPT", turn, 0)>>
ErrorAlone(turn) == <<Say("ERROR", turn, 0)>>
ErrorReply(turn) == <<Say("ERROR", turn, 0)>> \o Prompt(turn)

Queue(s, todo, after) ==
    [s EXCEPT !.pc = "send", !.todo = todo, !.after = after, !.tries = 0]

-----------------------------------------------------------------------------
(* The main loop reads one line.                                           *)

Reads(pc) == srv.pc = pc /\ toServer # <<>> /\ toServer' = Tail(toServer)
Line == Head(toServer)
Reply(m) == toClient' = Append(toClient, m)

IsFrame(m) == m.kind = "FRAME"
Sound(m) == IsFrame(m) /\ m.fault = "none"

\* No sequence number can be recovered from a stale ACK or NAK: it is dropped.
SkipLine ==
    /\ Reads("idle")
    /\ ~IsFrame(Line)
    /\ UNCHANGED <<serverVars, toClient>>

\* parse_frame failed but the sequence number was readable.
RejectFault ==
    /\ Reads("idle")
    /\ IsFrame(Line) /\ ~Sound(Line)
    /\ Reply(NakLine(Line.seq, Line.fault))
    /\ srv' = IF Line.fault = "LENGTH" THEN [srv EXCEPT !.pc = "closed"] ELSE srv
    /\ UNCHANGED <<accepted, ran, sent>>

\* The sequence number of the last accepted frame: acknowledged, not applied.
ReAck ==
    /\ Reads("idle")
    /\ Sound(Line) /\ Line.seq = srv.lastRx
    /\ Reply(AckLine(Line.seq))
    /\ UNCHANGED serverVars

FreshOrRepeated(m) == Sound(m)
Fresh(m) == Sound(m) /\ m.seq # srv.lastRx

\* state["last_rx"] = seq, and the ACK that follows it.
Accept(m) ==
    /\ accepted' = Append(accepted, m)
    /\ Reply(AckLine(m.seq))

AcceptHello ==
    /\ Reads("idle")
    /\ Fresh(Line) /\ Line.op = "HELLO" /\ ~srv.hello
    /\ Accept(Line)
    /\ srv' = Queue([srv EXCEPT !.lastRx = Line.seq, !.hello = TRUE],
                    <<Say("READY", 0, 0)>>, "idle")
    /\ UNCHANGED <<ran, sent>>

\* A whole prompt: ctx.command answers it, or a turn of the agent starts.
Run(prompt, seq) ==
    LET turn == Len(ran) + 1
        s == [srv EXCEPT !.lastRx = seq, !.parts = <<>>, !.total = 0, !.beats = 0]
    IN  /\ ran' = Append(ran, prompt)
        /\ IF IsCommand(prompt)
           THEN \E n \in 1..MaxReply :
                    srv' = Queue(s, <<Say("READY", turn, 0)>> \o Texts(turn, n)
                                    \o Prompt(turn), "idle")
           ELSE srv' = Queue(s, <<Say("THINKING", turn, 0)>>, "agent")

\* The reset of a bare /new raised OSError (server.py:489): nobody catches it,
\* and the handler ends behind the ACK, before a line of its reply.
CommandRaises ==
    /\ srv.pc = "send" /\ srv.tries = 0
    /\ Head(srv.todo).op = "READY" /\ Head(srv.todo).turn # 0
    /\ srv' = [srv EXCEPT !.pc = "closed"]
    /\ UNCHANGED <<toServer, toClient, accepted, ran, sent>>

AcceptMsg ==
    /\ Reads("idle")
    /\ Fresh(Line) /\ Line.op = "MSG" /\ srv.hello
    /\ Accept(Line)
    /\ Run(<<Line.chunk>>, Line.seq)
    /\ UNCHANGED sent

ValidPartAnyTotal(m) ==
    /\ m.k \in 1..m.n
    /\ m.k # 1 => m.k = Len(srv.parts) + 1

\* parse_part, and the check against the buffer.
ValidPart(m) ==
    /\ m.k \in 1..m.n
    /\ m.k # 1 => m.k = Len(srv.parts) + 1 /\ m.n = srv.total

\* Part 1 restarts the buffer.
Buffer(m) == IF m.k = 1 THEN <<m.chunk>> ELSE Append(srv.parts, m.chunk)

AcceptPart ==
    /\ Reads("idle")
    /\ Fresh(Line) /\ Line.op = "MSGP" /\ srv.hello
    /\ ValidPart(Line)
    /\ Accept(Line)
    /\ LET buffer == Buffer(Line)
           s == [srv EXCEPT !.lastRx = Line.seq]
       IN  CASE Len(buffer) > MaxChunks ->
                  /\ srv' = Queue([s EXCEPT !.parts = <<>>, !.total = 0],
                                  ErrorReply(Len(ran)), "idle")
                  /\ UNCHANGED ran
             [] Len(buffer) <= MaxChunks /\ Line.k < Line.n ->
                  /\ srv' = [s EXCEPT !.parts = buffer, !.total = Line.n]
                  /\ UNCHANGED ran
             [] OTHER -> Run(buffer, Line.seq)
    /\ UNCHANGED sent

\* NAK PART leaves the buffer and last_rx alone; NAK OP answers the rest.
RejectFrame ==
    /\ Reads("idle")
    /\ Fresh(Line)
    /\ \/ /\ Line.op = "MSGP" /\ srv.hello /\ ~ValidPart(Line)
          /\ Reply(NakLine(Line.seq, "PART"))
       \/ /\ (Line.op = "HELLO") <=> srv.hello
          /\ Reply(NakLine(Line.seq, "OP"))
    /\ UNCHANGED serverVars

-----------------------------------------------------------------------------
(* send_frame.                                                             *)

TransmitRenumbered ==
    /\ srv.pc = "send"
    /\ LET frame == HostFrame((srv.txSeq + srv.tries) % SeqSpace, Head(srv.todo))
       IN  /\ Reply(frame)
           /\ sent' = IF srv.tries = 0 THEN Append(sent, frame) ELSE sent
    /\ srv' = [srv EXCEPT !.pc = "await", !.tries = @ + 1]
    /\ UNCHANGED <<toServer, accepted, ran>>

\* Write the frame: the first time, or again with the same bytes.
Transmit ==
    /\ srv.pc = "send"
    /\ LET frame == HostFrame(srv.txSeq, Head(srv.todo))
       IN  /\ Reply(frame)
           /\ sent' = IF srv.tries = 0 THEN Append(sent, frame) ELSE sent
    /\ srv' = [srv EXCEPT !.pc = "await", !.tries = @ + 1]
    /\ UNCHANGED <<toServer, accepted, ran>>

Acked(s) ==
    LET rest == Tail(s.todo)
    IN  [s EXCEPT !.pc = IF rest = <<>> THEN s.after ELSE "send",
                  !.todo = rest, !.txSeq = After(@), !.tries = 0]

AckArrives ==
    /\ Reads("await")
    /\ Line = AckLine(srv.txSeq)
    /\ srv' = Acked(srv)
    /\ UNCHANGED <<toClient, accepted, ran, sent>>

RetryOnceMore(s) ==
    IF s.tries <= FrameRetries + 1 THEN [s EXCEPT !.pc = "send"]
    ELSE [s EXCEPT !.pc = "closed"]

\* send_frame ends without an ACK.  In the progress callback that is caught in
\* native_mode as a failed turn, and the connection lives on; anywhere else the
\* ConnectionError ends it.
GivenUp(s) ==
    IF Head(s.todo).op = "PROGRESS" THEN Queue(s, ErrorReply(Head(s.todo).turn), "idle")
    ELSE [s EXCEPT !.pc = "closed"]

\* Another attempt, or ConnectionError after the last one.
Retry(s) == IF s.tries <= FrameRetries THEN [s EXCEPT !.pc = "send"] ELSE GivenUp(s)

\* FRAME_TIMEOUT passed without a line.
FrameTimeout ==
    /\ srv.pc = "await"
    /\ srv' = Retry(srv)
    /\ UNCHANGED <<toServer, toClient, accepted, ran, sent>>

\* CODEX_TIMEOUT passed while the progress callback awaits an ACK: the agent is
\* killed and the callback is cancelled with it.
TurnTimesOut ==
    /\ srv.pc = "await" /\ Head(srv.todo).op = "PROGRESS"
    /\ srv' = GivenUp(srv)
    /\ UNCHANGED <<toServer, toClient, accepted, ran, sent>>

NakArrives ==
    /\ Reads("await")
    /\ Line.kind = "NAK" /\ Line.seq = srv.txSeq
    /\ srv' = Retry(srv)
    /\ UNCHANGED <<toClient, accepted, ran, sent>>

\* An ACK or NAK of an earlier frame: no sequence number, ignored.
StaleLine ==
    /\ Reads("await")
    /\ ~IsFrame(Line) /\ Line.seq # srv.txSeq
    /\ UNCHANGED <<serverVars, toClient>>

BusyAccepts(m) == IF Sound(m) THEN AckLine(m.seq) ELSE NakLine(m.seq, m.fault)

BusyReply(m) ==
    IF ~Sound(m) THEN NakLine(m.seq, m.fault)
    ELSE IF m.seq = srv.lastRx THEN AckLine(m.seq) ELSE NakLine(m.seq, "BUSY")

\* A client frame while a frame of ours is unacknowledged.
FrameWhileBusy ==
    /\ Reads("await")
    /\ IsFrame(Line)
    /\ Reply(BusyReply(Line))
    /\ UNCHANGED serverVars

-----------------------------------------------------------------------------
(* backend.chat, under TURN_LOCK.                                          *)

AgentProgress ==
    /\ srv.pc = "agent" /\ srv.beats < MaxProgress
    /\ srv' = [Queue(srv, <<Say("PROGRESS", Len(ran), 0)>>, "agent")
               EXCEPT !.beats = @ + 1]
    /\ UNCHANGED <<toServer, toClient, accepted, ran, sent>>

AgentReplies ==
    /\ srv.pc = "agent"
    /\ \E n \in 1..MaxReply :
           srv' = Queue(srv, Texts(Len(ran), n) \o Prompt(Len(ran)), "idle")
    /\ UNCHANGED <<toServer, toClient, accepted, ran, sent>>

AgentFailsSilently ==
    /\ srv.pc = "agent"
    /\ srv' = [srv EXCEPT !.pc = "idle"]
    /\ UNCHANGED <<toServer, toClient, accepted, ran, sent>>

AgentFails ==
    /\ srv.pc = "agent"
    /\ srv' = Queue(srv, ErrorReply(Len(ran)), "idle")
    /\ UNCHANGED <<toServer, toClient, accepted, ran, sent>>

-----------------------------------------------------------------------------
MainLoop ==
    \/ SkipLine \/ RejectFault \/ ReAck
    \/ AcceptHello \/ AcceptMsg \/ AcceptPart \/ RejectFrame

Sender == Transmit \/ AckArrives \/ NakArrives \/ StaleLine \/ FrameWhileBusy

Agent == AgentReplies \/ AgentFails

ServerNext ==
    \/ MainLoop \/ CommandRaises
    \/ Sender \/ FrameTimeout
    \/ Agent \/ AgentProgress \/ TurnTimesOut

\* What the event loop must eventually run: buffered lines are read, frames
\* written, and backend.chat ends (CODEX_TIMEOUT).  Not the timeouts.
ServerFairly == MainLoop \/ Sender \/ Agent

-----------------------------------------------------------------------------
(* What native_mode may say after what.                                    *)

\* What one frame may be followed by: THINKING or READY opens a turn, TEXT
\* lines come in order, and only PROMPT closes it.  READY of turn 0 answers HELLO.
Closes(a) == a.op = "PROMPT" \/ (a.op = "READY" /\ a.turn = 0)

Follows(a, b) ==
    \/ Closes(a) /\ b.op \in {"THINKING", "READY", "ERROR"}
    \/ /\ b.turn = a.turn
       /\ \/ a.op = "READY" /\ a.turn # 0 /\ b.op = "TEXT" /\ b.part = 1
          \/ /\ a.op \in {"THINKING", "PROGRESS"}
             /\ b.op \in {"PROGRESS", "TEXT", "ERROR"} /\ b.part <= 1
          \/ a.op = "TEXT" /\ b.op = "PROMPT"
          \/ a.op = "TEXT" /\ b.op = "TEXT" /\ b.part = a.part + 1
          \/ a.op = "ERROR" /\ b.op = "PROMPT"
=============================================================================
