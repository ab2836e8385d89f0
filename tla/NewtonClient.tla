---------------------------- MODULE NewtonClient ----------------------------
(***************************************************************************)
(* The chat half of the Newton package (examples/harness-client/Main.newt):*)
(* what the user may tap, what HandleLine does with each line, and what    *)
(* Stop and Connect forget.  NewtonScript callbacks do not interleave, so  *)
(* each is one action.  The radio, ink and tools slots are not here.       *)
(***************************************************************************)
EXTENDS Wire

CONSTANTS
    LongParts,     \* MSGP parts of a prompt too long for one frame
    MaxPrompts,    \* bound: prompts the user issues
    MaxDials       \* bound: connections the client opens

ASSUME NewtonClientAssumption ==
    LongParts \in Nat /\ LongParts > 1 /\ MaxPrompts \in Nat /\ MaxDials \in Nat

VARIABLES
    cli,       \* the slots of the application frame
    issued,    \* history: prompts that were sent or queued
    got,       \* history: frames applied on this connection, a repeat once
    shown      \* history: replies appended to the transcript as "Agent: ..."

clientVars == <<cli, issued, got, shown>>

Nothing == <<>>      \* nil, for pendingPrompt and pendingParts

\* draft: draftSeq; parts, partIndex: pendingParts; resp: responseText.
Stopped(c) ==
    [c EXCEPT !.pc = "down", !.ready = FALSE, !.inFlight = FALSE, !.draft = NoSeq,
              !.parts = Nothing, !.partIndex = 0, !.pending = Nothing]

ClientInit ==
    /\ cli = [pc |-> "down", ready |-> FALSE, inFlight |-> FALSE, txSeq |-> 1,
              draft |-> NoSeq, parts |-> Nothing, partIndex |-> 0,
              resp |-> <<>>, pending |-> Nothing, dials |-> 0]
    /\ issued = <<>>
    /\ got = <<>>
    /\ shown = <<>>

-----------------------------------------------------------------------------
(* Sending.  Each operator gives the client after the call; Emitted gives  *)
(* the frame it wrote.                                                     *)

SendBody(c) == [c EXCEPT !.draft = c.txSeq, !.txSeq = After(@)]

SendPart(c) == SendBody([c EXCEPT !.partIndex = @ + 1])

PartFrame(c) ==
    ClientFrame(c.txSeq, "MSGP", c.partIndex + 1, Len(c.parts), c.parts[c.partIndex + 1])

\* Send: the turn begins, the reply so far is forgotten, the first frame goes.
Send(c, prompt) ==
    LET s == [c EXCEPT !.ready = FALSE, !.inFlight = TRUE, !.resp = <<>>, !.partIndex = 0]
    IN  IF Len(prompt) = 1 THEN SendBody([s EXCEPT !.parts = Nothing])
        ELSE SendPart([s EXCEPT !.parts = prompt])

FirstFrame(c, prompt) ==
    IF Len(prompt) = 1 THEN ClientFrame(c.txSeq, "MSG", 1, 1, prompt[1])
    ELSE ClientFrame(c.txSeq, "MSGP", 1, Len(prompt), prompt[1])

-----------------------------------------------------------------------------
(* The user's taps.  hangUp says whether the tap closed the connection:    *)
(* Connect begins with Stop and keeps only the queued prompt.              *)

NewPrompt(n, cmd) == [i \in 1..n |-> Chunk(Len(issued) + 1, i, cmd)]

SendNow(prompt) ==
    /\ cli' = Send(cli, prompt)
    /\ toServer' = Append(toServer, FirstFrame(cli, prompt))
    /\ UNCHANGED toClient

\* Connect; the channels of the connection it gives up are discarded.
QueueAndConnect(prompt) ==
    /\ cli.dials < MaxDials
    /\ cli' = [Stopped(cli) EXCEPT !.pc = "dialing", !.pending = prompt]
    /\ toServer' = <<>>
    /\ toClient' = <<>>

Issue(prompt) ==
    /\ Len(issued) < MaxPrompts
    /\ issued' = Append(issued, prompt)
    /\ UNCHANGED <<got, shown>>

\* SendPrompt: one turn at a time, and one queued prompt at a time.
TapSend ==
    \E n \in {1, LongParts} :
        LET prompt == NewPrompt(n, FALSE)
        IN  /\ ~cli.inFlight
            /\ Issue(prompt)
            /\ \/ cli.ready /\ SendNow(prompt)
               \/ ~cli.ready /\ cli.pending = Nothing /\ QueueAndConnect(prompt)

\* Ask, for a note that is text: a queued prompt is replaced.
TapAsk ==
    \E n \in {1, LongParts} :
        LET prompt == NewPrompt(n, FALSE)
        IN  /\ ~cli.inFlight
            /\ Issue(prompt)
            /\ \/ cli.ready /\ SendNow(prompt)
               \/ ~cli.ready /\ QueueAndConnect(prompt)

\* NewChat looks at ready only, so mid-turn it drops the connection.
TapNew ==
    LET prompt == NewPrompt(1, TRUE)
    IN  /\ Issue(prompt)
        /\ \/ cli.ready /\ SendNow(prompt)
           \/ ~cli.ready /\ QueueAndConnect(prompt)

-----------------------------------------------------------------------------
(* HandleLine.                                                             *)

Hears == cli.pc = "up" /\ toClient # <<>> /\ toClient' = Tail(toClient)
Heard == Head(toClient)

\* The ACK of the draft releases the next part, or ends the prompt's upload.
HearAck ==
    /\ Hears
    /\ Heard.kind = "ACK" /\ Heard.seq = cli.draft
    /\ LET c == [cli EXCEPT !.draft = NoSeq]
       IN  IF cli.partIndex < Len(cli.parts)
           THEN cli' = SendPart(c) /\ toServer' = Append(toServer, PartFrame(c))
           ELSE cli' = [c EXCEPT !.parts = Nothing] /\ UNCHANGED toServer
    /\ UNCHANGED <<issued, got, shown>>

HearOtherAck ==
    /\ Hears
    /\ Heard.kind = "ACK" /\ Heard.seq # cli.draft
    /\ UNCHANGED <<clientVars, toServer>>

\* A NAK aborts the turn, whichever frame it names.
HearNak ==
    /\ Hears
    /\ Heard.kind = "NAK"
    /\ cli' = [cli EXCEPT !.draft = NoSeq, !.parts = Nothing, !.partIndex = 0,
                          !.inFlight = FALSE, !.ready = TRUE]
    /\ UNCHANGED <<issued, got, shown, toServer>>

Hear(op) == Hears /\ Heard.kind = "FRAME" /\ Heard.op = op

Repeated == got # <<>> /\ got[Len(got)] = Heard

\* Every frame is acknowledged and applied; no sequence number is compared.
Apply(frames) ==
    /\ toServer' = toServer \o <<AckLine(Heard.seq)>> \o frames
    /\ got' = IF Repeated THEN got ELSE Append(got, Heard)
    /\ UNCHANGED issued

\* STAT READY: the handshake is over, or a command's reply begins.  A queued
\* prompt goes out now, cleared first.
HearReady ==
    /\ Hear("READY")
    /\ LET c == [cli EXCEPT !.ready = TRUE, !.pending = Nothing]
       IN  IF cli.pending = Nothing \/ cli.inFlight
           THEN cli' = c /\ Apply(<<>>)
           ELSE cli' = Send(c, cli.pending) /\ Apply(<<FirstFrame(c, cli.pending)>>)
    /\ UNCHANGED shown

\* STAT THINKING and STAT PROGRESS only write the status line.
HearStatus ==
    /\ \E op \in {"THINKING", "PROGRESS"} : Hear(op)
    /\ Apply(<<>>)
    /\ UNCHANGED <<cli, shown>>

HearError ==
    /\ Hear("ERROR")
    /\ cli' = [cli EXCEPT !.ready = TRUE, !.inFlight = FALSE,
                          !.resp = <<[turn |-> Heard.turn, part |-> 0]>>]
    /\ Apply(<<>>)
    /\ UNCHANGED shown

HearText ==
    /\ Hear("TEXT")
    /\ cli' = [cli EXCEPT !.resp = Append(@, [turn |-> Heard.turn, part |-> Heard.part])]
    /\ Apply(<<>>)
    /\ UNCHANGED shown

HearPromptKeepingReply ==
    /\ Hear("PROMPT")
    /\ shown' = Append(shown, cli.resp)
    /\ cli' = [cli EXCEPT !.ready = TRUE, !.inFlight = FALSE]
    /\ Apply(<<>>)

HearPrompt ==
    /\ Hear("PROMPT")
    /\ shown' = Append(shown, cli.resp)
    /\ cli' = [cli EXCEPT !.resp = <<>>, !.ready = TRUE, !.inFlight = FALSE]
    /\ Apply(<<>>)

-----------------------------------------------------------------------------
(* The connection, as the client sees it.                                  *)

\* Connected, Hello, HelloMarkerSent: the marker, then HELLO as frame 00.
Dialed ==
    /\ cli.pc = "dialing"
    /\ cli' = [cli EXCEPT !.pc = "up", !.txSeq = 1, !.ready = FALSE, !.resp = <<>>,
                          !.dials = @ + 1]
    /\ toServer' = <<ClientFrame(0, "HELLO", 1, 1, Chunk(0, 0, FALSE))>>
    /\ toClient' = <<>>
    /\ got' = <<>>
    /\ UNCHANGED <<issued, shown>>

\* HandshakeFailed, Failed and its delayed Stop.
DialFails ==
    /\ cli.pc = "dialing"
    /\ cli' = Stopped(cli)
    /\ UNCHANGED <<issued, got, shown, toServer, toClient>>

\* Dropped (end of stream), or RadioExpired on an idle chat: Stop.
HangUp ==
    /\ cli' = Stopped(cli)
    /\ toServer' = <<>>
    /\ toClient' = <<>>
    /\ UNCHANGED <<issued, got, shown>>

Dropped == cli.pc = "up" /\ HangUp

RadioExpired == cli.pc = "up" /\ cli.ready /\ ~cli.inFlight /\ HangUp

HandleLine ==
    \/ HearAck \/ HearOtherAck \/ HearNak
    \/ HearReady \/ HearStatus \/ HearError \/ HearText \/ HearPrompt

Taps == TapSend \/ TapAsk \/ TapNew
=============================================================================
