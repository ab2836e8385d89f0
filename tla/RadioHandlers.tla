--------------------------- MODULE RadioHandlers ---------------------------
(***************************************************************************)
(* The methods of Main.newt that share the radio: the chat connection, the *)
(* ink POST, the tools channel and the package download, four endpoints on *)
(* one NIE link.  A NewtonScript method runs to its end and calls others,  *)
(* so each is an operator from the view's frame f (`self`) to the frame it *)
(* leaves behind; the actions of NewtonRadio call them.  nil is FALSE, or  *)
(* 0 for toolID; toolID is HeartBeat for the host's id "0".                *)
(*                                                                         *)
(* AddDelayedCall appends to f.calls.  A ticket (radioSeq, inkSeq,         *)
(* handshakeSeq) only serves to tell the calls posted before its last      *)
(* increment, so a call holds whether it is current instead of a number.   *)
(* f.armed, f.asks, f.lost and the send of a call are history, read by no  *)
(* method.                                                                 *)
(***************************************************************************)
EXTENDS Integers, Sequences

CONSTANTS
    Strips,      \* inkTotalParts of a note
    HeartBeat    \* the id of the host's pings

Endpoints == {"chat", "ink", "tool", "pkg"}
Grabbers == {"chat", "ink", "tool"}

AddDelayedCall(f, run, seconds) ==
    [f EXCEPT !.calls = Append(@,
        [run |-> run, current |-> TRUE, after |-> seconds, send |-> f.asks])]

Outdate(f, runs) ==
    [f EXCEPT !.calls = [i \in DOMAIN @ |->
        IF @[i].run \in runs THEN [@[i] EXCEPT !.current = FALSE] ELSE @[i]]]

\* The increment of the ticket that the queued calls of this method carry.
NewTicket(f, run) == Outdate(f, {run})

-----------------------------------------------------------------------------
(* The link and the hold on the radio.                                     *)

InetGrabLink(f, who) == [f EXCEPT !.grabs[who] = @ + 1]

ReleaseLinkAlways(f) ==
    IF f.link THEN [f EXCEPT !.link = FALSE, !.held = @ - 1] ELSE f

\* Whoever shuts down last releases it.
ReleaseLink(f) ==
    IF f.link /\ \A e \in Endpoints : f.ep[e] = "none"
    THEN [f EXCEPT !.link = FALSE, !.held = @ - 1] ELSE f

RadioHoldKeepingTicket(f) ==
    [f EXCEPT !.radioHeld = TRUE, !.stopping = FALSE, !.armed = FALSE]

\* A new ticket makes every idle timer armed so far harmless.  A Stop carries
\* none: its mark is history.
RadioHold(f) ==
    [Outdate(f, {"RadioExpired", "Stop"})
       EXCEPT !.radioHeld = TRUE, !.stopping = FALSE, !.armed = FALSE]

ArmRadioIdle(f) ==
    IF ~f.radioHeld THEN f
    ELSE AddDelayedCall([NewTicket(f, "RadioExpired") EXCEPT !.armed = TRUE],
                        "RadioExpired", 5)

StopReleasingFirst(f) ==
    [ReleaseLink(NewTicket(f, "HandshakeExpired"))
       EXCEPT !.stopping = TRUE, !.handshakeActive = FALSE,
              !.ep = [@ EXCEPT !.chat = "none", !.ink = "none", !.pkg = "none"],
              !.ready = FALSE, !.inFlight = FALSE, !.pending = FALSE]

\* Disposes the chat, ink and package endpoints, whoever uses them.
Stop(f) ==
    [ReleaseLink([NewTicket(f, "HandshakeExpired")
                    EXCEPT !.stopping = TRUE, !.handshakeActive = FALSE,
                           !.ep = [@ EXCEPT !.chat = "none", !.ink = "none", !.pkg = "none"]])
       EXCEPT !.ready = FALSE, !.inFlight = FALSE, !.pending = FALSE]

-----------------------------------------------------------------------------
(* The tools channel.                                                      *)

ToolStop(f) == ReleaseLink([f EXCEPT !.toolReady = FALSE, !.ep.tool = "none"])

ToolRetry(f) ==
    IF f.toolStopping THEN f
    ELSE AddDelayedCall(ToolStop([f EXCEPT !.toolStopping = TRUE]), "ToolResume", 1)

ToolOpen(f) == IF f.ep.tool # "none" THEN f ELSE [f EXCEPT !.ep.tool = "binding"]

ToolStart(f) ==
    IF ~f.radioHeld THEN f
    ELSE LET g == [f EXCEPT !.toolStopping = FALSE] IN
         IF g.ep.tool # "none" THEN g
         ELSE IF g.link THEN ToolOpen(g) ELSE InetGrabLink(g, "tool")

ToolResume(f) == IF f.stopping \/ ~f.radioHeld THEN f ELSE ToolStart(f)

\* A nil toolEndpoint raises out of the method; an unconnected one raises
\* evt.ex.comm inside it.
ToolReply(f) ==
    IF f.toolID = 0 THEN ToolRetry(f)
    ELSE IF f.ep.tool = "none" THEN f
    ELSE IF f.toolReady THEN [f EXCEPT !.ep.tool = "replying"]
    ELSE ToolRetry(f)

ToolReplySent(f) ==
    IF f.toolStopping THEN f
    ELSE LET g == [f EXCEPT !.toolID = 0, !.ep.tool = "listening"] IN
         IF f.toolID = HeartBeat THEN g ELSE ArmRadioIdle(g)

ToolBindFailed(f) ==
    IF f.toolBindRetried THEN ToolRetry(f)
    ELSE AddDelayedCall(ToolStop([f EXCEPT !.toolBindRetried = TRUE, !.toolStopping = TRUE]),
                        "ToolResume", 5)

ToolBound(f) ==
    IF f.toolStopping THEN f
    ELSE [f EXCEPT !.toolBindRetried = FALSE, !.ep.tool = "connecting"]

ToolConnectedAgain(f) ==
    IF f.toolStopping THEN f
    ELSE AddDelayedCall(
            [f EXCEPT !.toolReady = TRUE, !.toolMisses = 0, !.ep.tool = "listening",
                      !.toolWatching = TRUE], "ToolWatch", 4)

\* Polls, and starts the watchdog once, not once per connection.
ToolConnected(f) ==
    IF f.toolStopping THEN f
    ELSE LET g == [f EXCEPT !.toolReady = TRUE, !.toolMisses = 0, !.ep.tool = "listening"] IN
         IF g.toolWatching THEN g
         ELSE AddDelayedCall([g EXCEPT !.toolWatching = TRUE], "ToolWatch", 4)

ToolWatchLate(f) ==
    IF f.toolStopping THEN [f EXCEPT !.toolWatching = FALSE]
    ELSE LET misses == f.toolMisses + (IF f.toolReady THEN 1 ELSE 0)
             g == [f EXCEPT !.toolMisses = misses]
         IN AddDelayedCall(IF f.toolReady /\ misses > 3 THEN ToolRetry(g) ELSE g,
                           "ToolWatch", 4)

\* Three ticks without a line reconnect; the chain ends once told to stop.
ToolWatch(f) ==
    IF f.toolStopping THEN [f EXCEPT !.toolWatching = FALSE]
    ELSE LET misses == f.toolMisses + (IF f.toolReady THEN 1 ELSE 0)
             g == [f EXCEPT !.toolMisses = misses]
         IN AddDelayedCall(IF f.toolReady /\ misses > 2 THEN ToolRetry(g) ELSE g,
                           "ToolWatch", 4)

-----------------------------------------------------------------------------
(* Package installs, asked for over the tools channel.                     *)

\* Answers under the toolID of the moment.
PkgFinish(f) == ToolReply([f EXCEPT !.ep.pkg = "none"])

\* "install already active", "active send link is gone", or a new download:
\* bind, connect, header and body.  While it lasts the host waits for the answer.
PkgInstallStart(f) ==
    IF f.ep.pkg # "none" \/ ~f.link THEN PkgFinish(f)
    ELSE [f EXCEPT !.ep.pkg = "loading", !.pkgQueued = FALSE,
                   !.ep.tool = "serving"]

\* The download is whole; it is installed a second later.
PkgBodyReceived(f) ==
    AddDelayedCall([f EXCEPT !.ep.pkg = "received", !.pkgQueued = TRUE], "PkgInstallNow", 1)

PkgException(f) == IF f.pkgQueued THEN f ELSE PkgFinish(f)

\* A request that is not a heartbeat holds the radio until it is answered.
ToolDispatch(f, id, install) ==
    LET g == [f EXCEPT !.toolMisses = 0]
        h == [IF id = HeartBeat THEN g ELSE RadioHold(g) EXCEPT !.toolID = id]
    IN IF install THEN PkgInstallStart(h) ELSE ToolReply(h)

-----------------------------------------------------------------------------
(* The chat connection.                                                    *)

OpenSession(f) == [f EXCEPT !.handshakeActive = TRUE, !.ep.chat = "binding"]

\* The endpoint is disposed by Stop a second later.  Of the two calls, posted at
\* once, the shorter stands first in the queue.
Failed(f) ==
    IF f.stopping THEN f
    ELSE ArmRadioIdle(AddDelayedCall(
            [NewTicket(f, "HandshakeExpired")
               EXCEPT !.handshakeActive = FALSE, !.pending = FALSE], "Stop", 1))

HandshakeFailed(f) ==
    IF f.stopping \/ ~f.handshakeActive THEN f
    ELSE Failed([NewTicket(f, "HandshakeExpired") EXCEPT !.handshakeActive = FALSE])

Dropped(f) ==
    IF f.stopping THEN f
    ELSE IF f.handshakeActive THEN HandshakeFailed(f)
    ELSE Stop(ArmRadioIdle(f))

Connect(f) ==
    LET g == RadioHold([Stop(f) EXCEPT !.pending = f.pending])
    IN IF g.link THEN OpenSession(g) ELSE InetGrabLink(g, "chat")

BindFailed(f) ==
    IF f.stopping THEN f
    ELSE IF f.bindRetried THEN Failed(f)
    ELSE AddDelayedCall([f EXCEPT !.bindRetried = TRUE], "RetryBind", 5)

RetryBind(f) == IF f.stopping THEN f ELSE OpenSession(f)

Bound(f) ==
    IF f.stopping THEN f ELSE [f EXCEPT !.bindRetried = FALSE, !.ep.chat = "connecting"]

\* Arms the handshake's timeout.  Hello sends the native marker, and once it is
\* out HelloMarkerSent arms the input and sends HELLO.
Connected(f) ==
    IF f.stopping THEN f
    ELSE AddDelayedCall(
            [NewTicket(f, "HandshakeExpired") EXCEPT !.ready = FALSE, !.ep.chat = "hello"],
            "HandshakeExpired", 12)

HandshakeExpired(f, current) ==
    IF f.handshakeActive /\ current THEN HandshakeFailed(f) ELSE f

HandshakeSucceeded(f) ==
    ToolStart([NewTicket(f, "HandshakeExpired") EXCEPT !.handshakeActive = FALSE])

\* Output on an endpoint that cannot send raises evt.ex.comm.
Send(f) ==
    LET g == [ToolStart(RadioHold(f)) EXCEPT !.ready = FALSE, !.inFlight = TRUE]
    IN IF f.ep.chat = "open" THEN g ELSE Failed(g)

\* STAT READY: the queued prompt goes out, or the idle timer starts.
HearReady(f) ==
    LET g == [HandshakeSucceeded(f) EXCEPT !.ready = TRUE, !.ep.chat = "open"]
        h == [g EXCEPT !.pending = FALSE]
    IN IF ~g.pending THEN ArmRadioIdle(g)
       ELSE IF h.inFlight THEN h ELSE Send(h)

\* PROMPT, STAT ERROR and NAK end the turn alike.
HearTurnEnd(f) == ArmRadioIdle([f EXCEPT !.ready = TRUE, !.inFlight = FALSE])

Grabbed(f, ok) ==
    IF f.stopping \/ f.ep.chat # "none" THEN f
    ELSE IF ~ok THEN Failed(f) ELSE OpenSession([f EXCEPT !.link = TRUE])

-----------------------------------------------------------------------------
(* The ink POST.                                                           *)

InkDone(f) == AddDelayedCall(f, "InkStop", 1)

InkFailed(f) == InkDone([f EXCEPT !.inkBusy = FALSE, !.inkBody = FALSE])

InkStopKeepingHold(f) == ReleaseLink([f EXCEPT !.ep.ink = "none", !.inkBody = FALSE])

InkStop(f) ==
    ReleaseLink(ArmRadioIdle([f EXCEPT !.ep.ink = "none", !.inkBody = FALSE]))

ArmInkWatchKeepingTicket(f) ==
    IF ~f.inkBusy THEN f ELSE AddDelayedCall(f, "InkExpired", 150)

ArmInkWatch(f) ==
    IF ~f.inkBusy THEN f
    ELSE AddDelayedCall(NewTicket(f, "InkExpired"), "InkExpired", 150)

InkExpired(f, current) ==
    IF ~current \/ ~f.inkBusy THEN f ELSE InkDone([f EXCEPT !.inkBusy = FALSE])

InkOpen(f) ==
    LET g == ToolStart(f) IN IF g.ep.ink # "none" THEN g ELSE [g EXCEPT !.ep.ink = "binding"]

SendInk(f) ==
    LET g == ArmInkWatch(
               [RadioHold(f) EXCEPT !.asks = @ + 1, !.inkPart = 0, !.inkAck = FALSE,
                                    !.inkBody = TRUE, !.inkBusy = TRUE,
                                    !.inkBindRetried = FALSE])
    IN IF g.link THEN InkOpen(g) ELSE InetGrabLink(g, "ink")

InkGrabbed(f, ok) ==
    IF f.ep.ink # "none" THEN f
    ELSE IF ~ok THEN InkFailed(f) ELSE InkOpen([f EXCEPT !.link = TRUE])

InkBindFailed(f) ==
    IF f.inkBindRetried THEN InkFailed(f)
    ELSE AddDelayedCall([f EXCEPT !.inkBindRetried = TRUE], "InkRebind", 5)

InkRebind(f) == IF ~f.inkBusy THEN f ELSE InkOpen([f EXCEPT !.ep.ink = "none"])

InkBound(f) == [f EXCEPT !.inkBindRetried = FALSE, !.ep.ink = "connecting"]

\* Without a body nothing is sent and no input is awaited.
InkPost(f) ==
    [f EXCEPT !.inkBody = FALSE, !.ep.ink = IF f.inkBody THEN "sent" ELSE "idle"]

\* The close of an acknowledged strip's connection leads to the next strip.
InkDropped(f) ==
    IF ~f.inkBusy THEN f
    ELSE IF f.inkAck /\ f.inkPart + 1 < Strips
    THEN AddDelayedCall([f EXCEPT !.inkPart = @ + 1, !.inkAck = FALSE], "InkNext", 1)
    ELSE InkDone([f EXCEPT !.inkBusy = FALSE])

\* encoded: EncodeNextInkPage found room for another strip.
InkNext(f, encoded) ==
    IF ~f.inkBusy THEN f
    ELSE LET g == [f EXCEPT !.ep.ink = "none", !.inkBody = encoded]
         IN IF encoded THEN InkOpen(g) ELSE InkFailed(g)

ToolGrabbed(f, ok) ==
    IF f.toolStopping \/ f.ep.tool # "none" THEN f
    ELSE IF ~ok THEN ToolRetry(f) ELSE ToolOpen([f EXCEPT !.link = TRUE])

\* Nothing is cut off while a turn, a note or a host request is unfinished; a
\* heartbeat in its callback only puts the same ticket off for a second.
RadioExpired(f, current) ==
    IF ~current \/ ~f.radioHeld \/ f.inFlight \/ f.inkBusy THEN f
    ELSE IF f.toolID = HeartBeat THEN AddDelayedCall(f, "RadioExpired", 1)
    ELSE IF f.toolID # 0 THEN f
    ELSE Stop(ToolStop([f EXCEPT !.radioHeld = FALSE, !.toolStopping = TRUE]))

\* A delayed call that finds the view closed raises -48809 into its guard.
ViewQuitScript(f) ==
    [Stop(ToolStop([f EXCEPT !.radioHeld = FALSE, !.toolStopping = TRUE]))
       EXCEPT !.open = FALSE, !.calls = << >>]
=============================================================================
