---------------------------- MODULE NewtonRadio ----------------------------
(***************************************************************************)
(* The window of Main.newt on its radio: taps, the callbacks of four       *)
(* endpoints and of NIE, and the delayed calls, in any order the timers    *)
(* allow.  app is the view's frame, whose methods are in RadioHandlers.    *)
(*                                                                         *)
(* app.ep[e] is how far endpoint e has come: the asynchronous operation it *)
(* waits for, or "unbound" / "closed" once it failed and awaits disposal.  *)
(* Endpoints and NIE belong to the ROM: an operation completes or fails,   *)
(* an endpoint may fail at any time, and is silent once disposed.          *)
(***************************************************************************)
EXTENDS RadioHandlers, FiniteSets, SequencesExt

CONSTANTS
    MaxWork,     \* bounds on taps, requests of the host, STATUS and INKP lines,
    MaxFaults    \*   and on operations that fail

ASSUME RadioAssumption ==
    /\ Strips \in Nat \ {0}
    /\ {MaxWork, MaxFaults} \subseteq Nat
    /\ HeartBeat \notin 0..MaxWork

VARIABLES
    app,     \* the view's slots, its endpoints, delayed calls and grabs
    left     \* what the bounds leave

vars == <<app, left>>

Requests == 1..MaxWork
Ids == Requests \union {0, HeartBeat}
Stages == {"none", "binding", "unbound", "connecting", "closed",
           "hello", "open",
           "sent", "idle",
           "listening", "serving", "replying",
           "loading", "received"}
Delayed == {"HandshakeExpired", "RadioExpired", "Stop", "RetryBind", "InkExpired",
            "InkRebind", "InkNext", "InkStop", "ToolResume", "ToolWatch", "PkgInstallNow"}

Call == [run : Delayed, current : BOOLEAN, after : {1, 4, 5, 12, 150}, send : 0..MaxWork]
Frame ==
    [stopping : BOOLEAN, handshakeActive : BOOLEAN,
     ready : BOOLEAN, inFlight : BOOLEAN, pending : BOOLEAN, bindRetried : BOOLEAN,
     radioHeld : BOOLEAN,
     inkBusy : BOOLEAN, inkBody : BOOLEAN, inkAck : BOOLEAN, inkPart : 0..(Strips - 1),
     inkBindRetried : BOOLEAN,
     toolReady : BOOLEAN, toolStopping : BOOLEAN, toolWatching : BOOLEAN,
     toolMisses : 0..3, toolBindRetried : BOOLEAN, toolID : Ids,
     pkgQueued : BOOLEAN,
     ep : [Endpoints -> Stages], link : BOOLEAN,
     grabs : [Grabbers -> Nat], held : Nat, calls : Seq(Call),
     open : BOOLEAN, armed : BOOLEAN, lost : BOOLEAN, asks : 0..MaxWork]

TypeOK ==
    /\ app \in Frame
    /\ left \in [work : 0..MaxWork, faults : 0..MaxFaults]

Init ==
    /\ app = [stopping |-> FALSE, handshakeActive |-> FALSE,
              ready |-> FALSE, inFlight |-> FALSE, pending |-> FALSE, bindRetried |-> FALSE,
              radioHeld |-> FALSE,
              inkBusy |-> FALSE, inkBody |-> FALSE, inkAck |-> FALSE, inkPart |-> 0,
              inkBindRetried |-> FALSE,
              toolReady |-> FALSE, toolStopping |-> FALSE, toolWatching |-> FALSE,
              toolMisses |-> 0, toolBindRetried |-> FALSE, toolID |-> 0,
              pkgQueued |-> FALSE,
              ep |-> [e \in Endpoints |-> "none"], link |-> FALSE,
              grabs |-> [w \in Grabbers |-> 0], held |-> 0, calls |-> << >>,
              open |-> TRUE, armed |-> FALSE, lost |-> FALSE, asks |-> 0]
    /\ left = [work |-> MaxWork, faults |-> MaxFaults]

Spend(what) == left[what] > 0 /\ left' = [left EXCEPT ![what] = @ - 1]
Fine == UNCHANGED left
Fault == Spend("faults")

\* Endpoint e, in stage s, completes its operation (a failed one is closed).
Completes(e, s) == app.open /\ app.ep[e] = s
Closed(e) == [app EXCEPT !.ep[e] = "closed"]
Unbound(e) == [app EXCEPT !.ep[e] = "unbound"]

-----------------------------------------------------------------------------
(* Taps.                                                                   *)

\* SendPrompt: one tap is held across a reconnect, another is turned away.
TapSend ==
    /\ app.open /\ ~app.inFlight /\ Spend("work")
    /\ app.ready \/ ~app.pending
    /\ app' = IF app.ready THEN Send(app) ELSE Connect([app EXCEPT !.pending = TRUE])

\* NewChat, and Ask on a note without ink, look at neither.
TapNew ==
    /\ app.open /\ Spend("work")
    /\ app' = IF app.ready THEN Send(app) ELSE Connect([app EXCEPT !.pending = TRUE])

\* A prompt over maxPrompt is refused, and the idle timer armed.
TapTooLong ==
    /\ app.open /\ ~app.inFlight /\ app.ready /\ Spend("work")
    /\ app' = ArmRadioIdle(app)

TapAsk ==
    /\ app.open /\ ~app.inFlight /\ ~app.inkBusy /\ Spend("work")
    /\ app' = SendInk(app)

CloseWindow == app.open /\ Fine /\ app' = ViewQuitScript(app)

-----------------------------------------------------------------------------
(* NIE answers a grab.  A granted link is held until it is released,       *)
(* whether or not the callback stores it.                                  *)

Answered(who, ok) ==
    [app EXCEPT !.grabs[who] = @ - 1, !.held = IF ok THEN @ + 1 ELSE @]

GrabReports(who, Callback(_, _)) ==
    /\ app.open /\ app.grabs[who] > 0
    /\ \E ok \in BOOLEAN :
        /\ IF ok THEN Fine ELSE Fault
        /\ app' = Callback(Answered(who, ok), ok)

ChatGrab == GrabReports("chat", Grabbed)
InkGrab == GrabReports("ink", InkGrabbed)
ToolGrab == GrabReports("tool", ToolGrabbed)

-----------------------------------------------------------------------------
(* The chat endpoint.                                                      *)

ChatBind ==
    /\ Completes("chat", "binding")
    /\ \/ Fine /\ app' = Bound(app)
       \/ Fault /\ app' = BindFailed(Unbound("chat"))
       \/ Fault /\ app' = Failed(Unbound("chat"))    \* Instantiate or Bind raised

ChatConnect ==
    /\ Completes("chat", "connecting")
    /\ \/ Fine /\ app' = Connected(app)
       \/ Fault /\ app' = HandshakeFailed(Closed("chat"))

ChatHello ==
    /\ Completes("chat", "hello")
    /\ \/ Fine /\ app' = HearReady(app)
       \/ Fault /\ app' = HandshakeFailed(Closed("chat"))

\* Also of a turn that was given up: PROMPT, STAT ERROR and NAK are heard in any
\* state of the turn.
ChatTurnEnds ==
    /\ Completes("chat", "open")
    /\ IF app.inFlight THEN Fine ELSE Fault
    /\ app' = HearTurnEnd(app)

\* READY sent again by the host because its ACK was slow.
ChatReadyAgain ==
    /\ Completes("chat", "open") /\ Fault
    /\ app' = HearReady(app)

\* An output (prompt or ACK) failed.
ChatOutputFails ==
    /\ Completes("chat", "open") /\ Fault
    /\ app' = Failed(Closed("chat"))

ChatDrops ==
    /\ app.open /\ app.ep.chat \notin {"none", "closed"} /\ Fault
    /\ app' = Dropped(Closed("chat"))

-----------------------------------------------------------------------------
(* The ink endpoint.                                                       *)

InkBind ==
    /\ Completes("ink", "binding")
    /\ \/ Fine /\ app' = InkBound(app)
       \/ Fault /\ app' = InkBindFailed(Unbound("ink"))
       \/ Fault /\ app' = InkFailed(Unbound("ink"))  \* Instantiate or Bind raised

InkConnect ==
    /\ Completes("ink", "connecting")
    /\ \/ Fine /\ app' = InkPost(app)
       \/ Fault /\ app' = InkFailed(Closed("ink"))

InkOutputFails ==
    /\ Completes("ink", "sent") /\ Fault
    /\ app' = InkFailed(Closed("ink"))

\* HandleInkLine: STATUS and INKP give the host more time.
InkStatus ==
    /\ Completes("ink", "sent") /\ Spend("work")
    /\ app' = ArmInkWatch(app)

InkAcknowledged ==
    /\ Completes("ink", "sent") /\ Spend("work")
    /\ ~app.inkAck /\ app.inkPart + 1 < Strips
    /\ app' = ArmInkWatch([app EXCEPT !.inkAck = TRUE])

\* The host closes after INKP, INK or INKERR, or before any of them.
InkCloses ==
    /\ Completes("ink", "sent") /\ Fine
    /\ app' = InkDropped(Closed("ink"))

InkDrops ==
    /\ app.open /\ app.ep.ink \in {"binding", "unbound", "connecting", "idle"} /\ Fault
    /\ app' = InkDropped(Closed("ink"))

-----------------------------------------------------------------------------
(* The tools endpoint.  The host sends a line only while it is listened    *)
(* for, and waits for the answer.                                          *)

ToolBind ==
    /\ Completes("tool", "binding")
    /\ \/ Fine /\ app' = ToolBound(app)
       \/ Fault /\ app' = ToolBindFailed(app)

ToolConnect == Completes("tool", "connecting") /\ Fine /\ app' = ToolConnected(app)

\* The host sends it when no request is pending: one that this Newton has not
\* answered by now is lost.
ToolPing ==
    /\ Completes("tool", "listening") /\ Fine
    /\ app' = ToolDispatch([app EXCEPT !.lost = @ \/ app.toolID \in Requests], HeartBeat, FALSE)

\* A new request, or the last one again on a new connection.
ToolRequest ==
    /\ Completes("tool", "listening")
    /\ \E install \in BOOLEAN :
        \/ Spend("work") /\ app' = ToolDispatch(app, left.work, install)
        \/ app.toolID \in Requests /\ Fine /\ app' = ToolDispatch(app, app.toolID, install)

ToolAnswered == Completes("tool", "replying") /\ Fine /\ app' = ToolReplySent(app)

\* An operation of the endpoint raised or failed, or the host closed it.
ToolDrops ==
    /\ app.open /\ app.ep.tool # "none" /\ Fault
    /\ app' = ToolRetry(app)

-----------------------------------------------------------------------------
(* The package endpoint.                                                   *)

PkgLoaded ==
    /\ Completes("pkg", "loading") /\ Fine
    /\ app' = PkgBodyReceived(app)

\* A failed operation, a bad header, or a closed connection.
PkgFails ==
    /\ app.open /\ app.ep.pkg # "none" /\ Fault
    /\ app' = PkgException(app)

-----------------------------------------------------------------------------
(* Delayed calls.  One posted earlier with no longer a delay comes first;  *)
(* nothing else is assumed of time.                                        *)

Due(i) == \A j \in 1..(i - 1) : app.calls[j].after > app.calls[i].after

Fires(i, run) == app.open /\ Fine /\ app.calls[i].run = run /\ Due(i)

Without(i) == [app EXCEPT !.calls = RemoveAt(@, i)]
Current(i) == app.calls[i].current

RunHandshakeExpired(i) ==
    Fires(i, "HandshakeExpired") /\ app' = HandshakeExpired(Without(i), Current(i))
RunRadioExpired(i) == Fires(i, "RadioExpired") /\ app' = RadioExpired(Without(i), Current(i))
\* Failed's Stop, also when something else took hold of the radio meanwhile.
RunStop(i) ==
    /\ Fires(i, "Stop")
    /\ app' = Stop([Without(i) EXCEPT !.lost = @ \/ ~Current(i)])
RunRetryBind(i) == Fires(i, "RetryBind") /\ app' = RetryBind(Without(i))
RunInkExpired(i) == Fires(i, "InkExpired") /\ app' = InkExpired(Without(i), Current(i))
RunInkRebind(i) == Fires(i, "InkRebind") /\ app' = InkRebind(Without(i))
RunInkNext(i) ==
    /\ Fires(i, "InkNext")
    /\ \E encoded \in BOOLEAN : app' = InkNext(Without(i), encoded)
RunInkStop(i) == Fires(i, "InkStop") /\ app' = InkStop(Without(i))
RunToolResume(i) == Fires(i, "ToolResume") /\ app' = ToolResume(Without(i))
RunToolWatch(i) == Fires(i, "ToolWatch") /\ app' = ToolWatch(Without(i))
RunPkgInstallNow(i) == Fires(i, "PkgInstallNow") /\ app' = PkgFinish(Without(i))

RunDelayed(i) ==
    \/ RunHandshakeExpired(i) \/ RunRadioExpired(i) \/ RunStop(i) \/ RunRetryBind(i)
    \/ RunInkExpired(i) \/ RunInkRebind(i) \/ RunInkNext(i) \/ RunInkStop(i)
    \/ RunToolResume(i) \/ RunToolWatch(i) \/ RunPkgInstallNow(i)

-----------------------------------------------------------------------------
Taps == TapSend \/ TapNew \/ TapTooLong \/ TapAsk \/ CloseWindow
Grabs == ChatGrab \/ InkGrab \/ ToolGrab
ChatSteps ==
    \/ ChatBind \/ ChatConnect \/ ChatHello \/ ChatTurnEnds
    \/ ChatReadyAgain \/ ChatOutputFails \/ ChatDrops
InkSteps ==
    \/ InkBind \/ InkConnect \/ InkOutputFails \/ InkStatus \/ InkAcknowledged
    \/ InkCloses \/ InkDrops
ToolSteps ==
    \/ ToolBind \/ ToolConnect \/ ToolPing \/ ToolRequest
    \/ ToolAnswered \/ ToolDrops
PkgSteps == PkgLoaded \/ PkgFails

Next ==
    \/ Taps \/ Grabs \/ ChatSteps \/ InkSteps \/ ToolSteps \/ PkgSteps
    \/ \E i \in DOMAIN app.calls : RunDelayed(i)

Spec == Init /\ [][Next]_vars

-----------------------------------------------------------------------------
(* Properties.                                                             *)

\* At most one watchdog chain is alive, and a connected tools channel has it
\* ("it must be started ONCE, not once per connection", Main.newt:3110).
OneWatchdog ==
    app.open =>
        /\ Cardinality({i \in DOMAIN app.calls : app.calls[i].run = "ToolWatch"})
             = IF app.toolWatching THEN 1 ELSE 0
        /\ app.toolReady => app.toolWatching

\* The link outlives the tools and package endpoints, whatever the chat and
\* the ink POST do meanwhile; it is never released more often than granted; and
\* a stopped chat has disposed its endpoints.
LinkUnderTools ==
    /\ app.ep.tool # "none" \/ app.ep.pkg # "none" => app.link
    /\ app.link => app.held > 0
    /\ app.stopping => app.ep.chat = "none" /\ app.ep.pkg = "none"

\* Closing the window drops every endpoint and the link, whatever was going on.
QuitDropsAll ==
    ~app.open => ~app.link /\ \A e \in Endpoints : app.ep[e] = "none"

\* The radio is switched off only by an idle timer armed after the last send,
\* dial or request took hold of it, and not during a turn, a note or a request.
IdleAfterLastHold ==
    [][app.radioHeld /\ ~app'.radioHeld /\ app'.open =>
        app.armed /\ ~app.inFlight /\ ~app.inkBusy /\ app.toolID \notin Requests]_vars

Queued(run) == \E i \in DOMAIN app.calls : app.calls[i].run = run /\ app.calls[i].current

\* "RadioExpired stops every endpoint after the active send/reply round has been
\* idle for five seconds" (Main.newt:2991): while the radio is held, the idle
\* timer runs, or something is under way that ends by starting it.  This is so
\* unless Failed's Stop hit a later session or the host gave up on a request.
HeldRadioWillExpire ==
    app.open /\ app.radioHeld /\ ~app.lost =>
        \/ Queued("RadioExpired")
        \/ app.inkBusy /\ Queued("InkExpired")
        \/ Queued("InkStop")
        \/ app.inFlight /\ app.ep.chat # "none"
        \/ app.grabs["chat"] > 0 \/ app.ep.chat \in {"binding", "connecting"}
        \/ Queued("RetryBind")
        \/ app.ep.chat = "hello" /\ Queued("HandshakeExpired")
        \/ app.toolID \in Requests

InkCalls == {"InkExpired", "InkRebind", "InkNext", "InkStop"}
InkSlots(f) == <<f.inkBusy, f.inkBody, f.inkPart, f.inkAck, f.ep.ink>>

Spares(i) == RunDelayed(i) => InkSlots(app') = InkSlots(app)
Earlier(i) == app.inkBusy /\ app.calls[i].send # app.asks

\* The watchdog of an earlier note never touches the note being sent.
EarlierWatchdogsHarmless ==
    [][\A i \in DOMAIN app.calls :
        Earlier(i) /\ app.calls[i].run = "InkExpired" => Spares(i)]_vars

\* "Incrementing the ticket makes every earlier delayed call harmless"
\* (Main.newt:2626): no delayed call of an earlier note does.  The code violates
\* this (the InkStop of a note that timed out), so no configuration lists it.
EarlierCallsHarmless ==
    [][\A i \in DOMAIN app.calls :
        Earlier(i) /\ app.calls[i].run \in InkCalls => Spares(i)]_vars
=============================================================================
