----------------------------- MODULE NativeLink -----------------------------
(***************************************************************************)
(* The Newton's chat client talking to the host's native_mode: both ends,  *)
(* the user's taps, slow acknowledgements (the host's one-second timeout   *)
(* may pass at any moment), lost connections and reconnects.               *)
(*                                                                         *)
(* When the client hangs up, the old handler still has to notice; nothing  *)
(* it writes reaches the client any more, so it counts as closed at once.  *)
(***************************************************************************)
EXTENDS NativeServer, NewtonClient

\* The client refuses to send what the host would: kMaxPrompt = MAX_PROMPT.
ASSUME NativeLinkAssumption == LongParts <= MaxChunks

vars == <<toServer, toClient, serverVars, clientVars>>

Init ==
    /\ toServer = <<>>
    /\ toClient = <<>>
    /\ ServerInit
    /\ ClientInit

HandlerEnds ==
    /\ srv' = [srv EXCEPT !.pc = "closed"]
    /\ UNCHANGED <<accepted, ran, sent>>

\* A tap that reconnects leaves the old handler behind.
UserTaps ==
    /\ Taps
    /\ IF cli'.pc = "dialing" THEN HandlerEnds ELSE UNCHANGED serverVars

\* handle() starts with fresh state for each TCP connection.
Connects ==
    /\ Dialed
    /\ srv' = NewHandler
    /\ accepted' = <<>>
    /\ sent' = <<>>
    /\ UNCHANGED ran

ConnectFails == DialFails /\ UNCHANGED serverVars

\* The host closed its end and the client has read everything before that.
EndOfStream == srv.pc = "closed" /\ toClient = <<>> /\ Dropped /\ UNCHANGED serverVars

LinkLost == Dropped /\ HandlerEnds

RadioOff == RadioExpired /\ HandlerEnds

ClientReads == HandleLine /\ UNCHANGED serverVars

ServerRuns == ServerNext /\ UNCHANGED clientVars

Next ==
    \/ ServerRuns \/ ClientReads \/ UserTaps
    \/ Connects \/ ConnectFails
    \/ EndOfStream \/ LinkLost \/ RadioOff

Spec == Init /\ [][Next]_vars

\* Both event loops keep running, and the dial ends one way or the other.  The
\* user, the timeouts, the losses and the progress notes owe nothing.
ClientFairly == ClientReads \/ EndOfStream \/ Connects \/ ConnectFails

Fairness ==
    /\ WF_vars(ServerFairly /\ UNCHANGED clientVars)
    /\ WF_vars(ClientFairly)

FairSpec == Spec /\ Fairness

-----------------------------------------------------------------------------
(* Properties.                                                             *)

TypeOK ==
    /\ srv.pc \in {"idle", "send", "await", "agent", "closed"}
    /\ srv.lastRx \in 0..SeqSpace /\ srv.txSeq \in 0..SeqSpace
    /\ srv.tries \in 0..(FrameRetries + 1) /\ srv.beats \in 0..MaxProgress
    /\ srv.pc \in {"send", "await"} <=> srv.todo # <<>> /\ srv.pc # "closed"
    /\ cli.pc \in {"down", "dialing", "up"}
    /\ cli.ready \in BOOLEAN /\ cli.inFlight \in BOOLEAN
    /\ cli.txSeq \in 0..SeqSpace /\ cli.draft \in 0..SeqSpace
    /\ cli.partIndex \in 0..LongParts
    /\ cli.pc # "up" => ~cli.ready /\ ~cli.inFlight /\ toServer = <<>> /\ toClient = <<>>

\* Up to immediate repeats, what the client applies is what the host sent, in
\* order and without gaps (send_frame against HandleLine).
Link == INSTANCE ReliableLink WITH delivered <- got
DeliversInOrder == Link!Spec

\* A prompt that runs is one the user issued, whole; none runs twice or after a
\* later one (native_mode's MSGP buffer and BUSY, Send, pendingPrompt).
RunsAsIssued ==
    /\ \A i \in DOMAIN ran : ran[i] = issued[ran[i][1].id]
    /\ \A i, j \in DOMAIN ran : i < j => ran[i][1].id < ran[j][1].id

\* Once the client has the ACK of a prompt's last part, the prompt did run.
AckedPromptRan ==
    cli.inFlight /\ cli.draft = NoSeq =>
        ran # <<>> /\ ran[Len(ran)] = issued[Len(issued)]

\* A prompt runs exactly as the user issued it -- never cut, merged with parts
\* of another, or run twice -- whatever was NAKed, queued across a reconnect or
\* abandoned between two parts; and what was acknowledged to the end did run.
PromptsRunWhole == RunsAsIssued /\ AckedPromptRan

\* A reply in the transcript is a run of lines of one turn, in order and without
\* a gap between two of them, and each turn is shown at most once, in turn order:
\* whatever frames are resent and even when the user sends again or reconnects in
\* mid-reply. Send clears the reply gathered so far (Main.newt:1695), so the run may
\* lack the first lines of its turn; that no frame before the PROMPT is skipped is
\* DeliversInOrder.
RepliesShownOnce ==
    /\ \A e \in DOMAIN shown : \A i \in 1..(Len(shown[e]) - 1) :
           LET a == shown[e][i]
               b == shown[e][i + 1]
           IN  a.turn = b.turn /\ b.part \in {a.part, a.part + 1}
    /\ \A d, e \in DOMAIN shown :
           d < e /\ shown[d] # <<>> /\ shown[e] # <<>> => shown[d][1].turn < shown[e][1].turn

\* No turn hangs: whatever the agent, the link and the user do, the client
\* stops waiting, by a PROMPT, an error, a NAK or the end of the connection.
TurnsEnd == []<>~cli.inFlight

\* "A receiver remembers the last accepted sequence, ACKs that duplicate again,
\* and applies it only once" (docs/phase3-protocol.md:79): a repeated frame
\* leaves the replies of the client as they are.  The code violates this, so
\* no configuration lists it.
AppliedOnce == [][ClientReads /\ Repeated => UNCHANGED <<cli.resp, shown>>]_vars
=============================================================================
