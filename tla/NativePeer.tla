----------------------------- MODULE NativePeer -----------------------------
(***************************************************************************)
(* native_mode against any client that keeps the delivery rules the host   *)
(* was written for (docs/phase3-protocol.md, "Checksum and delivery"), the *)
(* way test_server.py drives it: one frame outstanding, identical resends  *)
(* on a timeout or a matching NAK, ACKs that are withheld, repeated or     *)
(* replaced by a NAK, frames damaged on the way, wrong or missing parts.   *)
(***************************************************************************)
EXTENDS NativeServer, FiniteSets

CONSTANTS
    Parts,          \* the (k, n) the peer may put in an MSGP
    MaxFrames,      \* bound: different frames the peer makes
    MaxResends      \* bound: resends in all

ASSUME NativePeerAssumption ==
    Parts \subseteq Nat \X Nat /\ MaxFrames \in Nat /\ MaxResends \in Nat

VARIABLE peer       \* current frame (or none), frames made, resends so far

vars == <<toServer, toClient, serverVars, peer>>

NoFrame == ClientFrame(NoSeq, "none", 0, 0, Chunk(0, 0, FALSE))

Init ==
    /\ toServer = <<>>
    /\ toClient = <<>>
    /\ ServerInit
    /\ peer = [frame |-> NoFrame, made |-> 0, resends |-> 0]

Offers(seq, id) ==
    {ClientFrame(seq, "HELLO", 1, 1, Chunk(id, 1, FALSE))}
    \union {ClientFrame(seq, "MSG", 1, 1, Chunk(id, 1, cmd)) : cmd \in BOOLEAN}
    \union {ClientFrame(seq, "MSGP", p[1], p[2], Chunk(id, p[1], FALSE)) : p \in Parts}

\* The frame as it arrives: intact, or damaged where parse_frame notices.
Write(frame) ==
    \E fault \in {"none", "CHECKSUM", "LENGTH"} :
        toServer' = Append(toServer, [frame EXCEPT !.fault = fault])

PeerSends ==
    /\ peer.frame = NoFrame /\ peer.made < MaxFrames
    /\ \E frame \in Offers(peer.made % SeqSpace, peer.made + 1) :
           /\ peer' = [frame |-> frame, made |-> peer.made + 1,
                      resends |-> peer.resends]
           /\ Write(frame)
    /\ UNCHANGED <<toClient, serverVars>>

MayResend == peer.frame # NoFrame /\ peer.resends < MaxResends

PeerResends ==
    /\ MayResend
    /\ peer' = [peer EXCEPT !.resends = @ + 1]
    /\ Write(peer.frame)
    /\ UNCHANGED <<toClient, serverVars>>

PeerReads == toClient # <<>> /\ toClient' = Tail(toClient)
FromHost == Head(toClient)

\* Acknowledged, or refused for what it is: on to the next frame.
PeerMovesOn ==
    /\ PeerReads
    /\ \/ FromHost = AckLine(peer.frame.seq)
       \/ FromHost \in {NakLine(peer.frame.seq, why) : why \in {"PART", "OP"}}
    /\ peer' = [peer EXCEPT !.frame = NoFrame]
    /\ UNCHANGED <<toServer, serverVars>>

\* NAKed for its transport: resend the identical bytes.
PeerNaked ==
    /\ PeerReads
    /\ FromHost.kind = "NAK" /\ FromHost.seq = peer.frame.seq
    /\ FromHost.why \notin {"PART", "OP"}
    /\ MayResend
    /\ peer' = [peer EXCEPT !.resends = @ + 1]
    /\ Write(peer.frame)
    /\ UNCHANGED serverVars

\* A line about an earlier frame, a NAK after the last resend, or a host frame
\* whose ACK is withheld.
PeerIgnores ==
    /\ PeerReads
    /\ \/ ~IsFrame(FromHost) /\ FromHost.seq # peer.frame.seq
       \/ FromHost.kind = "NAK" /\ ~MayResend
       \/ IsFrame(FromHost)
    /\ UNCHANGED <<toServer, serverVars, peer>>

PeerAnswers ==
    /\ PeerReads
    /\ IsFrame(FromHost)
    /\ \E m \in {AckLine(FromHost.seq), NakLine(FromHost.seq, "CHECKSUM")} :
           toServer' = Append(toServer, m)
    /\ UNCHANGED <<serverVars, peer>>

PeerNext ==
    PeerSends \/ PeerResends \/ PeerMovesOn \/ PeerNaked \/ PeerIgnores \/ PeerAnswers

Next == PeerNext \/ (ServerNext /\ UNCHANGED peer)

Spec == Init /\ [][Next]_vars

-----------------------------------------------------------------------------
(* Properties.                                                             *)

TypeOK ==
    /\ srv.pc \in {"idle", "send", "await", "agent", "closed"}
    /\ srv.txSeq \in 0..(SeqSpace - 1) /\ srv.lastRx \in 0..SeqSpace
    /\ srv.tries \in 0..(FrameRetries + 1)
    /\ Len(srv.parts) < MaxChunks + 1 /\ Len(srv.parts) < srv.total + 1

\* The prompts of an accepted history, defined on the history alone: entry j
\* ends a prompt if it is a MSG, or part n of n right behind parts 1..n-1 of n.
PromptAt(h, j) ==
    IF h[j].op = "MSGP" THEN [i \in 1..h[j].n |-> h[j - h[j].n + i].chunk]
    ELSE <<h[j].chunk>>

EndsPrompt(h, j) ==
    \/ h[j].op = "MSG"
    \/ /\ h[j].op = "MSGP" /\ h[j].k = h[j].n /\ h[j].n \in 1..j
       /\ h[j].n <= MaxChunks
       /\ \A i \in 1..h[j].n :
              LET m == h[j - h[j].n + i]
              IN  m.op = "MSGP" /\ m.k = i /\ m.n = h[j].n

\* The parts buffer computes exactly that: nothing else ever runs, and every
\* complete prompt does, in order (native_mode, docs/phase3-protocol.md MSGP).
RunsWhatWasAccepted ==
    LET ends == {j \in DOMAIN accepted : EndsPrompt(accepted, j)}
    IN  /\ Cardinality(ends) = Len(ran)
        /\ \A j \in ends :
               ran[Cardinality({i \in ends : i <= j})] = PromptAt(accepted, j)

\* No frame of the peer is applied twice, however often it is resent and
\* however its ACKs are delayed ("applies it only once").
AppliesOnce ==
    \A i, j \in DOMAIN accepted : accepted[i].chunk.id = accepted[j].chunk.id => i = j

\* Every turn the host starts is closed by one PROMPT before the next frame is
\* accepted, also when the progress callback or the agent fails.
TurnsClosed ==
    /\ \A i \in 1..(Len(sent) - 1) : Follows(sent[i], sent[i + 1])
    /\ srv.pc = "idle" /\ sent # <<>> =>
           Closes(sent[Len(sent)])
=============================================================================
