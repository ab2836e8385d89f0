-------------------------------- MODULE Wire --------------------------------
(***************************************************************************)
(* The native chat connection (docs/phase3-protocol.md): one TCP stream    *)
(* each way, so lines are neither lost nor reordered while it is open.     *)
(* A line is a member of a small set, not a string; framing and checksums  *)
(* reduce to the `fault` the host's parse_frame would report.              *)
(***************************************************************************)
EXTENDS Naturals, Sequences

CONSTANTS
    SeqSpace       \* sequence numbers are 0..SeqSpace-1 (100 in the code)

ASSUME WireAssumption == SeqSpace \in Nat /\ SeqSpace > 1

VARIABLES toServer, toClient

NoSeq == SeqSpace                      \* no sequence number: Python's None
After(seq) == (seq + 1) % SeqSpace

AckLine(seq) == [kind |-> "ACK", seq |-> seq]
NakLine(seq, why) == [kind |-> "NAK", seq |-> seq, why |-> why]

\* A client frame: HELLO, MSG (one chunk), or part k of n of an MSGP prompt.
ClientFrame(seq, op, k, n, chunk) ==
    [kind |-> "FRAME", seq |-> seq, op |-> op, k |-> k, n |-> n,
     chunk |-> chunk, fault |-> "none"]

\* What the host has to say: a STAT (READY, THINKING, PROGRESS, ERROR), part
\* `part` of the reply of turn `turn` (TEXT), or PROMPT.
Say(op, turn, part) == [op |-> op, turn |-> turn, part |-> part]
HostFrame(seq, say) ==
    [kind |-> "FRAME", seq |-> seq, op |-> say.op, turn |-> say.turn, part |-> say.part]

\* A prompt is the sequence of its chunks; a chunk says which prompt and part
\* it is, and whether that prompt is a slash command.
Chunk(id, part, cmd) == [id |-> id, part |-> part, cmd |-> cmd]
IsCommand(prompt) == prompt[1].cmd
=============================================================================
