---------------------------- MODULE ReliableLink ----------------------------
(***************************************************************************)
(* What the ACKs, timeouts and sequence numbers of the native protocol are *)
(* for: the frames the host gives to send_frame reach the client in order, *)
(* each once and none skipped, for as long as a connection lasts.          *)
(***************************************************************************)
EXTENDS Naturals, Sequences

VARIABLES
    sent,        \* frames handed to the link on this connection
    delivered    \* frames that came out of it

vars == <<sent, delivered>>

Init == sent = <<>> /\ delivered = <<>>

Give ==
    /\ \E f \in {sent'[i] : i \in DOMAIN sent'} : sent' = Append(sent, f)
    /\ UNCHANGED delivered

Deliver ==
    /\ Len(delivered) < Len(sent)
    /\ delivered' = Append(delivered, sent[Len(delivered) + 1])
    /\ UNCHANGED sent

Reconnect == sent' = <<>> /\ delivered' = <<>>

Spec == Init /\ [][Give \/ Deliver \/ Reconnect]_vars
=============================================================================
