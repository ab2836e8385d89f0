---------------------------- MODULE MCNativePeer ----------------------------
(* Small instances of NativePeer.                                          *)
EXTENDS NativePeer

\* Parts in and out of order, of prompts of two and three parts (three exceed
\* the prompt limit), and one that is no part at all.
AllParts == {<<1, 2>>, <<2, 2>>, <<2, 1>>, <<1, 3>>, <<2, 3>>, <<3, 3>>}

\* One prompt of two parts.
TwoParts == {<<1, 2>>, <<2, 2>>}
=============================================================================
