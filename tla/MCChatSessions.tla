--------------------------- MODULE MCChatSessions ---------------------------
(* Small instances of ChatSessions: one connection at a time, or two that  *)
(* overlap, as when the Newton reconnects during a turn.                   *)
EXTENDS ChatSessions
=============================================================================
