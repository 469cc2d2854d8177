--------------------------- MODULE MCChatHistory ----------------------------
(* ChatHistory with a short memory and short answers. *)
EXTENDS ChatHistory
=============================================================================
