---------------------------- MODULE MCChatStream ----------------------------
(***************************************************************************)
(* Model-checking instance of ChatStream: two concurrent SendMessage calls *)
(* and one ListenForMessages stream on one conversation.                  *)
(***************************************************************************)
EXTENDS ChatStream

CONSTANTS s1, s2, l1

MCSenders == {s1, s2}
MCListeners == {l1}

=============================================================================
