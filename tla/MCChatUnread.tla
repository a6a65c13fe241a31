---------------------------- MODULE MCChatUnread ----------------------------
(***************************************************************************)
(* Model-checking instance of ChatUnread: a direct conversation between    *)
(* two users, each of whom may send and listen concurrently.               *)
(***************************************************************************)
EXTENDS ChatUnread

CONSTANTS u1, u2

MCUsers == {u1, u2}

=============================================================================
