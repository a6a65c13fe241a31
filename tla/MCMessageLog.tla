---------------------------- MODULE MCMessageLog ----------------------------
(***************************************************************************)
(* Model-checking instance of MessageLog: two concurrent senders and one  *)
(* client paging through the history.                                      *)
(***************************************************************************)
EXTENDS MessageLog

CONSTANTS s1, s2

MCSenders == {s1, s2}

=============================================================================
