--------------------------- MODULE MessageChannel ---------------------------
(***************************************************************************)
(* What a conversation's message channel promises, with no locks, pub/sub  *)
(* or goroutines: SendMessage appends a new message to the conversation's  *)
(* history in one step, and each live stream hands its client some of the *)
(* stored messages, each at most once and in the order of the history.    *)
(* A stream may skip messages (it subscribed late, or a message was lost   *)
(* on the way), but never goes back in the history.                        *)
(*                                                                         *)
(* ChatStream implements this module with log <- zset and                  *)
(* delivered <- stream.                                                    *)
(***************************************************************************)
EXTENDS Naturals, Sequences, SequencesExt

CONSTANTS
    Msgs,        \* the messages that can be sent
    Listeners    \* the live streams on the conversation

VARIABLES
    log,         \* the conversation's history, in storage order
    delivered    \* delivered[l]: what stream l has handed to its client

chanVars == <<log, delivered>>

\* The position of a stored message in the history.
PosInLog(m) == CHOOSE i \in DOMAIN log : log[i] = m

\* ucs.SendMessage: a message not sent before joins the history.
Store(m) ==
    /\ m \notin ToSet(log)
    /\ log' = Append(log, m)
    /\ UNCHANGED delivered

\* stream.Send of the ListenForMessages loop: a stored message later in
\* the history than everything the stream has delivered so far.
Deliver(l, m) ==
    /\ m \in ToSet(log)
    /\ delivered[l] # <<>> => PosInLog(Last(delivered[l])) < PosInLog(m)
    /\ delivered' = [delivered EXCEPT ![l] = Append(@, m)]
    /\ UNCHANGED log

ChanInit ==
    /\ log = <<>>
    /\ delivered = [l \in Listeners |-> <<>>]

ChanNext ==
    \/ \E m \in Msgs : Store(m)
    \/ \E l \in Listeners, m \in Msgs : Deliver(l, m)

ChanSpec == ChanInit /\ [][ChanNext]_chanVars

=============================================================================
