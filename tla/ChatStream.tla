----------------------------- MODULE ChatStream -----------------------------
(***************************************************************************)
(* Live delivery of chat messages.                                         *)
(*                                                                         *)
(* Senders run usecase SendMessage: take the keyed lock of the             *)
(* conversation's message key, ZADD the encoded message, PUBLISH it on the *)
(* conversation's pub/sub channel, release the lock.                       *)
(*                                                                         *)
(* Every ListenForMessages stream l is four goroutines chained by          *)
(* unbuffered Go channels:                                                 *)
(*   h[l]  the gRPC handler: ReadConversationMessages, SetActive, spawn    *)
(*         g3, wait on `done`, return (which cancels the stream context);  *)
(*   g3[l] the service goroutine: select on ctx.Done / controller channel, *)
(*         stream.Send, close(done) on exit;                               *)
(*   g2[l] the controller goroutine: forwards usecase channel to g3 with   *)
(*         no select on ctx;                                               *)
(*   g1[l] the usecase goroutine: SUBSCRIBE, await the ack, forward        *)
(*         decoded pub/sub payloads to g2; a watcher goroutine closes the  *)
(*         pub/sub when ctx is done.                                       *)
(* The go-redis pub/sub delivers into a buffered channel of FeedCap        *)
(* messages; a message that cannot enter a full buffer is dropped after a  *)
(* timeout.                                                                *)
(***************************************************************************)
EXTENDS Naturals, Sequences, SequencesExt

CONSTANTS
    Senders,     \* concurrent SendMessage calls (gRPC handler tasks)
    Listeners,   \* concurrent ListenForMessages streams on the conversation
    MaxMsgs,     \* bound on the number of messages sent in a behaviour
    FeedCap,     \* capacity of the go-redis pub/sub message channel
    NoMsg        \* model value: a goroutine holds no message

ASSUME MaxMsgs \in Nat \ {0} /\ FeedCap \in Nat \ {0}

Msgs == 1..MaxMsgs

VARIABLES
    spc,         \* spc[s]: where sender s is in SendMessage
    smsg,        \* smsg[s]: the message sender s is sending
    nextMsg,     \* the id the next SendMessage creates (uuid.New)
    msgLock,     \* holders of lock.Lock(GetConversationMessagesKey(c))
    zset,        \* the sorted set conversations:{c}:messages, in ZADD order
    hpc,         \* hpc[l]: the ListenForMessages handler
    ctxDone,     \* ctxDone[l]: the stream context is cancelled
    doneCloses,  \* doneCloses[l]: how many times close(done) ran
    g3, g3msg,   \* service goroutine and the message it holds
    g2, g2msg,   \* controller goroutine and the message it holds
    g1, g1msg,   \* usecase goroutine and the message it holds
    watch,       \* the ctx.Done watcher goroutine of the usecase
    subscribed,  \* subscribed[l]: redis delivers PUBLISHes to l
    psClosed,    \* psClosed[l]: pubsub.Close has run
    feed,        \* feed[l]: messages delivered by redis, not yet read by g1
    stream       \* stream[l]: messages sent to the client by stream.Send

senderVars == <<spc, smsg, nextMsg, msgLock>>
listenVars == <<hpc, ctxDone, doneCloses, g3, g3msg, g2, g2msg, g1, g1msg,
                watch, subscribed, psClosed, stream>>
vars == <<senderVars, zset, listenVars, feed>>

Running(g) == g \notin {"none", "done"}

(***************************************************************************)
(* SendMessage (usecase.go): the critical section under the message lock.  *)
(***************************************************************************)
SendRequest(s) ==
    /\ spc[s] = "idle"
    /\ nextMsg <= MaxMsgs
    /\ smsg' = [smsg EXCEPT ![s] = nextMsg]
    /\ nextMsg' = nextMsg + 1
    /\ spc' = [spc EXCEPT ![s] = "lock"]
    /\ UNCHANGED <<msgLock, zset, listenVars, feed>>

AcquireMsgLock(s) ==
    /\ spc[s] = "lock"
    /\ msgLock = {}
    /\ msgLock' = {s}
    /\ spc' = [spc EXCEPT ![s] = "zadd"]
    /\ UNCHANGED <<smsg, nextMsg, zset, listenVars, feed>>

\* ZADD; on a store error SendMessage returns and the deferred unlock runs.
ZAdd(s) ==
    /\ spc[s] = "zadd"
    /\ \/ /\ zset' = Append(zset, smsg[s])
          /\ spc' = [spc EXCEPT ![s] = "publish"]
          /\ UNCHANGED msgLock
       \/ /\ spc' = [spc EXCEPT ![s] = "idle"]
          /\ msgLock' = {}
          /\ UNCHANGED zset
    /\ UNCHANGED <<smsg, nextMsg, listenVars, feed>>

\* PUBLISH reaches every stream whose SUBSCRIBE redis has registered; the
\* deferred unlock runs whether PUBLISH succeeds or fails.
Publish(s) ==
    /\ spc[s] = "publish"
    /\ \/ LET to == {l \in Listeners : subscribed[l]} IN
          /\ feed' = [l \in Listeners |->
                        IF l \in to THEN Append(feed[l], smsg[s]) ELSE feed[l]]
       \/ UNCHANGED feed
    /\ spc' = [spc EXCEPT ![s] = "idle"]
    /\ msgLock' = {}
    /\ UNCHANGED <<smsg, nextMsg, zset, listenVars>>

(***************************************************************************)
(* ListenForMessages (service/v1/chat.go): the handler goroutine.          *)
(***************************************************************************)
\* ReadConversationMessages fails when the caller has no copy of the
\* conversation; the handler then closes `done` and carries on: it still
\* sets the active conversation and spawns the service goroutine.
HandlerStart(l) ==
    /\ hpc[l] = "read"
    /\ \E readFails \in BOOLEAN :
          doneCloses' = [doneCloses EXCEPT ![l] = IF readFails THEN @ + 1 ELSE @]
    /\ g3' = [g3 EXCEPT ![l] = "start"]
    /\ hpc' = [hpc EXCEPT ![l] = "wait"]
    /\ UNCHANGED <<senderVars, zset, ctxDone, g3msg, g2, g2msg, g1, g1msg,
                   watch, subscribed, psClosed, feed, stream>>

\* <-done returns; the deferred DeleteActiveConversation runs and gRPC
\* cancels the stream context when the handler returns.
HandlerReturn(l) ==
    /\ hpc[l] = "wait"
    /\ doneCloses[l] >= 1
    /\ hpc' = [hpc EXCEPT ![l] = "done"]
    /\ ctxDone' = [ctxDone EXCEPT ![l] = TRUE]
    /\ UNCHANGED <<senderVars, zset, doneCloses, g3, g3msg, g2, g2msg, g1,
                   g1msg, watch, subscribed, psClosed, feed, stream>>

\* The client goes away or its deadline passes.
ClientCancel(l) ==
    /\ ~ctxDone[l]
    /\ ctxDone' = [ctxDone EXCEPT ![l] = TRUE]
    /\ UNCHANGED <<senderVars, zset, hpc, doneCloses, g3, g3msg, g2, g2msg,
                   g1, g1msg, watch, subscribed, psClosed, feed, stream>>

(***************************************************************************)
(* The service goroutine g3.                                               *)
(***************************************************************************)
\* chat.ListenForMessages spawns the controller goroutine, which calls
\* usecase Subscribe, which spawns the usecase goroutine.
G3Start(l) ==
    /\ g3[l] = "start"
    /\ g3' = [g3 EXCEPT ![l] = "select"]
    /\ g2' = [g2 EXCEPT ![l] = "recv"]
    /\ g1' = [g1 EXCEPT ![l] = "subscribe"]
    /\ UNCHANGED <<senderVars, zset, hpc, ctxDone, doneCloses, g3msg, g2msg,
                   g1msg, watch, subscribed, psClosed, feed, stream>>

\* select: case <-ctx.Done(): return (deferred close(done)).
G3Cancelled(l) ==
    /\ g3[l] = "select"
    /\ ctxDone[l]
    /\ g3' = [g3 EXCEPT ![l] = "done"]
    /\ doneCloses' = [doneCloses EXCEPT ![l] = @ + 1]
    /\ UNCHANGED <<senderVars, zset, hpc, ctxDone, g3msg, g2, g2msg, g1,
                   g1msg, watch, subscribed, psClosed, feed, stream>>

\* select: case out, ok := <-messages with a sender ready (rendezvous).
G3Receive(l) ==
    /\ g3[l] = "select"
    /\ g2[l] = "send"
    /\ g3msg' = [g3msg EXCEPT ![l] = g2msg[l]]
    /\ g3' = [g3 EXCEPT ![l] = "send"]
    /\ g2msg' = [g2msg EXCEPT ![l] = NoMsg]
    /\ g2' = [g2 EXCEPT ![l] = "recv"]
    /\ UNCHANGED <<senderVars, zset, hpc, ctxDone, doneCloses, g1, g1msg,
                   watch, subscribed, psClosed, feed, stream>>

\* select: the controller channel is closed (!ok): return with sendErr.
G3Closed(l) ==
    /\ g3[l] = "select"
    /\ g2[l] = "done"
    /\ g3' = [g3 EXCEPT ![l] = "done"]
    /\ doneCloses' = [doneCloses EXCEPT ![l] = @ + 1]
    /\ UNCHANGED <<senderVars, zset, hpc, ctxDone, g3msg, g2, g2msg, g1,
                   g1msg, watch, subscribed, psClosed, feed, stream>>

\* stream.Send fails once the context is gone; the error is recorded and the
\* loop continues.
G3Send(l) ==
    /\ g3[l] = "send"
    /\ stream' = [stream EXCEPT ![l] =
                    IF ctxDone[l] THEN @ ELSE Append(@, g3msg[l])]
    /\ g3' = [g3 EXCEPT ![l] = "select"]
    /\ g3msg' = [g3msg EXCEPT ![l] = NoMsg]
    /\ UNCHANGED <<senderVars, zset, hpc, ctxDone, doneCloses, g2, g2msg, g1,
                   g1msg, watch, subscribed, psClosed, feed>>

(***************************************************************************)
(* The controller goroutine g2: newMsg, ok := <-newMsgs; messages <- it.   *)
(***************************************************************************)
\* Mutant: the controller goroutine receives a message but does not
\* forward it.
G2ReceiveNoForward(l) ==
    /\ g2[l] = "recv"
    /\ g1[l] = "send"
    /\ g1msg' = [g1msg EXCEPT ![l] = NoMsg]
    /\ g1' = [g1 EXCEPT ![l] = "recv"]
    /\ UNCHANGED <<senderVars, zset, hpc, ctxDone, doneCloses, g3, g3msg,
                   g2, g2msg, watch, subscribed, psClosed, feed, stream>>

G2Receive(l) ==
    /\ g2[l] = "recv"
    /\ g1[l] = "send"
    /\ g2msg' = [g2msg EXCEPT ![l] = g1msg[l]]
    /\ g2' = [g2 EXCEPT ![l] = "send"]
    /\ g1msg' = [g1msg EXCEPT ![l] = NoMsg]
    /\ g1' = [g1 EXCEPT ![l] = "recv"]
    /\ UNCHANGED <<senderVars, zset, hpc, ctxDone, doneCloses, g3, g3msg,
                   watch, subscribed, psClosed, feed, stream>>

\* !ok: the deferred close(messages) runs.
G2Closed(l) ==
    /\ g2[l] = "recv"
    /\ g1[l] = "done"
    /\ g2' = [g2 EXCEPT ![l] = "done"]
    /\ UNCHANGED <<senderVars, zset, hpc, ctxDone, doneCloses, g3, g3msg,
                   g2msg, g1, g1msg, watch, subscribed, psClosed, feed,
                   stream>>

(***************************************************************************)
(* The usecase goroutine g1 and its watcher.                               *)
(***************************************************************************)
G1Subscribe(l) ==
    /\ g1[l] = "subscribe"
    /\ subscribed' = [subscribed EXCEPT ![l] = TRUE]
    /\ g1' = [g1 EXCEPT ![l] = "ack"]
    /\ UNCHANGED <<senderVars, zset, hpc, ctxDone, doneCloses, g3, g3msg, g2,
                   g2msg, g1msg, watch, psClosed, feed, stream>>

\* pubsub.Close: redis stops delivering; what the receive goroutine has not
\* yet placed in the buffered channel is lost.
ClosePubSub(l) ==
    /\ subscribed' = [subscribed EXCEPT ![l] = FALSE]
    /\ psClosed' = [psClosed EXCEPT ![l] = TRUE]
    /\ feed' = [feed EXCEPT ![l] = SubSeq(@, 1, IF Len(@) < FeedCap
                                                   THEN Len(@) ELSE FeedCap)]

\* pubsub.Receive(ctx): on error (cancelled context, broken connection) the
\* goroutine returns: deferred pubsub.Close, then close(messages). On the
\* ack it spawns the watcher and ranges over pubsub.Channel().
G1Ack(l) ==
    /\ g1[l] = "ack"
    /\ \/ /\ ClosePubSub(l)
          /\ g1' = [g1 EXCEPT ![l] = "done"]
          /\ UNCHANGED watch
       \/ /\ ~ctxDone[l]
          /\ watch' = [watch EXCEPT ![l] = "wait"]
          /\ g1' = [g1 EXCEPT ![l] = "recv"]
          /\ UNCHANGED <<subscribed, psClosed, feed>>
    /\ UNCHANGED <<senderVars, zset, hpc, ctxDone, doneCloses, g3, g3msg, g2,
                   g2msg, g1msg, stream>>

\* One iteration of `for c := range pubsub.Channel()`: decode the payload
\* (always a message SendMessage encoded) and go on to `messages <- msg`;
\* when the channel is closed and drained, return (close(messages)).
G1Recv(l) ==
    /\ g1[l] = "recv"
    /\ \/ /\ feed[l] # <<>>
          /\ g1msg' = [g1msg EXCEPT ![l] = Head(feed[l])]
          /\ feed' = [feed EXCEPT ![l] = Tail(@)]
          /\ g1' = [g1 EXCEPT ![l] = "send"]
       \/ /\ feed[l] = <<>>
          /\ psClosed[l]
          /\ g1' = [g1 EXCEPT ![l] = "done"]
          /\ UNCHANGED <<g1msg, feed>>
    /\ UNCHANGED <<senderVars, zset, hpc, ctxDone, doneCloses, g3, g3msg, g2,
                   g2msg, watch, subscribed, psClosed, stream>>

\* go func() { <-ctx.Done(); pubsub.Close() }()
Watcher(l) ==
    /\ watch[l] = "wait"
    /\ ctxDone[l]
    /\ ClosePubSub(l)
    /\ watch' = [watch EXCEPT ![l] = "done"]
    /\ UNCHANGED <<senderVars, zset, hpc, ctxDone, doneCloses, g3, g3msg, g2,
                   g2msg, g1, g1msg, stream>>

\* go-redis: the receive goroutine cannot put a message into the full
\* channel for chanSendTimeout and drops it.
DropOnFullFeed(l) ==
    /\ Len(feed[l]) > FeedCap
    /\ feed' = [feed EXCEPT ![l] = RemoveAt(@, FeedCap + 1)]
    /\ UNCHANGED <<senderVars, zset, listenVars>>

-----------------------------------------------------------------------------
Init ==
    /\ spc = [s \in Senders |-> "idle"]
    /\ smsg = [s \in Senders |-> NoMsg]
    /\ nextMsg = 1
    /\ msgLock = {}
    /\ zset = <<>>
    /\ hpc = [l \in Listeners |-> "read"]
    /\ ctxDone = [l \in Listeners |-> FALSE]
    /\ doneCloses = [l \in Listeners |-> 0]
    /\ g3 = [l \in Listeners |-> "none"]
    /\ g2 = [l \in Listeners |-> "none"]
    /\ g1 = [l \in Listeners |-> "none"]
    /\ g3msg = [l \in Listeners |-> NoMsg]
    /\ g2msg = [l \in Listeners |-> NoMsg]
    /\ g1msg = [l \in Listeners |-> NoMsg]
    /\ watch = [l \in Listeners |-> "none"]
    /\ subscribed = [l \in Listeners |-> FALSE]
    /\ psClosed = [l \in Listeners |-> FALSE]
    /\ feed = [l \in Listeners |-> <<>>]
    /\ stream = [l \in Listeners |-> <<>>]

SenderStep(s) ==
    SendRequest(s) \/ AcquireMsgLock(s) \/ ZAdd(s) \/ Publish(s)

\* The goroutines of one stream: all of them are runnable Go code.
ListenerStep(l) ==
    \/ HandlerStart(l) \/ HandlerReturn(l)
    \/ G3Start(l) \/ G3Cancelled(l) \/ G3Receive(l) \/ G3Closed(l) \/ G3Send(l)
    \/ G2Receive(l) \/ G2Closed(l)
    \/ G1Subscribe(l) \/ G1Ack(l) \/ G1Recv(l) \/ Watcher(l)

Next ==
    \/ \E s \in Senders : SenderStep(s)
    \/ \E l \in Listeners : ListenerStep(l) \/ ClientCancel(l)
                            \/ DropOnFullFeed(l)

\* The Go scheduler eventually runs every runnable goroutine and redis
\* answers every call; clients, senders and go-redis timeouts are free.
Fairness == \A l \in Listeners : WF_vars(ListenerStep(l))

Spec == Init /\ [][Next]_vars /\ Fairness

-----------------------------------------------------------------------------
TypeOK ==
    /\ spc \in [Senders -> {"idle", "lock", "zadd", "publish"}]
    /\ smsg \in [Senders -> Msgs \cup {NoMsg}]
    /\ nextMsg \in 1..MaxMsgs + 1
    /\ msgLock \subseteq Senders
    /\ zset \in Seq(Msgs)
    /\ hpc \in [Listeners -> {"read", "wait", "done"}]
    /\ ctxDone \in [Listeners -> BOOLEAN]
    /\ doneCloses \in [Listeners -> 0..2]
    /\ g3 \in [Listeners -> {"none", "start", "select", "send", "done"}]
    /\ g2 \in [Listeners -> {"none", "recv", "send", "done"}]
    /\ g1 \in [Listeners -> {"none", "subscribe", "ack", "recv", "send", "done"}]
    /\ g3msg \in [Listeners -> Msgs \cup {NoMsg}]
    /\ g2msg \in [Listeners -> Msgs \cup {NoMsg}]
    /\ g1msg \in [Listeners -> Msgs \cup {NoMsg}]
    /\ watch \in [Listeners -> {"none", "wait", "done"}]
    /\ subscribed \in [Listeners -> BOOLEAN]
    /\ psClosed \in [Listeners -> BOOLEAN]
    /\ feed \in [Listeners -> Seq(Msgs)]
    /\ stream \in [Listeners -> Seq(Msgs)]

\* The abstract channel, seen through the sorted set and the client streams.
Channel == INSTANCE MessageChannel WITH log <- zset, delivered <- stream

Buffered(l) ==
    ToSet(SubSeq(feed[l], 1, IF Len(feed[l]) < FeedCap THEN Len(feed[l]) ELSE FeedCap))

\* Every message that entered a stream's subscription channel reaches the
\* client unless the stream's context is cancelled: the goroutine chain
\* g1 -> g2 -> g3 loses nothing.
EventualDelivery ==
    \A l \in Listeners : \A m \in Msgs :
        (m \in Buffered(l)) ~> (m \in ToSet(stream[l]) \/ ctxDone[l])

\* After a stream's context is cancelled, all its goroutines terminate
\* (ListenForMessages leaks none of them).
GoroutinesExitAfterCancel ==
    \A l \in Listeners :
        ctxDone[l] ~> (~Running(g1[l]) /\ ~Running(g2[l]) /\ ~Running(g3[l]))

=============================================================================
