---------------------------- MODULE Notifications ----------------------------
(***************************************************************************)
(* Notification fan-out to one receiver R: notifications.Manager.Send      *)
(* (called by LikePost, LikeComment, CreateComment for each liker), the    *)
(* presence set of usersession, PushManager.Push/Subscribe and the         *)
(* ListenForNotifications stream of each of R's devices.                   *)
(*                                                                         *)
(* A notification is its id, and the payload PUBLISHed for it is the id:  *)
(* gob encodes every stored notification, and the payload decodes again.  *)
(* Send hands Push a nil notification when createNotification failed; gob  *)
(* Encoder.Encode panics on a nil pointer, no gRPC interceptor of the      *)
(* backend recovers it, and the backend process dies with every stream.    *)
(***************************************************************************)
EXTENDS Naturals, Sequences

CONSTANTS
    Devices,    \* R's browsers
    Likers,     \* users whose actions notify R (never R itself)
    MaxSends    \* bound on the number of Send calls

Notifs == 1..MaxSends
NoNotif == 0

VARIABLES
    rows,       \* rows[l]: notifications stored for l's event on R's post
    nextN,      \* the next notification id (uuid.NewString)
    spc,        \* spc[l]: where l's Send call is
    snotif,     \* snotif[l]: what createNotification returned (NoNotif on error)
    online,     \* R \in the user:online: set
    ctxDone,    \* ctxDone[d]: the stream context of d is cancelled
    svc,        \* svc[d]: the ListenForNotifications goroutine
    sub,        \* sub[d]: redis delivers R's push channel to d's subscription
    feed,       \* feed[d]: payloads delivered and not yet ranged over
    pg,         \* pg[d]: the PushManager.Subscribe goroutine
    pmsg,       \* pmsg[d]: the notification pg[d] is sending
    closes,     \* closes[d]: close() calls on d's notifications channel
    ended,      \* ended[d]: ListenForNotifications of d has returned
    received,   \* received[d]: what stream.Send delivered to d
    crashed     \* the backend process has died of a panic

vars == <<rows, nextN, spc, snotif, online, ctxDone, svc, sub, feed, pg,
          pmsg, closes, ended, received, crashed>>

streamVars == <<ctxDone, svc, sub, feed, pg, pmsg, closes, ended, received>>

-----------------------------------------------------------------------------
(* Manager.Send                                                            *)

\* shouldSendNotification: GetNotification for the previous one; when one
\* exists, ResendConditionAfter(5 * time.Minute) decides (whether five
\* minutes have passed is the environment's choice).
SendCheck(l) ==
    /\ spc[l] = "idle"
    /\ nextN <= MaxSends
    /\ \E elapsed \in BOOLEAN :
          spc' = [spc EXCEPT ![l] = IF rows[l] = 0 \/ elapsed THEN "create" ELSE "idle"]
    /\ UNCHANGED <<rows, nextN, snotif, online, streamVars, crashed>>

\* createNotification: INSERT; its error is ignored and Send goes on with
\* a nil notification.
SendCreate(l) ==
    /\ spc[l] = "create"
    /\ \/ /\ rows' = [rows EXCEPT ![l] = @ + 1]
          /\ snotif' = [snotif EXCEPT ![l] = nextN]
       \/ /\ snotif' = [snotif EXCEPT ![l] = NoNotif]
          /\ UNCHANGED rows
    /\ nextN' = nextN + 1
    /\ spc' = [spc EXCEPT ![l] = "online"]
    /\ UNCHANGED <<online, streamVars, crashed>>

\* usersession.IsOnline: SISMEMBER; offline users get nothing (email TODO).
SendOnline(l) ==
    /\ spc[l] = "online"
    /\ spc' = [spc EXCEPT ![l] = IF online THEN "push" ELSE "idle"]
    /\ UNCHANGED <<rows, nextN, snotif, online, streamVars, crashed>>

\* PushManager.Push: EncodeBinaryNotification, then PUBLISH to every
\* subscribed device. Encoding a nil notification panics: the process
\* dies, and the client of every notification stream sees it end.
SendPush(l) ==
    /\ spc[l] = "push"
    /\ \/ /\ snotif[l] # NoNotif
          /\ feed' = [d \in Devices |-> IF sub[d] THEN Append(feed[d], snotif[l]) ELSE feed[d]]
          /\ spc' = [spc EXCEPT ![l] = "idle"]
          /\ UNCHANGED <<ended, crashed>>
       \/ /\ snotif[l] = NoNotif
          /\ crashed' = TRUE
          /\ ended' = [d \in Devices |-> TRUE]
          /\ UNCHANGED <<feed, spc>>
    /\ UNCHANGED <<rows, nextN, snotif, online, ctxDone, svc, sub, pg, pmsg,
                   closes, received>>

-----------------------------------------------------------------------------
(* SetUserOnline / SetUserOffline: SADD / SREM R, whichever device calls. *)

SetUserOnline(d) ==
    /\ online' = TRUE
    /\ UNCHANGED <<rows, nextN, spc, snotif, streamVars, crashed>>

SetUserOffline(d) ==
    /\ online' = FALSE
    /\ UNCHANGED <<rows, nextN, spc, snotif, streamVars, crashed>>

-----------------------------------------------------------------------------
(* ListenForNotifications of device d.                                     *)

\* The handler spawns its goroutine, which calls nm.Listen = Subscribe:
\* SUBSCRIBE, then Receive for the confirmation. On a Receive error
\* (the context is already cancelled) Subscribe closes the channel and
\* still starts its goroutine, whose deferred close runs again.
Subscribe(d) ==
    /\ svc[d] = "listen"
    /\ sub' = [sub EXCEPT ![d] = TRUE]
    /\ closes' = [closes EXCEPT ![d] = IF ctxDone[d] THEN 1 ELSE 0]
    /\ pg' = [pg EXCEPT ![d] = "recv"]
    /\ svc' = [svc EXCEPT ![d] = "select"]
    /\ UNCHANGED <<rows, nextN, spc, snotif, online, ctxDone, feed, pmsg, ended, received, crashed>>

\* The Subscribe goroutine ranges over pubsub.Channel() and decodes each
\* payload (every payload Push wrote decodes); the watcher's pubsub.Close
\* on cancellation ends the range, and the deferred close(notifications)
\* runs.
PushRecv(d) ==
    /\ pg[d] = "recv"
    /\ \/ /\ feed[d] # <<>>
          /\ feed' = [feed EXCEPT ![d] = Tail(@)]
          /\ pg' = [pg EXCEPT ![d] = "send"]
          /\ pmsg' = [pmsg EXCEPT ![d] = Head(feed[d])]
          /\ UNCHANGED <<closes, sub>>
       \/ /\ ctxDone[d]
          /\ sub' = [sub EXCEPT ![d] = FALSE]
          /\ feed' = [feed EXCEPT ![d] = <<>>]
          /\ pg' = [pg EXCEPT ![d] = "done"]
          /\ closes' = [closes EXCEPT ![d] = @ + 1]
          /\ UNCHANGED pmsg
    /\ UNCHANGED <<rows, nextN, spc, snotif, online, ctxDone, svc, ended, received, crashed>>

\* The service goroutine's select receives the notification (rendezvous
\* with `notifications <- n`) and stream.Sends it; a send error (the
\* client is gone) returns.
SvcReceive(d) ==
    /\ svc[d] = "select"
    /\ pg[d] = "send"
    /\ pg' = [pg EXCEPT ![d] = "recv"]
    /\ pmsg' = [pmsg EXCEPT ![d] = NoNotif]
    /\ IF ctxDone[d]
          THEN /\ svc' = [svc EXCEPT ![d] = "done"]
               /\ UNCHANGED received
          ELSE /\ received' = [received EXCEPT ![d] = Append(@, pmsg[d])]
               /\ UNCHANGED svc
    /\ UNCHANGED <<rows, nextN, spc, snotif, online, ctxDone, sub, feed, closes, ended, crashed>>

\* select: <-ctx.Done(), or the notifications channel is closed (!ok).
SvcReturn(d) ==
    /\ svc[d] = "select"
    /\ ctxDone[d] \/ pg[d] = "done"
    /\ svc' = [svc EXCEPT ![d] = "done"]
    /\ UNCHANGED <<rows, nextN, spc, snotif, online, ctxDone, sub, feed, pg, pmsg,
                   closes, ended, received, crashed>>

\* <-done: the handler returns and gRPC ends the stream.
HandlerReturn(d) ==
    /\ svc[d] = "done"
    /\ ~ended[d]
    /\ ended' = [ended EXCEPT ![d] = TRUE]
    /\ UNCHANGED <<rows, nextN, spc, snotif, online, ctxDone, svc, sub, feed, pg,
                   pmsg, closes, received, crashed>>

\* The client closes the stream.
Cancel(d) ==
    /\ ~ctxDone[d]
    /\ ctxDone' = [ctxDone EXCEPT ![d] = TRUE]
    /\ UNCHANGED <<rows, nextN, spc, snotif, online, svc, sub, feed, pg, pmsg,
                   closes, ended, received, crashed>>

-----------------------------------------------------------------------------
Init ==
    /\ rows = [l \in Likers |-> 0]
    /\ nextN = 1
    /\ spc = [l \in Likers |-> "idle"]
    /\ snotif = [l \in Likers |-> NoNotif]
    /\ online = FALSE
    /\ ctxDone = [d \in Devices |-> FALSE]
    /\ svc = [d \in Devices |-> "listen"]
    /\ sub = [d \in Devices |-> FALSE]
    /\ feed = [d \in Devices |-> <<>>]
    /\ pg = [d \in Devices |-> "none"]
    /\ pmsg = [d \in Devices |-> NoNotif]
    /\ closes = [d \in Devices |-> 0]
    /\ ended = [d \in Devices |-> FALSE]
    /\ received = [d \in Devices |-> <<>>]
    /\ crashed = FALSE

\* Every step other than the crash itself is a step of the live process.
Step ==
    \/ \E l \in Likers : SendCheck(l) \/ SendCreate(l) \/ SendOnline(l) \/ SendPush(l)
    \/ \E d \in Devices :
          \/ SetUserOnline(d) \/ SetUserOffline(d)
          \/ Subscribe(d) \/ PushRecv(d) \/ SvcReceive(d) \/ SvcReturn(d)
          \/ HandlerReturn(d) \/ Cancel(d)

Next == ~crashed /\ Step

Spec == Init /\ [][Next]_vars

-----------------------------------------------------------------------------
TypeOK ==
    /\ rows \in [Likers -> 0..MaxSends]
    /\ nextN \in 1..MaxSends + 1
    /\ spc \in [Likers -> {"idle", "create", "online", "push"}]
    /\ snotif \in [Likers -> Notifs \cup {NoNotif}]
    /\ online \in BOOLEAN
    /\ svc \in [Devices -> {"listen", "select", "done"}]
    /\ pg \in [Devices -> {"none", "recv", "send", "done"}]
    /\ closes \in [Devices -> 0..2]
    /\ crashed \in BOOLEAN
    /\ \A d \in Devices : feed[d] \in Seq(Notifs) /\ received[d] \in Seq(Notifs)

\* A device's notification stream ends only when its client cancels it
\* (Subscribe "yields decoded notifications until cancellation", and a
\* store error is returned to Send's caller): neither a failed
\* createNotification nor its nil result may end it.
StreamEndsOnlyOnCancel ==
    \A d \in Devices : ended[d] => ctxDone[d]

=============================================================================
