----------------------------- MODULE ChatUnread -----------------------------
(***************************************************************************)
(* Unread-count bookkeeping of one conversation C.                         *)
(*                                                                         *)
(* Every participant p has its own copy of C in the hash user:{p}          *)
(* conversations, written by CreateConversation one participant at a      *)
(* time. The copies differ only in UnreadMessagesCount, so a copy is       *)
(* abstracted to that count (Absent: never written).                       *)
(*                                                                         *)
(* controller SendMessage: usecase SendMessage (lock, ZADD, PUBLISH),      *)
(* then GetConversationInactiveUsers (one GET of the active-conversation   *)
(* key per participant, in Go map order), then for each inactive user      *)
(* IncrementInactiveUserMsgsCount: HGET the copy, HSET it with count + 1.  *)
(* No lock covers the increments.                                          *)
(*                                                                         *)
(* ListenForMessages: ReadConversationMessages (HGET, HSET with count 0),  *)
(* SetActiveConversation(ctx, req.Channel, req.Channel), stream, then      *)
(* DeleteActiveConversation(ctx, userID).                                  *)
(***************************************************************************)
EXTENDS Naturals, Sequences, SequencesExt

CONSTANTS
    Users,      \* the participants of C; each may send and listen
    C,          \* model value: the conversation id (also the channel name)
    NoConv,     \* model value: an unset or deleted active-conversation key
    Absent,     \* model value: no copy of C in the user's hash
    MaxMsgs     \* bound on the number of messages sent

ASSUME MaxMsgs \in Nat \ {0}

\* Keys conversations:active{x}: the code writes them for user ids and,
\* through SetActiveConversation(ctx, req.Channel, req.Channel), for C.
ActiveKeys == Users \cup {C}

VARIABLES
    unread,     \* unread[p]: UnreadMessagesCount of p's copy, or Absent
    createTodo, \* participants CreateConversation has still to HSET
    active,     \* active[k]: value of conversations:active{k}
    sent,       \* messages stored by SendMessage (ZADD succeeded)
    spc,        \* spc[u]: where u's SendMessage call is
    toCheck,    \* participants whose active key u's call has not read yet
    inactive,   \* the inactiveUsers slice of u's call
    slocal,     \* the copy u's call read with HGET before its HSET
    sendResult, \* outcome of u's last SendMessage: "none", "ok", "failed"
    sendStored, \* whether u's last SendMessage stored its message
    lpc,        \* lpc[u]: where u's ListenForMessages call is
    counted     \* history: increments written to p's copy since p's read

vars == <<unread, createTodo, active, sent, spc, toCheck, inactive, slocal,
          sendResult, sendStored, lpc, counted>>

HasCopy(p) == unread[p] # Absent

(***************************************************************************)
(* CreateConversation (usecase.go): HSET the encoded conversation under   *)
(* each participant, in map order; the first failing HSET returns.         *)
(***************************************************************************)
CreateConversation ==
    /\ createTodo # {}
    /\ \E p \in createTodo :
          \/ /\ unread' = [unread EXCEPT ![p] = 0]
             /\ createTodo' = createTodo \ {p}
          \/ /\ createTodo' = {}
             /\ UNCHANGED unread
    /\ UNCHANGED <<active, sent, spc, toCheck, inactive, slocal, sendResult,
                   sendStored, lpc, counted>>

(***************************************************************************)
(* controller SendMessage.                                                 *)
(***************************************************************************)
\* u, who sees C in its conversation list, sends a message. The usecase
\* call either stores and publishes it, or fails and SendMessage returns.
\* On success getConversation reads the sender's copy for the participants.
SendStore(u) ==
    /\ spc[u] = "idle"
    /\ HasCopy(u)
    /\ sent < MaxMsgs
    /\ \/ /\ sent' = sent + 1
          /\ spc' = [spc EXCEPT ![u] = "check"]
          /\ toCheck' = [toCheck EXCEPT ![u] = Users]
          /\ inactive' = [inactive EXCEPT ![u] = <<>>]
          /\ sendStored' = [sendStored EXCEPT ![u] = TRUE]
          /\ sendResult' = [sendResult EXCEPT ![u] = "none"]
       \/ /\ sendResult' = [sendResult EXCEPT ![u] = "failed"]
          /\ sendStored' = [sendStored EXCEPT ![u] = FALSE]
          /\ UNCHANGED <<sent, spc, toCheck, inactive>>
    /\ UNCHANGED <<unread, createTodo, active, slocal, lpc, counted>>

\* Mutant: the `continue` after appending a user whose key is unset is
\* missing, so the user is also appended by the ID comparison.
CheckActiveNoContinue(u) ==
    /\ spc[u] = "check"
    /\ \E p \in toCheck[u] :
          /\ toCheck' = [toCheck EXCEPT ![u] = @ \ {p}]
          /\ inactive' = [inactive EXCEPT ![u] =
                            CASE active[p] = NoConv -> @ \o <<p, p>>
                              [] active[p] # C -> Append(@, p)
                              [] OTHER -> @]
    /\ UNCHANGED <<unread, createTodo, active, sent, spc, slocal, sendResult,
                   sendStored, lpc, counted>>

\* GetConversationInactiveUsers: GET conversations:active{p.UserID}; p is
\* inactive when the key is missing, empty or names another conversation.
CheckActive(u) ==
    /\ spc[u] = "check"
    /\ \E p \in toCheck[u] :
          /\ toCheck' = [toCheck EXCEPT ![u] = @ \ {p}]
          /\ inactive' = [inactive EXCEPT ![u] =
                            IF active[p] # C THEN Append(@, p) ELSE @]
    /\ UNCHANGED <<unread, createTodo, active, sent, spc, slocal, sendResult,
                   sendStored, lpc, counted>>

\* All keys read: if there are inactive users, start incrementing.
CheckDone(u) ==
    /\ spc[u] = "check"
    /\ toCheck[u] = {}
    /\ IF inactive[u] = <<>>
          THEN /\ spc' = [spc EXCEPT ![u] = "idle"]
               /\ sendResult' = [sendResult EXCEPT ![u] = "ok"]
          ELSE /\ spc' = [spc EXCEPT ![u] = "incr_get"]
               /\ UNCHANGED sendResult
    /\ UNCHANGED <<unread, createTodo, active, sent, toCheck, inactive, slocal,
                   sendStored, lpc, counted>>

\* IncrementInactiveUserMsgsCount, HGET: a missing copy is an error, and
\* the controller returns it without visiting the remaining users.
IncrGet(u) ==
    /\ spc[u] = "incr_get"
    /\ LET p == Head(inactive[u]) IN
          IF HasCopy(p)
             THEN /\ slocal' = [slocal EXCEPT ![u] = unread[p]]
                  /\ spc' = [spc EXCEPT ![u] = "incr_set"]
                  /\ UNCHANGED sendResult
             ELSE /\ spc' = [spc EXCEPT ![u] = "idle"]
                  /\ sendResult' = [sendResult EXCEPT ![u] = "failed"]
                  /\ UNCHANGED slocal
    /\ UNCHANGED <<unread, createTodo, active, sent, toCheck, inactive,
                   sendStored, lpc, counted>>

\* IncrementInactiveUserMsgsCount, HSET of the count read plus one.
IncrSet(u) ==
    /\ spc[u] = "incr_set"
    /\ LET p == Head(inactive[u]) IN
          /\ unread' = [unread EXCEPT ![p] = slocal[u] + 1]
          /\ counted' = [counted EXCEPT ![p] = @ + 1]
    /\ inactive' = [inactive EXCEPT ![u] = Tail(@)]
    /\ IF Tail(inactive[u]) = <<>>
          THEN /\ spc' = [spc EXCEPT ![u] = "idle"]
               /\ sendResult' = [sendResult EXCEPT ![u] = "ok"]
          ELSE /\ spc' = [spc EXCEPT ![u] = "incr_get"]
               /\ UNCHANGED sendResult
    /\ UNCHANGED <<createTodo, active, sent, toCheck, slocal, sendStored,
                   lpc>>

\* A redis call of the controller's SendMessage fails after the message
\* was stored: getConversation or a GET of GetConversationInactiveUsers, or
\* the HGET or HSET of an IncrementInactiveUserMsgsCount. The error is
\* returned at once; the users not yet incremented are skipped.
SendRedisError(u) ==
    /\ \/ spc[u] = "check" /\ toCheck[u] # {}
       \/ spc[u] \in {"incr_get", "incr_set"}
    /\ spc' = [spc EXCEPT ![u] = "idle"]
    /\ sendResult' = [sendResult EXCEPT ![u] = "failed"]
    /\ UNCHANGED <<unread, createTodo, active, sent, toCheck, inactive, slocal,
                   sendStored, lpc, counted>>

(***************************************************************************)
(* ListenForMessages and ReadConversationMessages.                         *)
(***************************************************************************)
ReadGet(u) ==
    /\ lpc[u] = "idle"
    /\ HasCopy(u)
    /\ lpc' = [lpc EXCEPT ![u] = "read_set"]
    /\ UNCHANGED <<unread, createTodo, active, sent, spc, toCheck, inactive,
                   slocal, sendResult, sendStored, counted>>

\* HSET of the copy read, with UnreadMessagesCount = 0.
ReadSet(u) ==
    /\ lpc[u] = "read_set"
    /\ unread' = [unread EXCEPT ![u] = 0]
    /\ counted' = [counted EXCEPT ![u] = 0]
    /\ lpc' = [lpc EXCEPT ![u] = "set_active"]
    /\ UNCHANGED <<createTodo, active, sent, spc, toCheck, inactive, slocal,
                   sendResult, sendStored>>

\* The HGET (redis.Nil when u has no copy) or the HSET of
\* ReadConversationMessages fails. The handler closes done and goes on: it
\* still sets the active conversation and defers DeleteActiveConversation,
\* then returns at once.
ReadFail(u) ==
    /\ lpc[u] \in {"idle", "read_set"}
    /\ lpc' = [lpc EXCEPT ![u] = "set_active"]
    /\ UNCHANGED <<unread, createTodo, active, sent, spc, toCheck, inactive,
                   slocal, sendResult, sendStored, counted>>

\* s.chat.SetActiveConversation(ctx, req.Channel, req.Channel): the user id
\* argument is the channel, so the key written is conversations:active{C}.
SetActive(u) ==
    /\ lpc[u] = "set_active"
    /\ active' = [active EXCEPT ![C] = C]
    /\ lpc' = [lpc EXCEPT ![u] = "listening"]
    /\ UNCHANGED <<unread, createTodo, sent, spc, toCheck, inactive, slocal,
                   sendResult, sendStored, counted>>

\* The stream ends; the deferred DeleteActiveConversation(ctx, userID) runs
\* GETDEL on u's own key.
DeleteActive(u) ==
    /\ lpc[u] = "listening"
    /\ active' = [active EXCEPT ![u] = NoConv]
    /\ lpc' = [lpc EXCEPT ![u] = "idle"]
    /\ UNCHANGED <<unread, createTodo, sent, spc, toCheck, inactive, slocal,
                   sendResult, sendStored, counted>>

-----------------------------------------------------------------------------
Init ==
    /\ unread = [p \in Users |-> Absent]
    /\ createTodo = Users
    /\ active = [k \in ActiveKeys |-> NoConv]
    /\ sent = 0
    /\ spc = [u \in Users |-> "idle"]
    /\ toCheck = [u \in Users |-> {}]
    /\ inactive = [u \in Users |-> <<>>]
    /\ slocal = [u \in Users |-> 0]
    /\ sendResult = [u \in Users |-> "none"]
    /\ sendStored = [u \in Users |-> FALSE]
    /\ lpc = [u \in Users |-> "idle"]
    /\ counted = [p \in Users |-> 0]

Next ==
    \/ CreateConversation
    \/ \E u \in Users :
          \/ SendStore(u) \/ CheckActive(u) \/ CheckDone(u)
          \/ IncrGet(u) \/ IncrSet(u) \/ SendRedisError(u)
          \/ ReadGet(u) \/ ReadSet(u) \/ ReadFail(u) \/ SetActive(u) \/ DeleteActive(u)

Spec == Init /\ [][Next]_vars

-----------------------------------------------------------------------------
TypeOK ==
    /\ unread \in [Users -> 0..MaxMsgs \cup {Absent}]
    /\ createTodo \subseteq Users
    /\ active \in [ActiveKeys -> {C, NoConv}]
    /\ sent \in 0..MaxMsgs
    /\ spc \in [Users -> {"idle", "check", "incr_get", "incr_set"}]
    /\ toCheck \in [Users -> SUBSET Users]
    /\ \A u \in Users : inactive[u] \in Seq(Users)
    /\ slocal \in [Users -> 0..MaxMsgs]
    /\ sendResult \in [Users -> {"none", "ok", "failed"}]
    /\ sendStored \in [Users -> BOOLEAN]
    /\ lpc \in [Users -> {"idle", "read_set", "set_active", "listening"}]
    /\ counted \in [Users -> 0..MaxMsgs * Cardinality(Users)]

\* A participant never has more unread messages than were ever sent to the
\* conversation: each SendMessage increments each inactive participant at
\* most once, and a stale HSET can only lose increments, never add one.
UnreadBoundedBySent ==
    \A p \in Users : HasCopy(p) => unread[p] <= sent

\* No increment of UnreadMessagesCount is lost: whenever no SendMessage is
\* between its HGET and HSET of p's copy and p's ReadConversationMessages is
\* not between its HGET and HSET, p's count is the number of increments
\* written since p last read.
Quiet(p) ==
    /\ \A u \in Users : spc[u] = "incr_set" => Head(inactive[u]) # p
    /\ lpc[p] # "read_set"

NoLostUnreadIncrement ==
    \A p \in Users : (HasCopy(p) /\ Quiet(p)) => unread[p] = counted[p]

\* Presence gating: a participant who is listening to the conversation's
\* stream is not put in the inactive list by a SendMessage that reads its
\* active-conversation key meanwhile.
ListenerNotCounted ==
    [][\A u, p \in Users :
          (/\ p \in toCheck[u] /\ p \notin toCheck'[u]
           /\ lpc[p] = "listening")
          => inactive'[u] = inactive[u]]_vars

=============================================================================
