----------------------------- MODULE MessageLog -----------------------------
(***************************************************************************)
(* The message history of one conversation and GetMessages paging.         *)
(*                                                                         *)
(* SendMessage scores a message with CreatedAt.Unix(), where CreatedAt is  *)
(* time.Now() taken by the gRPC handler before the keyed lock, and ZADDs   *)
(* it. Redis orders the sorted set by score and, among equal scores, by    *)
(* the bytes of the member (the base64 gob blob of the message), which     *)
(* bears no relation to the order of sending.                              *)
(*                                                                         *)
(* GetMessages (usecase) runs ZRANGEBYSCORE from the caller's JoinedAt to  *)
(* +inf with LIMIT offset, MessagesLimit + 1; the controller sets hasMore  *)
(* when more than MessagesLimit came back and drops the last one. A client *)
(* pages by passing the number of messages it already has as the offset.   *)
(* All participants join when the conversation is created, before any     *)
(* message, so the JoinedAt bound never excludes a message here.           *)
(***************************************************************************)
EXTENDS Naturals, Sequences, SequencesExt, Functions

CONSTANTS
    Senders,        \* concurrent SendMessage calls
    MessagesLimit,  \* conversation.MessagesLimit (10 in the code)
    MaxMsgs,        \* bound on the number of messages sent
    MaxSecond,      \* bound on the wall clock, in seconds
    NoMsg,          \* model value: a sender holds no message
    Pager           \* model value: the paging client's GetMessages task

ASSUME MessagesLimit \in Nat \ {0} /\ MaxMsgs \in Nat /\ MaxSecond \in Nat

Msgs == 1..MaxMsgs
Entry == [id : Msgs, score : 0..MaxSecond]

VARIABLES
    clock,      \* time.Now().Unix()
    spc,        \* spc[s]: where sender s is in SendMessage
    smsg,       \* smsg[s]: the message s sends, with its score
    nextMsg,    \* the id of the next message created
    stored,     \* the keyed lock registry: keys with a mutex
    mutexes,    \* the keyed lock registry: holders of each key's mutex
    zset,       \* the sorted set, as a sequence in redis order
    ppc,        \* the paging client: "idle", "paging", "read" or "done"
    offset,     \* the offset of its next GetMessages call
    seen,       \* ids of the messages it has received, in order
    lastPage    \* the response of its last GetMessages call

vars == <<clock, spc, smsg, nextMsg, stored, mutexes, zset, ppc, offset, seen, lastPage>>

\* SendMessage locks GetConversationMessagesKey(c); GetMessages read-locks
\* the bare conversation id, a different key.
MsgKey == "conversations:c:messages"
ConvKey == "c"

KL == INSTANCE KeyedLock WITH Keys <- {MsgKey, ConvKey}, Holders <- Senders \cup {Pager}

Ids(z) == [i \in DOMAIN z |-> z[i].id]

\* The positions at which ZADD may put an entry of score sc: after every
\* lower score, before every higher one, anywhere among equal scores.
ZAddPositions(z, sc) ==
    {i \in 1..Len(z) + 1 :
        /\ \A j \in 1..i - 1 : z[j].score <= sc
        /\ \A j \in i..Len(z) : z[j].score >= sc}

\* ZRANGEBYSCORE key -inf +inf LIMIT off count.
ZRangeByScore(z, off, count) ==
    IF off >= Len(z) THEN <<>>
    ELSE SubSeq(z, off + 1, IF Len(z) < off + count THEN Len(z) ELSE off + count)

\* Mutant: GetMessages asks for MessagesLimit messages, without the extra one.
GetMessagesRawNoExtra(z, off) == ZRangeByScore(z, off, MessagesLimit)

\* usecase GetMessages: one extra message tells whether more exist.
GetMessagesRaw(z, off) == ZRangeByScore(z, off, MessagesLimit + 1)

\* controller GetMessages: hasMore and the page without the extra message.
GetMessagesResponse(raw) ==
    LET hasMore == Len(raw) > MessagesLimit IN
    [messages |-> IF hasMore THEN Front(raw) ELSE raw, hasMore |-> hasMore]

\* The page a GetMessages call promises: the next MessagesLimit messages
\* after the offset, and whether any message lies beyond them.
PageSpec(z, off) ==
    [messages |-> IF off >= Len(z) THEN <<>>
                  ELSE SubSeq(z, off + 1, IF Len(z) < off + MessagesLimit
                                          THEN Len(z) ELSE off + MessagesLimit),
     hasMore |-> Len(z) > off + MessagesLimit]

-----------------------------------------------------------------------------
Tick ==
    /\ clock < MaxSecond
    /\ clock' = clock + 1
    /\ UNCHANGED <<spc, smsg, nextMsg, stored, mutexes, zset, ppc, offset, seen, lastPage>>

\* The service handler builds the message with CreatedAt: time.Now().
SendRequest(s) ==
    /\ spc[s] = "idle"
    /\ nextMsg <= MaxMsgs
    /\ smsg' = [smsg EXCEPT ![s] = [id |-> nextMsg, score |-> clock]]
    /\ nextMsg' = nextMsg + 1
    /\ spc' = [spc EXCEPT ![s] = "lock"]
    /\ UNCHANGED <<clock, stored, mutexes, zset, ppc, offset, seen, lastPage>>

AcquireMsgLock(s) ==
    /\ spc[s] = "lock"
    /\ KL!Lock(s, MsgKey)
    /\ spc' = [spc EXCEPT ![s] = "zadd"]
    /\ UNCHANGED <<clock, smsg, nextMsg, zset, ppc, offset, seen, lastPage>>

\* ZADD (or its failure), then PUBLISH and the deferred unlock; PUBLISH
\* does not touch the sorted set.
ZAdd(s) ==
    /\ spc[s] = "zadd"
    /\ \/ \E i \in ZAddPositions(zset, smsg[s].score) :
             zset' = InsertAt(zset, i, smsg[s])
       \/ UNCHANGED zset
    /\ KL!Unlock(s, MsgKey)
    /\ spc' = [spc EXCEPT ![s] = "idle"]
    /\ UNCHANGED <<clock, smsg, nextMsg, ppc, offset, seen, lastPage>>

\* usecase GetMessages starts with lock.RLock(conversationID), ignoring its
\* error; the client asks for the next page while hasMore is set.
GetMessagesRLock ==
    /\ ppc \in {"idle", "paging"}
    /\ KL!RLock(Pager, ConvKey)
    /\ ppc' = "read"
    /\ UNCHANGED <<clock, spc, smsg, nextMsg, zset, offset, seen, lastPage>>

\* ZRANGEBYSCORE, the deferred RUnlock, and the controller's response.
GetMessages ==
    /\ ppc = "read"
    /\ KL!RUnlock(Pager, ConvKey)
    /\ LET res == GetMessagesResponse(GetMessagesRaw(zset, offset)) IN
          /\ lastPage' = res
          /\ seen' = seen \o Ids(res.messages)
          /\ offset' = offset + Len(res.messages)
          /\ ppc' = IF res.hasMore THEN "paging" ELSE "done"
    /\ UNCHANGED <<clock, spc, smsg, nextMsg, zset>>

Init ==
    /\ clock = 0
    /\ spc = [s \in Senders |-> "idle"]
    /\ smsg = [s \in Senders |-> NoMsg]
    /\ nextMsg = 1
    /\ KL!LockInit
    /\ zset = <<>>
    /\ ppc = "idle"
    /\ offset = 0
    /\ seen = <<>>
    /\ lastPage = [messages |-> <<>>, hasMore |-> FALSE]

Next ==
    \/ Tick
    \/ \E s \in Senders : SendRequest(s) \/ AcquireMsgLock(s) \/ ZAdd(s)
    \/ GetMessagesRLock
    \/ GetMessages

Spec == Init /\ [][Next]_vars

-----------------------------------------------------------------------------
TypeOK ==
    /\ clock \in 0..MaxSecond
    /\ spc \in [Senders -> {"idle", "lock", "zadd"}]
    /\ smsg \in [Senders -> Entry \cup {NoMsg}]
    /\ nextMsg \in 1..MaxMsgs + 1
    /\ KL!LockTypeOK
    /\ zset \in Seq(Entry)
    /\ ppc \in {"idle", "paging", "read", "done"}
    /\ offset \in Nat
    /\ seen \in Seq(Msgs)
    /\ lastPage.hasMore \in BOOLEAN

\* Every GetMessages response is exactly the next MessagesLimit messages
\* after the offset, with hasMore set iff further messages exist
\* (the limit + 1 request and the trimming of the extra message).
PageIsExact ==
    [][GetMessages => lastPage' = PageSpec(zset, offset)]_vars

\* Paging through the history by offset never returns a message twice.
NoDuplicateAcrossPages ==
    IsInjective(seen)

=============================================================================
