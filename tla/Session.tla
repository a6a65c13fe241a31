------------------------------- MODULE Session -------------------------------
(***************************************************************************)
(* Sliding-expiry sessions: core/session Manager, the extauth authorize    *)
(* middleware that renews a session near its expiry, SignOut, and the      *)
(* login handlers that call SetNew.                                        *)
(*                                                                         *)
(* Redis holds one key per session id (the encoded user, with a TTL) and   *)
(* one set per user id (the session index). Every Manager method is a     *)
(* sequence of round trips with nothing serialising them, so each round    *)
(* trip is one step of the request that makes it. A browser device holds  *)
(* one cookie and may have several requests in flight, all of which carry *)
(* the cookie they were sent with; the last response to set or delete the *)
(* cookie wins.                                                            *)
(*                                                                         *)
(* Time is abstracted to the phase of a key's TTL: "fresh" (more than      *)
(* TTLRefresh left), "near" (at most TTLRefresh left) and "none" (absent:  *)
(* never set, deleted, or expired by redis).                               *)
(***************************************************************************)
EXTENDS Naturals, FiniteSets

CONSTANTS
    Devices,      \* browsers
    UserOf,       \* UserOf[d]: the user who signs in on device d
    Reqs,         \* request slots
    DevOfReq,     \* DevOfReq[r]: the device request slot r belongs to
    MaxSessions,  \* bound on the number of session ids generated
    NoSid         \* model value: no session id

Users == {UserOf[d] : d \in Devices}
Sids == 1..MaxSessions

ASSUME DevOfReq \in [Reqs -> Devices] /\ MaxSessions \in Nat

VARIABLES
    live,       \* live[s]: the TTL phase of session key s
    devOf,      \* devOf[s]: the device s was created for (its value is UserOf[devOf[s]])
    index,      \* index[u]: the members of the set keyed by user id u
    nextSid,    \* the next id ksuid.New() returns
    cookie,     \* cookie[d]: the __unpaperSID cookie of device d
    rpc,        \* rpc[r]: where request r is
    rkind,      \* rkind[r]: "default" (any protected route) or "signout"
    rsid,       \* rsid[r]: the sid the request works on
    renewed,    \* renewed[r]: refreshOccurred in authorize
    syncTodo,   \* syncTodo[r]: the SMEMBERS reply Sync still iterates over
    signedOut,  \* signedOut[d]: the last SignOut of d returned OK and d has not logged in since
    sremFailed  \* history: the ids whose SREM in Sync failed (the error is ignored)

vars == <<live, devOf, index, nextSid, cookie, rpc, rkind, rsid, renewed, syncTodo, signedOut, sremFailed>>

Dev(r) == DevOfReq[r]
UserOfSid(s) == UserOf[devOf[s]]
Live(s) == live[s] # "none"

\* The device holds no valid session (its requests would get KO).
SignedOff(d) == IF cookie[d] = NoSid THEN TRUE ELSE ~Live(cookie[d])

\* The request state every idle slot returns to.
Finish(r) ==
    /\ rpc' = [rpc EXCEPT ![r] = "idle"]
    /\ rsid' = [rsid EXCEPT ![r] = NoSid]
    /\ renewed' = [renewed EXCEPT ![r] = FALSE]

-----------------------------------------------------------------------------
(* Login (EmailSignin, googleAuthentication, EmailSignup): SetNew then the *)
(* Set-Cookie header. The user logs in from the login page, which a device *)
(* shows when it holds no valid session and has no request in flight.     *)

\* SetNew: generate the sid and SADD it to the user's index.
LoginSAdd(r) ==
    /\ rpc[r] = "idle"
    /\ SignedOff(Dev(r))
    /\ \A q \in Reqs : Dev(q) = Dev(r) => rpc[q] = "idle"
    /\ nextSid <= MaxSessions
    /\ index' = [index EXCEPT ![UserOf[Dev(r)]] = @ \cup {nextSid}]
    /\ devOf' = [devOf EXCEPT ![nextSid] = Dev(r)]
    /\ rsid' = [rsid EXCEPT ![r] = nextSid]
    /\ nextSid' = nextSid + 1
    /\ rpc' = [rpc EXCEPT ![r] = "loginSet"]
    /\ UNCHANGED <<live, cookie, rkind, renewed, syncTodo, signedOut, sremFailed>>

\* SetNew: SET sid user EX Lifetime; the response sets the cookie.
LoginSet(r) ==
    /\ rpc[r] = "loginSet"
    /\ live' = [live EXCEPT ![rsid[r]] = "fresh"]
    /\ cookie' = [cookie EXCEPT ![Dev(r)] = rsid[r]]
    /\ signedOut' = [signedOut EXCEPT ![Dev(r)] = FALSE]
    /\ Finish(r)
    /\ UNCHANGED <<devOf, index, nextSid, rkind, syncTodo, sremFailed>>

-----------------------------------------------------------------------------
(* authorize: HasSession, TTL, RenewSession when TTL <= TTLRefresh, then   *)
(* GetUserBySID of the (new) sid and the route handler.                    *)

Start(r) ==
    /\ rpc[r] = "idle"
    /\ cookie[Dev(r)] # NoSid
    /\ \E k \in {"default", "signout"} : rkind' = [rkind EXCEPT ![r] = k]
    /\ rsid' = [rsid EXCEPT ![r] = cookie[Dev(r)]]
    /\ rpc' = [rpc EXCEPT ![r] = "has"]
    /\ UNCHANGED <<live, devOf, index, nextSid, cookie, renewed, syncTodo, signedOut, sremFailed>>

\* HasSession: GET sid; a missing key ends the request with KO.
HasSession(r) ==
    /\ rpc[r] = "has"
    /\ IF Live(rsid[r])
       THEN /\ rpc' = [rpc EXCEPT ![r] = "ttl"]
            /\ UNCHANGED <<rsid, renewed>>
       ELSE Finish(r)
    /\ UNCHANGED <<live, devOf, index, nextSid, cookie, rkind, syncTodo, signedOut, sremFailed>>

\* TTL sid: -2 for a key deleted since HasSession is also <= TTLRefresh.
TTL(r) ==
    /\ rpc[r] = "ttl"
    /\ rpc' = [rpc EXCEPT ![r] = IF live[rsid[r]] = "fresh" THEN "getUser" ELSE "renewGet"]
    /\ UNCHANGED <<live, devOf, index, nextSid, cookie, rkind, rsid, renewed, syncTodo, signedOut, sremFailed>>

\* RenewSession: GetUserBySID(sid); an error fails the request.
RenewGet(r) ==
    /\ rpc[r] = "renewGet"
    /\ IF Live(rsid[r])
       THEN /\ rpc' = [rpc EXCEPT ![r] = "renewDel"]
            /\ UNCHANGED <<rsid, renewed>>
       ELSE Finish(r)
    /\ UNCHANGED <<live, devOf, index, nextSid, cookie, rkind, syncTodo, signedOut, sremFailed>>

\* RenewSession: DEL sid.
RenewDel(r) ==
    /\ rpc[r] = "renewDel"
    /\ live' = [live EXCEPT ![rsid[r]] = "none"]
    /\ rpc' = [rpc EXCEPT ![r] = "renewSRem"]
    /\ UNCHANGED <<devOf, index, nextSid, cookie, rkind, rsid, renewed, syncTodo, signedOut, sremFailed>>

\* RenewSession: SREM userID sid.
RenewSRem(r) ==
    /\ rpc[r] = "renewSRem"
    /\ index' = [index EXCEPT ![UserOfSid(rsid[r])] = @ \ {rsid[r]}]
    /\ rpc' = [rpc EXCEPT ![r] = "renewSAdd"]
    /\ UNCHANGED <<live, devOf, nextSid, cookie, rkind, rsid, renewed, syncTodo, signedOut, sremFailed>>

\* RenewSession calls SetNew: a new sid, SADD to the same user's index. If
\* the store fails here (RedisError) the request errors and the old
\* session is gone.
RenewSAdd(r) ==
    /\ rpc[r] = "renewSAdd"
    /\ nextSid <= MaxSessions
    /\ index' = [index EXCEPT ![UserOfSid(rsid[r])] = @ \cup {nextSid}]
    /\ devOf' = [devOf EXCEPT ![nextSid] = devOf[rsid[r]]]
    /\ rsid' = [rsid EXCEPT ![r] = nextSid]
    /\ nextSid' = nextSid + 1
    /\ rpc' = [rpc EXCEPT ![r] = "renewSet"]
    /\ UNCHANGED <<live, cookie, rkind, renewed, syncTodo, signedOut, sremFailed>>

\* SetNew: SET newSid; authorize then sets refreshOccurred and sid = newSID.
RenewSet(r) ==
    /\ rpc[r] = "renewSet"
    /\ live' = [live EXCEPT ![rsid[r]] = "fresh"]
    /\ renewed' = [renewed EXCEPT ![r] = TRUE]
    /\ rpc' = [rpc EXCEPT ![r] = "getUser"]
    /\ UNCHANGED <<devOf, index, nextSid, cookie, rkind, rsid, syncTodo, signedOut, sremFailed>>

\* GetUserBySID(sid), then the handler. Default forwards the request and,
\* after a renewal, sets the new cookie; SignOut goes on to Manager.Delete.
GetUser(r) ==
    /\ rpc[r] = "getUser"
    /\ \/ /\ ~Live(rsid[r])
          /\ Finish(r)
          /\ UNCHANGED cookie
       \/ /\ Live(rsid[r]) /\ rkind[r] = "default"
          /\ cookie' = IF renewed[r] THEN [cookie EXCEPT ![Dev(r)] = rsid[r]] ELSE cookie
          /\ Finish(r)
       \/ /\ Live(rsid[r]) /\ rkind[r] = "signout"
          /\ rpc' = [rpc EXCEPT ![r] = "delGet"]
          /\ UNCHANGED <<cookie, rsid, renewed>>
    /\ UNCHANGED <<live, devOf, index, nextSid, rkind, syncTodo, signedOut, sremFailed>>

-----------------------------------------------------------------------------
(* SignOut: Manager.Delete = GetUserBySID, DEL sid, Sync(userID); then the *)
(* cookie is deleted.                                                      *)

DeleteGet(r) ==
    /\ rpc[r] = "delGet"
    /\ IF Live(rsid[r])
       THEN /\ rpc' = [rpc EXCEPT ![r] = "delDel"]
            /\ UNCHANGED <<rsid, renewed>>
       ELSE Finish(r)
    /\ UNCHANGED <<live, devOf, index, nextSid, cookie, rkind, syncTodo, signedOut, sremFailed>>

DeleteDel(r) ==
    /\ rpc[r] = "delDel"
    /\ live' = [live EXCEPT ![rsid[r]] = "none"]
    /\ rpc' = [rpc EXCEPT ![r] = "syncMembers"]
    /\ UNCHANGED <<devOf, index, nextSid, cookie, rkind, rsid, renewed, syncTodo, signedOut, sremFailed>>

\* Sync: SMEMBERS userID.
SyncMembers(r) ==
    /\ rpc[r] = "syncMembers"
    /\ syncTodo' = [syncTodo EXCEPT ![r] = index[UserOfSid(rsid[r])]]
    /\ rpc' = [rpc EXCEPT ![r] = "syncGet"]
    /\ UNCHANGED <<live, devOf, index, nextSid, cookie, rkind, rsid, renewed, signedOut, sremFailed>>

\* Sync's SREM of a missing id: it removes the id, or it fails and Sync,
\* which does not look at its result, goes on all the same.
SRemUnchecked(r, s) ==
    \/ /\ index' = [index EXCEPT ![UserOfSid(rsid[r])] = @ \ {s}]
       /\ UNCHANGED sremFailed
    \/ /\ sremFailed' = sremFailed \cup {s}
       /\ UNCHANGED index

\* Mutant: Sync stops at the first missing session (break for continue).
SyncGetBreak(r) ==
    /\ rpc[r] = "syncGet"
    /\ \E s \in syncTodo[r] :
          \/ /\ Live(s)
             /\ syncTodo' = [syncTodo EXCEPT ![r] = @ \ {s}]
             /\ UNCHANGED <<index, sremFailed>>
          \/ /\ ~Live(s)
             /\ SRemUnchecked(r, s)
             /\ syncTodo' = [syncTodo EXCEPT ![r] = {}]
    /\ UNCHANGED <<live, devOf, nextSid, cookie, rpc, rkind, rsid, renewed, signedOut>>

\* Sync, one iteration: GET s, and SREM it when the key is missing.
SyncGet(r) ==
    /\ rpc[r] = "syncGet"
    /\ \E s \in syncTodo[r] :
          /\ syncTodo' = [syncTodo EXCEPT ![r] = @ \ {s}]
          /\ \/ Live(s) /\ UNCHANGED <<index, sremFailed>>
             \/ ~Live(s) /\ SRemUnchecked(r, s)
    /\ UNCHANGED <<live, devOf, nextSid, cookie, rpc, rkind, rsid, renewed, signedOut>>

\* Sync returns; SignOut sets the deleted cookie.
SyncDone(r) ==
    /\ rpc[r] = "syncGet"
    /\ syncTodo[r] = {}
    /\ cookie' = [cookie EXCEPT ![Dev(r)] = NoSid]
    /\ signedOut' = [signedOut EXCEPT ![Dev(r)] = TRUE]
    /\ Finish(r)
    /\ UNCHANGED <<live, devOf, index, nextSid, rkind, syncTodo, sremFailed>>

-----------------------------------------------------------------------------
(* Every redis call whose error the code checks may fail (a dropped        *)
(* connection, a timeout). SetNew, RenewSession, Delete, Sync and the      *)
(* authorize middleware all return the error at once, so the request ends  *)
(* with what earlier calls wrote in place and nothing of the failing call. *)
(* A process restart of extauth ends every request in flight in the same   *)
(* way, one after the other. The SREM inside Sync's loop is the one call   *)
(* whose result is not checked; its failure is SRemUnchecked's.           *)

\* The request is about to make a redis call.
AtRedisCall(r) ==
    /\ rpc[r] # "idle"
    /\ rpc[r] = "syncGet" => syncTodo[r] # {}

RedisError(r) ==
    /\ AtRedisCall(r)
    /\ Finish(r)
    /\ UNCHANGED <<live, devOf, index, nextSid, cookie, rkind, syncTodo, signedOut, sremFailed>>

-----------------------------------------------------------------------------
(* Redis TTL: time brings a key within TTLRefresh of expiry, then expires  *)
(* it.                                                                     *)

Age(s) ==
    /\ live[s] = "fresh"
    /\ live' = [live EXCEPT ![s] = "near"]
    /\ UNCHANGED <<devOf, index, nextSid, cookie, rpc, rkind, rsid, renewed, syncTodo, signedOut, sremFailed>>

Expire(s) ==
    /\ live[s] = "near"
    /\ live' = [live EXCEPT ![s] = "none"]
    /\ UNCHANGED <<devOf, index, nextSid, cookie, rpc, rkind, rsid, renewed, syncTodo, signedOut, sremFailed>>

Init ==
    /\ live = [s \in Sids |-> "none"]
    /\ devOf = [s \in Sids |-> CHOOSE d \in Devices : TRUE]
    /\ index = [u \in Users |-> {}]
    /\ nextSid = 1
    /\ cookie = [d \in Devices |-> NoSid]
    /\ rpc = [r \in Reqs |-> "idle"]
    /\ rkind = [r \in Reqs |-> "default"]
    /\ rsid = [r \in Reqs |-> NoSid]
    /\ renewed = [r \in Reqs |-> FALSE]
    /\ syncTodo = [r \in Reqs |-> {}]
    /\ signedOut = [d \in Devices |-> FALSE]
    /\ sremFailed = {}

RequestStep(r) ==
    \/ LoginSAdd(r) \/ LoginSet(r)
    \/ Start(r) \/ HasSession(r) \/ TTL(r) \/ GetUser(r)
    \/ RenewGet(r) \/ RenewDel(r) \/ RenewSRem(r) \/ RenewSAdd(r) \/ RenewSet(r)
    \/ DeleteGet(r) \/ DeleteDel(r) \/ SyncMembers(r) \/ SyncGet(r) \/ SyncDone(r)
    \/ RedisError(r)

Next ==
    \/ \E r \in Reqs : RequestStep(r)
    \/ \E s \in Sids : Age(s) \/ Expire(s)

Spec == Init /\ [][Next]_vars

-----------------------------------------------------------------------------
TypeOK ==
    /\ live \in [Sids -> {"none", "fresh", "near"}]
    /\ devOf \in [Sids -> Devices]
    /\ index \in [Users -> SUBSET Sids]
    /\ nextSid \in 1..MaxSessions + 1
    /\ cookie \in [Devices -> Sids \cup {NoSid}]
    /\ rpc \in [Reqs -> {"idle", "loginSet", "has", "ttl", "getUser", "renewGet",
                         "renewDel", "renewSRem", "renewSAdd", "renewSet",
                         "delGet", "delDel", "syncMembers", "syncGet"}]
    /\ rkind \in [Reqs -> {"default", "signout"}]
    /\ rsid \in [Reqs -> Sids \cup {NoSid}]
    /\ renewed \in [Reqs -> BOOLEAN]
    /\ syncTodo \in [Reqs -> SUBSET Sids]
    /\ signedOut \in [Devices -> BOOLEAN]
    /\ sremFailed \in SUBSET Sids

\* A SignOut that returned OK leaves its session neither live nor in the
\* user's index (Delete's DEL, then the SREM of Sync's pass over the
\* index, which skips live ids and goes on past missing ones), unless the
\* SREM of that id failed: Sync ignores its result and SignOut still
\* reports OK.
SignedOutSessionForgotten ==
    \A r \in Reqs :
        rpc[r] = "syncGet" /\ syncTodo[r] = {} =>
            /\ ~Live(rsid[r])
            /\ rsid[r] \in index[UserOfSid(rsid[r])] => rsid[r] \in sremFailed

\* After a SignOut of a device returns OK, no session of that device is
\* live until it logs in again.
SignOutIsFinal ==
    \A d \in Devices : signedOut[d] => \A s \in Sids : devOf[s] = d => ~Live(s)

=============================================================================
