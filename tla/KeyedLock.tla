----------------------------- MODULE KeyedLock ------------------------------
(***************************************************************************)
(* The keyed lock registry of pkg/lock: a sync.Map from key to             *)
(* *sync.RWMutex, filled lazily by LoadOrStore and never emptied. Lock and *)
(* RLock return the release function; the callers defer it.               *)
(*                                                                         *)
(* Every value the code stores is a *sync.RWMutex, so the type-assertion   *)
(* error of Lock and RLock never happens and is left out. A writer that    *)
(* waits for readers to leave also stops new readers in Go; no module has  *)
(* readers and writers on the same key, so that rule is not modelled.      *)
(***************************************************************************)
CONSTANTS
    Keys,       \* the keys the callers lock
    Holders     \* the tasks that take locks

VARIABLES
    stored,     \* the keys present in the sync.Map
    mutexes     \* mutexes[k]: the writer set and the reader set of k's mutex

lockVars == <<stored, mutexes>>

Unheld == [w |-> {}, r |-> {}]

LockInit ==
    /\ stored = {}
    /\ mutexes = [k \in Keys |-> Unheld]

\* Lock(key): LoadOrStore the key's mutex, then mtx.Lock(), which waits
\* until nobody holds it.
Lock(h, k) ==
    /\ mutexes[k] = Unheld
    /\ stored' = stored \cup {k}
    /\ mutexes' = [mutexes EXCEPT ![k].w = {h}]

\* RLock(key): LoadOrStore, then mtx.RLock(), which waits while a writer
\* holds the mutex.
RLock(h, k) ==
    /\ mutexes[k].w = {}
    /\ stored' = stored \cup {k}
    /\ mutexes' = [mutexes EXCEPT ![k].r = @ \cup {h}]

\* The release functions: mtx.Unlock() and mtx.RUnlock(); the sync.Map
\* keeps the entry.
Unlock(h, k) ==
    /\ mutexes' = [mutexes EXCEPT ![k].w = @ \ {h}]
    /\ UNCHANGED stored

RUnlock(h, k) ==
    /\ mutexes' = [mutexes EXCEPT ![k].r = @ \ {h}]
    /\ UNCHANGED stored

LockTypeOK ==
    /\ stored \subseteq Keys
    /\ mutexes \in [Keys -> [w : SUBSET Holders, r : SUBSET Holders]]

=============================================================================
