--------------------------- MODULE WorkspaceCache ---------------------------
(***************************************************************************)
(* The user workspaces: Manager.GetUserWorkspace with its double check     *)
(* (src/internal/workspace/manager.go) over the expiring LRU cache of open *)
(* databases (src/internal/workspace/cache.go), called by concurrent       *)
(* requests.  A request calls GetUserWorkspace once and then uses what it  *)
(* got; the workspace that a request creates is named by the request.      *)
(* Every method that changes the map of entries holds wc.mu for writing    *)
(* and is one action.  Get holds it for reading only: between its look at  *)
(* LastAccess and its own write of it other calls of Get run and time      *)
(* passes, so these are two steps of it.  (That write races with the reads *)
(* of other calls; what they compare is one word, the monotonic clock.)    *)
(***************************************************************************)
EXTENDS Integers, FiniteSets

CONSTANTS
    Users,
    Requests,   \* calls of GetUserWorkspace, and the workspaces they create
    MaxSize,    \* cache.workspace.max_size
    None

ASSUME CacheAssumption ==
    /\ IsFiniteSet(Users)
    /\ MaxSize \in Nat \ {0}
    /\ None \notin Requests

VARIABLES
    entries,    \* wc.entries: the workspace cached for each user
    expired,    \* the cached users whose LastAccess is more than the TTL ago
    older,      \* the users whose LastAccess is before that of each user
    open,       \* the workspaces whose databases are open
    removers,   \* number of goroutines started to remove each user's entry
    cleaner,    \* whether the cleanup goroutine runs
    closed,     \* whether Close has returned
    mu,         \* the request that holds the manager's mutex
    pc,         \* progress of each request
    user,       \* whom each request is for
    ws          \* the workspace that GetUserWorkspace returned to it

cacheVars == <<entries, expired, older, open, removers>>
vars == <<cacheVars, cleaner, closed, mu, pc, user, ws>>

Cached == {u \in Users : entries[u] # None}

Hit(u) == u \in Cached \ expired

\* The calls of Get that hold wc.mu for reading and have yet to refresh.
Readers == {r \in Requests : pc[r] = "touch"}

Init ==
    /\ entries = [u \in Users |-> None]
    /\ expired = {}
    /\ older = [u \in Users |-> {}]
    /\ open = {}
    /\ removers = [u \in Users |-> 0]
    /\ cleaner = TRUE
    /\ closed = FALSE
    /\ mu = None
    /\ pc = [r \in Requests |-> "look"]
    /\ user \in [Requests -> Users]
    /\ ws = [r \in Requests |-> None]

Goto(r, l) == pc' = [pc EXCEPT ![r] = l]

\* LastAccess becomes the present.
Touch(u) ==
    older' = [v \in Users |-> IF v = u THEN Users \ {u} ELSE older[v] \ {u}]

\* Mutant: the databases are closed and the entries stay.
RemoveForgetsDelete(S) ==
    /\ open' = open \ {entries[u] : u \in S}
    /\ expired' = expired \ S
    /\ UNCHANGED entries

\* removeEntryUnsafe for each user of S: databases closed, entry deleted.
Remove(S) ==
    /\ open' = open \ {entries[u] : u \in S}
    /\ entries' = [u \in Users |-> IF u \in S THEN None ELSE entries[u]]
    /\ expired' = expired \ S

-----------------------------------------------------------------------------
(* GetUserWorkspace.                                                       *)

\* Get finds an entry that has not expired, and is about to refresh it.  The
\* second look of GetUserWorkspace keeps the manager's mutex meanwhile.
GetHits(r) ==
    /\ Hit(user[r])
    /\ ws' = [ws EXCEPT ![r] = entries[user[r]]]
    /\ Goto(r, "touch")
    /\ UNCHANGED <<entries, expired, older, open, removers>>

\* LastAccess is written, also if the entry has expired since, and both locks
\* are released.
Refresh(r) ==
    /\ pc[r] = "touch"
    /\ Touch(user[r])
    /\ expired' = expired \ {user[r]}
    /\ mu' = IF mu = r THEN None ELSE mu
    /\ Goto(r, "use")
    /\ UNCHANGED <<entries, open, removers, cleaner, closed, user, ws>>

\* Get finds nothing, or an expired entry that a new goroutine is to remove.
GetMisses(r, next) ==
    /\ ~Hit(user[r])
    /\ removers' = IF user[r] \in expired
                   THEN [removers EXCEPT ![user[r]] = @ + 1] ELSE removers
    /\ Goto(r, next)
    /\ UNCHANGED <<entries, expired, older, open, ws>>

Look(r) ==
    /\ pc[r] = "look"
    /\ GetHits(r) \/ GetMisses(r, "lock")
    /\ UNCHANGED mu
    /\ UNCHANGED <<cleaner, closed, user>>

\* Mutant: no second look at the cache once the mutex is held.
NoRecheck(r) ==
    /\ pc[r] = "lock"
    /\ mu = None
    /\ mu' = r
    /\ Goto(r, "create")
    /\ UNCHANGED <<cacheVars, cleaner, closed, user, ws>>

\* The second look, under the manager's mutex.
Recheck(r) ==
    /\ pc[r] = "lock"
    /\ mu = None
    /\ mu' = r
    /\ GetHits(r) \/ GetMisses(r, "create")
    /\ UNCHANGED <<cleaner, closed, user>>

Create(r) ==
    /\ pc[r] = "create"
    /\ open' = open \cup {r}
    /\ Goto(r, "put")
    /\ UNCHANGED <<entries, expired, older, removers, cleaner, closed, mu, user, ws>>

\* Mutant: the error path keeps the mutex.
CreateFailsLocked(r) ==
    /\ pc[r] = "create"
    /\ Goto(r, "done")
    /\ UNCHANGED <<cacheVars, cleaner, closed, mu, user, ws>>

\* A directory, a database or a table cannot be created: what was opened is
\* closed again and the request gets an error.
CreateFails(r) ==
    /\ pc[r] = "create"
    /\ Goto(r, "done")
    /\ mu' = None
    /\ UNCHANGED <<cacheVars, cleaner, closed, user, ws>>

IsOldest(u) == u \in Cached /\ \A v \in Cached \ {u} : v \notin older[u]

\* evictLRU when the cache is full, even if it already has the user.
Full == Cardinality(Cached) >= MaxSize

\* The entry for user[r] with S evicted first; an entry that the user still has
\* is overwritten, and its databases stay open.
Store(r, S) ==
    /\ entries' = [u \in Users |-> IF u = user[r] THEN r
                                   ELSE IF u \in S THEN None ELSE entries[u]]
    /\ open' = open \ {entries[u] : u \in S}
    /\ expired' = expired \ (S \cup {user[r]})

Put(r) ==
    /\ pc[r] = "put" /\ Readers = {}
    /\ \/ Full /\ \E u \in Users : IsOldest(u) /\ Store(r, {u})
       \/ ~Full /\ Store(r, {})
    /\ Touch(user[r])
    /\ ws' = [ws EXCEPT ![r] = r]
    /\ Goto(r, "use")
    /\ mu' = None
    /\ UNCHANGED <<removers, cleaner, closed, user>>

-----------------------------------------------------------------------------
(* The request uses its workspace, without any lock.                       *)

UseSucceeds(r) ==
    /\ pc[r] = "use"
    /\ ws[r] \in open
    /\ Goto(r, "done")
    /\ UNCHANGED <<cacheVars, cleaner, closed, mu, user, ws>>

\* The databases were closed meanwhile: every statement fails.
UseFails(r) ==
    /\ pc[r] = "use"
    /\ ws[r] \notin open
    /\ Goto(r, "failed")
    /\ UNCHANGED <<cacheVars, cleaner, closed, mu, user, ws>>

-----------------------------------------------------------------------------
(* Expiry, removal and shutdown.                                           *)

\* Time passes: the longest unused entry that has not expired does.
Expire(u) ==
    /\ Hit(u)
    /\ \A v \in Cached \ {u} : v \in older[u] => v \in expired
    /\ expired' = expired \cup {u}
    /\ UNCHANGED <<entries, older, open, removers, cleaner, closed, mu, pc, user, ws>>

\* A goroutine that Get started: it removes the entry the user has by now.
RemoveEntry(u) ==
    /\ removers[u] > 0 /\ Readers = {}
    /\ removers' = [removers EXCEPT ![u] = @ - 1]
    /\ Remove({u} \cap Cached)
    /\ UNCHANGED <<older, cleaner, closed, mu, pc, user, ws>>

\* Manager.RemoveWorkspace, exported for administration and not called yet.
RemoveWorkspace(u) ==
    /\ Readers = {}
    /\ Remove({u} \cap Cached)
    /\ UNCHANGED <<older, removers, cleaner, closed, mu, pc, user, ws>>

CleanupOnce ==
    /\ cleaner /\ Readers = {}
    /\ expired # {}
    /\ Remove(expired)
    /\ UNCHANGED <<older, removers, cleaner, closed, mu, pc, user, ws>>

CleanerStops ==
    /\ closed
    /\ cleaner
    /\ cleaner' = FALSE
    /\ UNCHANGED <<cacheVars, closed, mu, pc, user, ws>>

\* Manager.Close, under the manager's mutex; main.go never calls it.
Close ==
    /\ ~closed
    /\ mu = None /\ Readers = {}
    /\ closed' = TRUE
    /\ Remove(Cached)
    /\ UNCHANGED <<older, removers, cleaner, mu, pc, user, ws>>

GetUserWorkspace(r) ==
    Look(r) \/ Recheck(r) \/ Refresh(r) \/ Create(r) \/ CreateFails(r) \/ Put(r)

Use(r) == UseSucceeds(r) \/ UseFails(r)

Next ==
    \/ \E r \in Requests : GetUserWorkspace(r) \/ Use(r)
    \/ \E u \in Users : Expire(u) \/ RemoveEntry(u) \/ RemoveWorkspace(u)
    \/ CleanupOnce \/ CleanerStops \/ Close

Spec == Init /\ [][Next]_vars

\* Requests and removers are goroutines, which Go schedules and whose mutexes
\* do not starve; nothing makes time pass, the cleaner run or anyone call Close.
Fairness ==
    /\ \A r \in Requests : WF_vars(GetUserWorkspace(r)) /\ WF_vars(Use(r))
    /\ \A u \in Users : WF_vars(RemoveEntry(u))

FairSpec == Spec /\ Fairness

-----------------------------------------------------------------------------
(* Properties.                                                             *)

\* Every variable has its type; an expired entry is a cached one.
TypeOK ==
    /\ entries \in [Users -> Requests \cup {None}]
    /\ expired \subseteq Cached
    /\ older \in [Users -> SUBSET Users]
    /\ open \subseteq Requests
    /\ removers \in [Users -> Nat]
    /\ cleaner \in BOOLEAN /\ closed \in BOOLEAN
    /\ mu \in Requests \cup {None}
    /\ pc \in [Requests -> {"look", "lock", "touch", "create", "put", "use",
                           "done", "failed"}]
    /\ user \in [Requests -> Users]
    /\ ws \in [Requests -> Requests \cup {None}]

\* Whatever evictions, expiries and removers do, the cache never hands out a
\* workspace whose databases it has closed; and a workspace that was handed out
\* is the caller's own, not another user's.
CachedIsUsable ==
    /\ \A u \in Cached : entries[u] \in open /\ user[entries[u]] = u
    /\ \A r \in Requests : ws[r] # None => user[ws[r]] = user[r]

\* A workspace leaves the cache without being closed, and so is never closed,
\* only when a Put overtakes the goroutine that was started to remove its entry
\* as an expired one: no other path overwrites an entry.
OnlyOvertakenLeak ==
    [][\A u \in Cached : LET w == entries[u] IN
          entries'[u] # w /\ w \in open' => removers[u] > 0]_vars

\* The double check: while a request creates a workspace no other request does,
\* and if the cache still has one for the same user its removal is under way.
\* (It may even be live: a Get that judged it before it expired refreshes it
\* after the creator has seen it expired.)
NoConcurrentCreation ==
    \A r \in Requests : pc[r] \in {"create", "put"} =>
        mu = r /\ (user[r] \in Cached => removers[user[r]] > 0)

\* The cache never holds more workspaces than configured.
WithinCapacity == Cardinality(Cached) <= MaxSize

\* Every request ends, with a workspace or an error, and the manager's mutex is
\* free again.
RequestsEnd ==
    /\ \A r \in Requests : <>(pc[r] \in {"done", "failed"})
    /\ <>[](mu = None)

\* cache.go says that the goroutine started by Get removes an expired entry:
\* it never removes one that is live.
RemovesOnlyExpired ==
    [][\A u \in Users : removers'[u] < removers[u] => ~Hit(u)]_vars
=============================================================================
