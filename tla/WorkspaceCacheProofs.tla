------------------------ MODULE WorkspaceCacheProofs ------------------------
(***************************************************************************)
(* Proofs about WorkspaceCache, for any users, requests and cache size.    *)
(***************************************************************************)
EXTENDS WorkspaceCache, FiniteSetTheorems, TLAPS

\* Every variable is well typed in every reachable state of GetUserWorkspace
\* and the cache.
THEOREM TypeCorrect == Spec => []TypeOK
<1>1. Init => TypeOK
  <2> SUFFICES ASSUME Init PROVE TypeOK
    OBVIOUS
  <2>1. /\ entries \in [Users -> Requests \cup {None}]
        /\ older \in [Users -> SUBSET Users]
        /\ removers \in [Users -> Nat]
    BY DEF Init
  <2>2. /\ pc \in [Requests -> {"look", "lock", "touch", "create", "put", "use",
                             "done", "failed"}]
        /\ ws \in [Requests -> Requests \cup {None}]
        /\ user \in [Requests -> Users]
    BY DEF Init
  <2> QED
    BY <2>1, <2>2 DEF Init, TypeOK
<1>2. TypeOK /\ [Next]_vars => TypeOK'
  <2> SUFFICES ASSUME TypeOK, [Next]_vars PROVE TypeOK'
    OBVIOUS
  <2> USE CacheAssumption
  <2>1. ASSUME NEW r \in Requests, Look(r) PROVE TypeOK'
    BY <2>1 DEF Look, GetHits, GetMisses, Hit, Touch, Goto, TypeOK, Cached
  <2>2. ASSUME NEW r \in Requests, Recheck(r) PROVE TypeOK'
    BY <2>2 DEF Recheck, GetHits, GetMisses, Hit, Touch, Goto, TypeOK, Cached
  <2>2a. ASSUME NEW r \in Requests, Refresh(r) PROVE TypeOK'
    <3>1. older' \in [Users -> SUBSET Users]
      BY <2>2a DEF Refresh, Touch, TypeOK
    <3> QED
      BY <2>2a, <3>1 DEF Refresh, Goto, TypeOK, Cached
  <2>3. ASSUME NEW r \in Requests, Create(r) PROVE TypeOK'
    BY <2>3 DEF Create, Goto, TypeOK, Cached
  <2>4. ASSUME NEW r \in Requests, CreateFails(r) PROVE TypeOK'
    BY <2>4 DEF CreateFails, Goto, cacheVars, TypeOK, Cached
  <2>5. ASSUME NEW r \in Requests, Put(r) PROVE TypeOK'
    <3>1. PICK S \in SUBSET Users : Store(r, S)
      BY <2>5 DEF Put
    <3>2. entries' \in [Users -> Requests \cup {None}]
      BY <3>1 DEF Store, TypeOK
    <3>3. expired' \subseteq Cached'
      BY <3>1 DEF Store, TypeOK, Cached
    <3>4. open' \subseteq Requests
      BY <3>1 DEF Store, TypeOK
    <3>5. older' \in [Users -> SUBSET Users]
      BY <2>5 DEF Put, Touch, TypeOK
    <3> QED
      BY <2>5, <3>2, <3>3, <3>4, <3>5 DEF Put, Goto, TypeOK
  <2>6. ASSUME NEW r \in Requests, Use(r) PROVE TypeOK'
    BY <2>6 DEF Use, UseSucceeds, UseFails, Goto, cacheVars, TypeOK, Cached
  <2>7. ASSUME NEW u \in Users, Expire(u) PROVE TypeOK'
    BY <2>7 DEF Expire, Hit, TypeOK, Cached
  <2>8. ASSUME NEW u \in Users, RemoveEntry(u) PROVE TypeOK'
    BY <2>8 DEF RemoveEntry, Remove, TypeOK, Cached
  <2>8a. ASSUME NEW u \in Users, RemoveWorkspace(u) PROVE TypeOK'
    BY <2>8a DEF RemoveWorkspace, Remove, TypeOK, Cached
  <2>9. CASE CleanupOnce
    BY <2>9 DEF CleanupOnce, Remove, TypeOK, Cached
  <2>10. CASE CleanerStops
    BY <2>10 DEF CleanerStops, cacheVars, TypeOK, Cached
  <2>11. CASE Close
    BY <2>11 DEF Close, Remove, TypeOK, Cached
  <2>12. CASE UNCHANGED vars
    BY <2>12 DEF vars, cacheVars, TypeOK, Cached
  <2> QED
    BY <2>1, <2>2, <2>2a, <2>3, <2>4, <2>5, <2>6, <2>7, <2>8, <2>8a, <2>9, <2>10, <2>11,
       <2>12 DEF Next, GetUserWorkspace
<1> QED
  BY <1>1, <1>2, PTL DEF Spec

-----------------------------------------------------------------------------
(* The inductive invariant.  A workspace goes from its creator to the      *)
(* cache, once: it is open when it is put, and it is not cached before.    *)

CachedWasPut ==
    \A u \in Cached : pc[entries[u]] \in {"use", "done", "failed"}

PutIsOpen ==
    \A r \in Requests : pc[r] = "put" => r \in open

IInv == CachedIsUsable /\ NoConcurrentCreation /\ CachedWasPut /\ PutIsOpen

\* Removing entries keeps the workspaces of the others open: no two users share
\* a workspace.
LEMMA RemoveKeepsOthers ==
    ASSUME TypeOK, IInv, NEW S \in SUBSET Cached, Remove(S), UNCHANGED <<user, ws>>
    PROVE  /\ CachedIsUsable'
           /\ Cached' \subseteq Cached
           /\ \A u \in Cached' : entries'[u] = entries[u]
           /\ \A r \in Requests :
                r \in open /\ (\A u \in Cached : entries[u] # r) => r \in open'
BY CacheAssumption DEF Remove, TypeOK, IInv, CachedIsUsable, Cached, Hit

\* The steps of the removers, of the cleaner and of Close, which touch neither
\* the requests nor the manager's mutex.
LEMMA RemovalPreserves ==
    ASSUME TypeOK, IInv, NEW S \in SUBSET Cached, Remove(S),
           UNCHANGED <<mu, pc, user, ws>>,
           \A u \in Cached' : removers'[u] = removers[u]
    PROVE  IInv'
<1>1. /\ CachedIsUsable'
      /\ Cached' \subseteq Cached
      /\ \A u \in Cached' : entries'[u] = entries[u]
      /\ \A r \in Requests :
           r \in open /\ (\A u \in Cached : entries[u] # r) => r \in open'
  BY RemoveKeepsOthers
<1>2. NoConcurrentCreation'
  BY <1>1 DEF TypeOK, IInv, NoConcurrentCreation
<1>3. CachedWasPut'
  BY <1>1 DEF IInv, CachedWasPut
<1>4. PutIsOpen'
  BY <1>1 DEF TypeOK, IInv, CachedWasPut, PutIsOpen
<1> QED
  BY <1>1, <1>2, <1>3, <1>4 DEF IInv

\* A cache hit hands out a cached workspace and moves the request on, whether
\* or not it holds the manager's mutex from now on.
LEMMA HitPreserves ==
    ASSUME TypeOK, IInv, NEW r \in Requests, pc[r] \in {"look", "lock"},
           GetHits(r), UNCHANGED user, mu' = mu \/ mu = None
    PROVE  IInv'
<1>1. /\ UNCHANGED <<entries, expired, open, removers, user>>
      /\ pc' = [pc EXCEPT ![r] = "touch"]
      /\ ws' = [ws EXCEPT ![r] = entries[user[r]]]
      /\ user[r] \in Cached
  BY DEF GetHits, Goto, Hit
<1>2. CachedIsUsable'
  BY <1>1 DEF TypeOK, IInv, CachedIsUsable, Cached
<1>3. NoConcurrentCreation'
  BY <1>1, CacheAssumption DEF TypeOK, IInv, NoConcurrentCreation, Cached
<1>4. CachedWasPut'
  BY <1>1 DEF TypeOK, IInv, CachedWasPut, Cached
<1>5. PutIsOpen'
  BY <1>1 DEF TypeOK, IInv, PutIsOpen
<1> QED
  BY <1>2, <1>3, <1>4, <1>5 DEF IInv

\* Put replaces the entry of its user, if any, by an open workspace.
LEMMA PutPreserves ==
    ASSUME TypeOK, IInv, NEW r \in Requests, Put(r)
    PROVE  IInv'
<1>1. PICK S \in SUBSET Cached : Store(r, S)
  BY DEF Put, IsOldest
<1>2. /\ pc[r] = "put" /\ mu = r /\ r \in open
      /\ pc' = [pc EXCEPT ![r] = "use"]
      /\ ws' = [ws EXCEPT ![r] = r]
      /\ user' = user
      /\ r # None
  BY CacheAssumption DEF Put, Goto, IInv, NoConcurrentCreation, PutIsOpen
<1>3. \A u \in Cached : entries[u] # r
  BY <1>2 DEF IInv, CachedWasPut
<1>4. /\ entries' = [u \in Users |-> IF u = user[r] THEN r
                                     ELSE IF u \in S THEN None ELSE entries[u]]
      /\ open' = open \ {entries[u] : u \in S}
  BY <1>1 DEF Store
<1>5. r \in open'
  BY <1>2, <1>3, <1>4
<1>6. user[r] \in Users
  BY DEF TypeOK
<1>7. /\ \A u \in Cached' \ {user[r]} :
             u \in Cached /\ u \notin S /\ entries'[u] = entries[u]
      /\ entries'[user[r]] = r
  BY <1>4, <1>6 DEF Cached
<1>8. CachedIsUsable'
  <2>1. ASSUME NEW u \in Cached', u # user[r]
        PROVE  entries'[u] \in open' /\ user[entries'[u]] = u
    <3>1. entries'[u] = entries[u] /\ u \in Cached /\ u \notin S
      BY <1>7, <2>1
    <3>2. entries[u] \in open /\ user[entries[u]] = u
      BY <3>1 DEF IInv, CachedIsUsable
    <3>3. \A v \in S : entries[v] # entries[u]
      BY <3>1, <3>2 DEF IInv, CachedIsUsable
    <3> QED
      BY <1>4, <3>1, <3>2, <3>3
  <2>2. \A q \in Requests : ws'[q] # None => user[ws'[q]] = user[q]
    BY <1>2 DEF TypeOK, IInv, CachedIsUsable
  <2> QED
    BY <1>2, <1>5, <1>7, <2>1, <2>2 DEF CachedIsUsable
<1>9. NoConcurrentCreation'
  BY <1>2 DEF TypeOK, IInv, NoConcurrentCreation
<1>10. CachedWasPut'
  BY <1>2, <1>6, <1>7 DEF TypeOK, IInv, CachedWasPut, Cached
<1>11. PutIsOpen'
  BY <1>2 DEF TypeOK, IInv, PutIsOpen, NoConcurrentCreation
<1> QED
  BY <1>8, <1>9, <1>10, <1>11 DEF IInv

-----------------------------------------------------------------------------
(* The invariance of IInv.                                                 *)

LEMMA StepPreserves == TypeOK /\ IInv /\ [Next]_vars => IInv'
<1> SUFFICES ASSUME TypeOK, IInv, [Next]_vars PROVE IInv'
  OBVIOUS
<1> USE CacheAssumption
<1>1. ASSUME NEW r \in Requests, Look(r) PROVE IInv'
  <2>1. CASE GetHits(r)
    BY <1>1, <2>1, HitPreserves DEF Look
  <2>2. CASE GetMisses(r, "lock")
    BY <1>1, <2>2 DEF Look, GetMisses, Goto, TypeOK, IInv, CachedIsUsable,
       NoConcurrentCreation, CachedWasPut, PutIsOpen, Cached, Hit
  <2> QED
    BY <1>1, <2>1, <2>2 DEF Look
<1>2. ASSUME NEW r \in Requests, Recheck(r) PROVE IInv'
  <2>1. CASE GetHits(r)
    BY <1>2, <2>1, HitPreserves DEF Recheck
  <2>2. CASE GetMisses(r, "create")
    BY <1>2, <2>2 DEF Recheck, GetMisses, Goto, TypeOK, IInv, CachedIsUsable,
       NoConcurrentCreation, CachedWasPut, PutIsOpen, Cached, Hit
  <2> QED
    BY <1>2, <2>1, <2>2 DEF Recheck
<1>2a. ASSUME NEW r \in Requests, Refresh(r) PROVE IInv'
  BY <1>2a DEF Refresh, Goto, TypeOK, IInv, CachedIsUsable,
     NoConcurrentCreation, CachedWasPut, PutIsOpen, Cached
<1>3. ASSUME NEW r \in Requests, Create(r) PROVE IInv'
  BY <1>3 DEF Create, Goto, TypeOK, IInv, CachedIsUsable,
     NoConcurrentCreation, CachedWasPut, PutIsOpen, Cached, Hit
<1>4. ASSUME NEW r \in Requests, CreateFails(r) PROVE IInv'
  BY <1>4 DEF CreateFails, Goto, cacheVars, TypeOK, IInv, CachedIsUsable,
     NoConcurrentCreation, CachedWasPut, PutIsOpen, Cached, Hit
<1>5. ASSUME NEW r \in Requests, Put(r) PROVE IInv'
  BY <1>5, PutPreserves
<1>6. ASSUME NEW r \in Requests, Use(r) PROVE IInv'
  BY <1>6 DEF Use, UseSucceeds, UseFails, Goto, cacheVars, TypeOK, IInv,
     CachedIsUsable, NoConcurrentCreation, CachedWasPut, PutIsOpen, Cached, Hit
<1>7. ASSUME NEW u \in Users, Expire(u) PROVE IInv'
  BY <1>7 DEF Expire, TypeOK, IInv, CachedIsUsable, NoConcurrentCreation,
     CachedWasPut, PutIsOpen, Cached, Hit
<1>8. ASSUME NEW u \in Users, RemoveEntry(u) PROVE IInv'
  <2>1. /\ Remove({u} \cap Cached) /\ UNCHANGED <<mu, pc, user, ws>>
        /\ removers' = [removers EXCEPT ![u] = @ - 1]
    BY <1>8 DEF RemoveEntry
  <2>2. \A v \in Cached' : removers'[v] = removers[v]
    BY <2>1 DEF Remove, Cached, TypeOK
  <2> QED
    BY <2>1, <2>2, RemovalPreserves
<1>8a. ASSUME NEW u \in Users, RemoveWorkspace(u) PROVE IInv'
  BY <1>8a, RemovalPreserves DEF RemoveWorkspace
<1>9. CASE CleanupOnce
  <2>1. expired \in SUBSET Cached
    BY DEF TypeOK
  <2> QED
    BY <1>9, <2>1, RemovalPreserves DEF CleanupOnce
<1>10. CASE CleanerStops
  BY <1>10 DEF CleanerStops, cacheVars, TypeOK, IInv, CachedIsUsable,
     NoConcurrentCreation, CachedWasPut, PutIsOpen, Cached, Hit
<1>11. CASE Close
  BY <1>11, RemovalPreserves DEF Close
<1>12. CASE UNCHANGED vars
  BY <1>12 DEF vars, cacheVars, IInv, CachedIsUsable, NoConcurrentCreation,
     CachedWasPut, PutIsOpen, Cached, Hit
<1> QED
  BY <1>1, <1>2, <1>2a, <1>3, <1>4, <1>5, <1>6, <1>7, <1>8, <1>8a, <1>9, <1>10, <1>11,
     <1>12 DEF Next, GetUserWorkspace

LEMMA Inductive == Spec => []IInv
<1>1. Init => IInv
  BY CacheAssumption DEF Init, IInv, CachedIsUsable, NoConcurrentCreation,
     CachedWasPut, PutIsOpen, Cached
<1> QED
  BY <1>1, TypeCorrect, StepPreserves, PTL DEF Spec

\* Whatever is evicted, expires or is removed, and in whatever order, Get hands
\* out open workspaces of the right user.
THEOREM CacheIsUsable == Spec => []CachedIsUsable
BY Inductive, PTL DEF IInv

\* The double check of GetUserWorkspace: a workspace is created by one request
\* at a time, and only for a user whose entry is gone or about to be removed.
THEOREM OneCreator == Spec => []NoConcurrentCreation
BY Inductive, PTL DEF IInv

\* The workspace of an entry leaves the cache unclosed only while a goroutine
\* that was to remove it has not run.
THEOREM OthersAreClosed == Spec => OnlyOvertakenLeak
<1>1. TypeOK /\ IInv /\ [Next]_vars
        => [\A u \in Cached : LET w == entries[u] IN
              entries'[u] # w /\ w \in open' => removers[u] > 0]_vars
  <2> SUFFICES ASSUME TypeOK, IInv, Next, NEW u \in Cached,
                      entries'[u] # entries[u], entries[u] \in open'
               PROVE  removers[u] > 0
    OBVIOUS
  <2>1. ASSUME NEW S \in SUBSET Cached, Remove(S) PROVE FALSE
    BY <2>1 DEF Remove, Cached
  <2>2. ~(CleanupOnce \/ Close \/ \E v \in Users : RemoveEntry(v) \/ RemoveWorkspace(v))
    BY <2>1 DEF CleanupOnce, Close, RemoveEntry, RemoveWorkspace, TypeOK
  <2>3. PICK r \in Requests : Put(r)
    BY <2>2 DEF Next, GetUserWorkspace, Look, GetHits, GetMisses, Recheck,
       Refresh, Create, CreateFails, Use, UseSucceeds, UseFails, Expire, CleanerStops, cacheVars
  <2>4. PICK S \in SUBSET Cached : Store(r, S)
    BY <2>3 DEF Put, IsOldest
  <2>5. u \notin S
    BY <2>4 DEF Store
  <2>6. u = user[r]
    BY <2>4, <2>5 DEF Store, Cached
  <2> QED
    BY <2>3, <2>6 DEF Put, IInv, NoConcurrentCreation
<1> QED
  BY <1>1, TypeCorrect, Inductive, PTL DEF Spec, OnlyOvertakenLeak

-----------------------------------------------------------------------------
(* The capacity.                                                           *)

\* One more element makes a set at most one larger.
LEMMA AddOne ==
    ASSUME NEW T, IsFiniteSet(T), NEW x
    PROVE  /\ IsFiniteSet(T \cup {x})
           /\ Cardinality(T \cup {x}) \in Nat
           /\ Cardinality(T \cup {x}) <= Cardinality(T) + 1
<1>1. Cardinality(T) \in Nat
  BY FS_CardinalityType
<1>2. CASE x \in T
  <2>1. T \cup {x} = T
    BY <1>2
  <2> QED
    BY <1>1, <2>1
<1>3. CASE x \notin T
  BY <1>1, <1>3, FS_AddElement
<1> QED
  BY <1>2, <1>3

\* A Put evicts an entry first when the cache is full, so the configured size
\* is never exceeded.
THEOREM CapacityHolds == Spec => []WithinCapacity
<1> USE CacheAssumption
<1>1. Init => WithinCapacity
  <2> SUFFICES ASSUME Init PROVE WithinCapacity
    OBVIOUS
  <2>1. Cached = {}
    BY DEF Init, Cached
  <2> QED
    BY <2>1, FS_EmptySet DEF WithinCapacity
<1>2. IsFiniteSet(Cached) /\ Cardinality(Cached) \in Nat
  BY FS_Subset, FS_CardinalityType DEF Cached
<1>3. ASSUME TypeOK, WithinCapacity, [Next]_vars PROVE WithinCapacity'
  <2>1. ASSUME Cached' \subseteq Cached PROVE WithinCapacity'
    BY <1>2, <1>3, <2>1, FS_Subset, FS_CardinalityType DEF WithinCapacity
  <2>2. ASSUME NEW S, Remove(S) PROVE Cached' \subseteq Cached
    BY <2>2 DEF Remove, Cached
  <2>3. ASSUME NEW r \in Requests, Put(r) PROVE WithinCapacity'
    <3>1. user[r] \in Users
      BY <1>3 DEF TypeOK
    <3>2. CASE Full /\ \E u \in Users : IsOldest(u) /\ Store(r, {u})
      <4>1. PICK u \in Cached : Store(r, {u})
        BY <3>2 DEF IsOldest
      <4>2. Cached' \subseteq (Cached \ {u}) \cup {user[r]}
        BY <3>1, <4>1 DEF Store, Cached
      <4> DEFINE C == Cached \ {u}
      <4>3. IsFiniteSet(C) /\ Cardinality(C) = Cardinality(Cached) - 1
        BY <1>2, FS_RemoveElement
      <4>4. /\ IsFiniteSet(C \cup {user[r]})
            /\ Cardinality(C \cup {user[r]}) <= Cardinality(C) + 1
        BY <4>3, AddOne
      <4>5. Cardinality(Cached') <= Cardinality(C \cup {user[r]})
        BY <4>2, <4>4, FS_Subset
      <4>6. Cardinality(Cached') \in Nat /\ Cardinality(C \cup {user[r]}) \in Nat
        BY <4>2, <4>4, FS_Subset, FS_CardinalityType
      <4> QED
        BY <1>2, <1>3, <4>3, <4>4, <4>5, <4>6 DEF WithinCapacity
    <3>3. CASE ~Full /\ Store(r, {})
      <4>1. Cached' \subseteq Cached \cup {user[r]}
        BY <3>1, <3>3 DEF Store, Cached
      <4>2. IsFiniteSet(Cached \cup {user[r]})
            /\ Cardinality(Cached \cup {user[r]}) <= Cardinality(Cached) + 1
        BY <1>2, AddOne
      <4>3. Cardinality(Cached') <= Cardinality(Cached \cup {user[r]})
        BY <4>1, <4>2, FS_Subset
      <4>4. Cardinality(Cached') \in Nat /\ Cardinality(Cached \cup {user[r]}) \in Nat
        BY <4>1, <4>2, FS_Subset, FS_CardinalityType
      <4> QED
        BY <1>2, <3>3, <4>2, <4>3, <4>4 DEF WithinCapacity, Full
    <3> QED
      BY <2>3, <3>2, <3>3 DEF Put
  <2>4. CASE \/ CleanupOnce \/ Close
             \/ \E u \in Users : RemoveEntry(u) \/ RemoveWorkspace(u)
    BY <2>1, <2>2, <2>4 DEF CleanupOnce, Close, RemoveEntry, RemoveWorkspace
  <2>5. CASE UNCHANGED entries
    BY <2>1, <2>5 DEF Cached
  <2> QED
    BY <1>3, <2>3, <2>4, <2>5 DEF Next, GetUserWorkspace, Look, GetHits,
       GetMisses, Recheck, Refresh, Create, CreateFails, Use, UseSucceeds, UseFails, Expire,
       CleanerStops, vars, cacheVars
<1> QED
  BY <1>1, <1>3, TypeCorrect, PTL DEF Spec
=============================================================================
