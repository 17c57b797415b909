------------------------- MODULE StoreAndPushProofs -------------------------
(***************************************************************************)
(* Proofs about StoreAndPush, for any users, messages, connections,        *)
(* workers and retry budget, with any number of crashes.                   *)
(***************************************************************************)
EXTENDS StoreAndPush, TLAPS

\* A worker at work has a message that is marked so, and, from its workspace on,
\* the one of the message's owner; past the INSERT the message is in it.
Together ==
    \A w \in Workers :
        /\ pc[w] # "idle" => at[w] \in Messages /\ phase[at[w]] = "working"
        /\ pc[w] \in {"idle", "get", "schedule"} => ws[w] = None
        /\ pc[w] \in {"create", "check", "insert", "touch", "push"} =>
              ws[w] \in Handles /\ ws[w].user = Target(w)
        /\ pc[w] \in {"touch", "push"} => at[w] \in rows[Target(w)]

\* No two workers have one message, or create a workspace at the same time.
Apart ==
    \A v, w \in Workers : v # w =>
        /\ pc[v] # "idle" /\ pc[w] # "idle" => at[v] # at[w]
        /\ ~(pc[v] = "create" /\ pc[w] = "create")

Known ==
    /\ \A m \in Messages : phase[m] # "new" => request[m] \in [owner : Users, user : Users]
    /\ \A u \in Users : \A m \in rows[u] : phase[m] # "new" /\ request[m].owner = u
    /\ \A m \in pushed : phase[m] = "delivered"

BuiltSoFar ==
    \A w \in Workers :
        pc[w] = "create" => {Parts[i] : i \in 1..built} \subseteq made[Target(w)]

Inv == TypeOK /\ Together /\ Apart /\ Known /\ BuiltSoFar /\ HandedOutComplete

LEMMA PartsType == Len(Parts) = 4 /\ \A i \in 1..4 : Parts[i] \in AllParts
<1>1. Len(Parts) = 4
  BY DEF Parts
<1> QED
  BY <1>1 DEF AllParts

LEMMA InitInv == ASSUME Init PROVE Inv
<1>1. TypeOK
  BY UsersAssumption, RetriesAssumption, PartsType DEF Init, TypeOK, Phases
<1>2. Together /\ Apart /\ Known /\ BuiltSoFar
  BY DEF Init, Together, Apart, Known, BuiltSoFar
<1>3. HandedOutComplete
  BY DEF Init, HandedOutComplete
<1> QED
  BY <1>1, <1>2, <1>3 DEF Inv

LEMMA UserIDType ==
    ASSUME NEW header \in Users \cup {None} PROVE UserID(header) \in Users
BY UsersAssumption DEF UserID

LEMMA CreateMessageKeepsInv ==
    ASSUME Inv, NEW m \in Messages, CreateMessage(m) PROVE Inv'
<1>1. PICK q \in [owner : Users, user : Users] : request' = [request EXCEPT ![m] = q]
  BY UserIDType DEF CreateMessage, MessageUser
<1>2. /\ phase[m] = "new"
      /\ \E p \in {"queued", "refused"} : phase' = [phase EXCEPT ![m] = p]
      /\ UNCHANGED <<attempts, pushed, pc, at, ws, built, cached, made, rows, conn, frames>>
  BY DEF CreateMessage, Becomes, worker, space, hub
<1>3. TypeOK'
  BY <1>1, <1>2 DEF Inv, TypeOK, Phases
<1>4. Together' /\ Apart' /\ BuiltSoFar'
  BY <1>1, <1>2 DEF Inv, Together, Apart, BuiltSoFar, Target, TypeOK
<1>5. Known'
  BY <1>1, <1>2 DEF Inv, Known, TypeOK
<1>6. HandedOutComplete'
  BY <1>2 DEF Inv, HandedOutComplete
<1> QED
  BY <1>3, <1>4, <1>5, <1>6 DEF Inv

LEMMA DropKeepsInv ==
    ASSUME Inv, NEW m \in Messages, Drop(m) PROVE Inv'
<1>1. /\ phase[m] = "queued"
      /\ \E p \in {"failed", "lost"} : phase' = [phase EXCEPT ![m] = p]
      /\ UNCHANGED <<request, attempts, pushed, pc, at, ws, built, cached, made,
                     rows, conn, frames>>
  BY DEF Drop, Becomes, worker, space, hub
<1>2. TypeOK'
  BY <1>1 DEF Inv, TypeOK, Phases
<1>3. Together' /\ Apart' /\ BuiltSoFar'
  BY <1>1 DEF Inv, Together, Apart, BuiltSoFar, Target, TypeOK
<1>4. Known'
  BY <1>1 DEF Inv, Known, TypeOK
<1>5. HandedOutComplete'
  BY <1>1 DEF Inv, HandedOutComplete
<1> QED
  BY <1>2, <1>3, <1>4, <1>5 DEF Inv

LEMMA TakeKeepsInv ==
    ASSUME Inv, NEW w \in Workers, NEW m \in Messages, Take(w, m) PROVE Inv'
<1>1. /\ pc[w] = "idle" /\ phase[m] = "queued"
      /\ phase' = [phase EXCEPT ![m] = "working"]
      /\ at' = [at EXCEPT ![w] = m]
      /\ \E l \in {"get", "schedule"} : pc' = [pc EXCEPT ![w] = l]
      /\ UNCHANGED <<request, attempts, pushed, ws, built, cached, made,
                     rows, conn, frames>>
  BY DEF Take, Becomes, Goto, space, hub
<1>2. TypeOK'
  BY <1>1 DEF Inv, TypeOK, Phases
<1>3. Together'
  BY <1>1 DEF Inv, Together, Target, TypeOK
<1>4. Apart'
  <2> SUFFICES ASSUME NEW v \in Workers, NEW x \in Workers, v # x
               PROVE  /\ pc'[v] # "idle" /\ pc'[x] # "idle" => at'[v] # at'[x]
                      /\ ~(pc'[v] = "create" /\ pc'[x] = "create")
    BY DEF Apart
  <2>1. \A q \in Workers \ {w} : pc[q] # "idle" => at[q] # m
    BY <1>1 DEF Inv, Together
  <2> QED
    BY <1>1, <2>1 DEF Inv, Apart, TypeOK
<1>5. BuiltSoFar'
  BY <1>1 DEF Inv, BuiltSoFar, Target, TypeOK
<1>6. Known'
  BY <1>1 DEF Inv, Known, TypeOK
<1>7. HandedOutComplete'
  BY <1>1 DEF Inv, HandedOutComplete, Together, TypeOK
<1> QED
  BY <1>2, <1>3, <1>4, <1>5, <1>6, <1>7 DEF Inv

\* A worker that goes from one step of its task to the next.
LEMMA StepKeepsApart ==
    ASSUME TypeOK, Apart, NEW w \in Workers, NEW l, pc' = [pc EXCEPT ![w] = l],
           pc[w] # "idle", at' = at, l = "create" => Building = {}
    PROVE  Apart'
BY DEF TypeOK, Apart, Building

LEMMA GetKeepsInv ==
    ASSUME Inv, NEW w \in Workers, GetCached(w) \/ StartCreate(w) PROVE Inv'
<1>1. /\ pc[w] = "get" /\ Target(w) \in Users
      /\ UNCHANGED <<request, phase, attempts, pushed, at, cached, made, rows, conn, frames>>
  <2>1. request[at[w]].owner \in Users
    BY DEF GetCached, StartCreate, Inv, Together, Known
  <2> QED
    BY <2>1 DEF GetCached, StartCreate, message, space, hub, Target
<1>2. \A v \in Workers : Target(v)' = Target(v)
  BY <1>1 DEF Target
<1>3. \/ /\ pc' = [pc EXCEPT ![w] = "check"] /\ Target(w) \in cached
         /\ ws' = [ws EXCEPT ![w] = [user |-> Target(w), state |-> "cached"]]
         /\ built' = built
      \/ /\ pc' = [pc EXCEPT ![w] = "create"] /\ Building = {}
         /\ ws' = [ws EXCEPT ![w] = [user |-> Target(w), state |-> "new"]]
         /\ built' = 0
  BY DEF GetCached, StartCreate, Goto, space
<1>4. TypeOK'
  <2>1. ws' \in [Workers -> Handles \cup {None}]
    BY <1>1, <1>3 DEF Inv, TypeOK, Handles
  <2>2. pc' \in [Workers -> {"idle", "get", "create", "check", "insert", "touch",
                             "push", "schedule"}] /\ built' \in 0..Len(Parts)
    BY <1>3, PartsType DEF Inv, TypeOK
  <2> QED
    BY <1>1, <2>1, <2>2 DEF Inv, TypeOK
<1>5. Together'
  <2> SUFFICES ASSUME NEW v \in Workers
               PROVE  /\ pc'[v] # "idle" => at[v] \in Messages /\ phase[at[v]] = "working"
                      /\ pc'[v] \in {"idle", "get", "schedule"} => ws'[v] = None
                      /\ pc'[v] \in {"create", "check", "insert", "touch", "push"} =>
                            ws'[v] \in Handles /\ ws'[v].user = Target(v)
                      /\ pc'[v] \in {"touch", "push"} => at[v] \in rows[Target(v)]
    BY <1>1, <1>2 DEF Together
  <2>1. CASE v # w
    BY <1>3, <2>1 DEF Inv, Together, TypeOK
  <2>2. CASE v = w
    BY <1>1, <1>3, <2>2 DEF Inv, Together, TypeOK, Handles
  <2> QED
    BY <2>1, <2>2
<1>6. Apart'
  BY <1>1, <1>3, StepKeepsApart DEF Inv
<1>7. Known'
  BY <1>1 DEF Inv, Known
<1>8. BuiltSoFar'
  <2> SUFFICES ASSUME NEW v \in Workers, pc'[v] = "create"
               PROVE  {Parts[i] : i \in 1..built'} \subseteq made[Target(v)]
    BY <1>1, <1>2 DEF BuiltSoFar
  <2>1. CASE built' = built /\ pc' = [pc EXCEPT ![w] = "check"]
    BY <2>1 DEF Inv, BuiltSoFar, TypeOK
  <2>2. CASE built' = 0
    BY <2>2
  <2> QED
    BY <1>3, <2>1, <2>2
<1>9. HandedOutComplete'
  <2> SUFFICES ASSUME NEW u \in Users, made[u] # AllParts
               PROVE  /\ u \notin cached
                      /\ \A v \in Workers :
                            ws'[v] # None /\ ws'[v].user = u => pc'[v] = "create"
    BY <1>1 DEF HandedOutComplete
  <2>1. u \notin cached
    BY DEF Inv, HandedOutComplete
  <2>2. ASSUME NEW v \in Workers, ws'[v] # None, ws'[v].user = u PROVE pc'[v] = "create"
    <3>1. CASE v # w
      BY <1>3, <2>2, <3>1 DEF Inv, HandedOutComplete, TypeOK
    <3>2. CASE v = w
      BY <1>3, <2>1, <2>2, <3>2 DEF Inv, TypeOK
    <3> QED
      BY <3>1, <3>2
  <2> QED
    BY <2>1, <2>2
<1> QED
  BY <1>4, <1>5, <1>6, <1>7, <1>8, <1>9 DEF Inv

LEMMA BuildKeepsInv ==
    ASSUME Inv, NEW w \in Workers, Build(w) PROVE Inv'
<1> DEFINE u == Target(w)
<1>1. /\ pc[w] = "create" /\ built < Len(Parts) /\ built' = built + 1
      /\ made' = [made EXCEPT ![u] = @ \cup {Parts[built + 1]}]
      /\ UNCHANGED <<request, phase, attempts, pushed, pc, at, ws, cached, rows, conn, frames>>
  BY DEF Build, message, worker, hub
<1>2. u \in Users
  BY <1>1 DEF Inv, Together, Known, Target
<1>3. \A v \in Workers : Target(v)' = Target(v)
  BY <1>1 DEF Target
<1>4. built \in 0..3 /\ Parts[built + 1] \in AllParts
  BY <1>1, PartsType DEF Inv, TypeOK
<1>5. /\ made[u] \subseteq made'[u] /\ Parts[built + 1] \in made'[u]
      /\ \A x \in Users \ {u} : made'[x] = made[x]
  BY <1>1, <1>2 DEF Inv, TypeOK
<1>6. TypeOK'
  BY <1>1, <1>2, <1>4, PartsType DEF Inv, TypeOK
<1>7. Together' /\ Apart' /\ Known'
  BY <1>1, <1>3 DEF Inv, Together, Apart, Known
<1>8. BuiltSoFar'
  <2> SUFFICES ASSUME NEW v \in Workers, pc[v] = "create", NEW i \in 1..(built + 1)
               PROVE  Parts[i] \in made'[Target(v)]
    BY <1>1, <1>3 DEF BuiltSoFar
  <2>1. v = w
    BY <1>1 DEF Inv, Apart
  <2>2. CASE i \in 1..built
    BY <1>5, <2>1, <2>2 DEF Inv, BuiltSoFar
  <2>3. CASE i = built + 1
    BY <1>5, <2>1, <2>3
  <2> QED
    BY <1>4, <2>2, <2>3
<1>9. HandedOutComplete'
  <2> SUFFICES ASSUME NEW x \in Users, made'[x] # AllParts
               PROVE  /\ x \notin cached
                      /\ \A v \in Workers :
                            ws[v] # None /\ ws[v].user = x => pc[v] = "create"
    BY <1>1 DEF HandedOutComplete
  <2>1. made[x] # AllParts
    <3>1. CASE x # u
      BY <1>5, <3>1
    <3>2. CASE x = u
      <4>1. made'[u] \subseteq AllParts
        BY <1>2, <1>6 DEF TypeOK
      <4> QED
        BY <1>5, <3>2, <4>1
    <3> QED
      BY <3>1, <3>2
  <2> QED
    BY <2>1 DEF Inv, HandedOutComplete
<1> QED
  BY <1>6, <1>7, <1>8, <1>9 DEF Inv

\* The attempt ends in front of its retry, without a workspace.
LEMMA FailureKeepsInv ==
    ASSUME Inv, NEW w \in Workers, CreateFails(w) \/ StatementFails(w) PROVE Inv'
<1>1. /\ pc[w] \in {"create", "check", "insert", "touch"}
      /\ pc' = [pc EXCEPT ![w] = "schedule"] /\ ws' = [ws EXCEPT ![w] = None]
      /\ UNCHANGED <<request, phase, attempts, pushed, at, cached, made, rows,
                     conn, frames>>
      /\ built' \in {built, 0}
  BY DEF CreateFails, StatementFails, Goto, message, space, hub
<1>2. TypeOK'
  BY <1>1 DEF Inv, TypeOK
<1>3. \A v \in Workers : Target(v)' = Target(v)
  BY <1>1 DEF Target
<1>4. Together'
  <2>1. /\ \A v \in Workers \ {w} : pc'[v] = pc[v] /\ ws'[v] = ws[v]
        /\ pc'[w] = "schedule" /\ ws'[w] = None /\ pc[w] # "idle"
    BY <1>1 DEF Inv, TypeOK
  <2> QED
    BY <1>1, <1>3, <2>1 DEF Inv, Together
<1>5. Apart'
  BY <1>1, StepKeepsApart DEF Inv
<1>6. Known' /\ HandedOutComplete'
  BY <1>1, <1>3 DEF Inv, Known, HandedOutComplete, TypeOK
<1>7. BuiltSoFar'
  <2>1. CASE built' = built
    BY <1>1, <1>3, <2>1 DEF Inv, BuiltSoFar, TypeOK
  <2>2. CASE built' = 0
    BY <2>2 DEF BuiltSoFar
  <2> QED
    BY <1>1, <2>1, <2>2
<1> QED
  BY <1>2, <1>4, <1>5, <1>6, <1>7 DEF Inv

LEMMA PutKeepsInv ==
    ASSUME Inv, NEW w \in Workers, Put(w) PROVE Inv'
<1> DEFINE u == Target(w)
<1>1. /\ pc[w] = "create" /\ built = Len(Parts)
      /\ pc' = [pc EXCEPT ![w] = "check"] /\ cached' = cached \cup {u}
      /\ UNCHANGED <<request, phase, attempts, pushed, at, made, rows, conn, frames>>
      /\ built' = 0
  BY DEF Put, Goto, message, hub
<1>2. u \in Users
  BY <1>1 DEF Inv, Together, Known, Target
<1>3. \A v \in Workers : Target(v)' = Target(v)
  BY <1>1 DEF Target
<1>4. /\ ws' \in [Workers -> Handles \cup {None}]
      /\ ws'[w] \in Handles /\ ws'[w].user = u
      /\ \A v \in Workers \ {w} : /\ ws[v] = None => ws'[v] = None
                                  /\ ws[v] \in Handles => ws'[v] \in Handles
                                  /\ ws[v] \in Handles => ws'[v].user = ws[v].user
  <2> DEFINE c == [user |-> u, state |-> "cached"]
             l == [user |-> u, state |-> "leaked"]
  <2>1. c \in Handles /\ l \in Handles /\ c.user = u /\ l.user = u
    BY <1>2 DEF Handles
  <2>2. /\ \A v \in Workers : ws'[v] = IF v = w THEN c ELSE IF ws[v] = c THEN l ELSE ws[v]
        /\ DOMAIN ws' = Workers /\ ws' = [v \in Workers |-> ws'[v]]
    BY DEF Put
  <2>3. \A v \in Workers : ws[v] \in Handles \cup {None}
    BY DEF Inv, TypeOK
  <2> HIDE DEF c, l
  <2> QED
    BY <2>1, <2>2, <2>3, UsersAssumption
<1>5. TypeOK'
  <2>1. built' \in 0..Len(Parts)
    BY <1>1 DEF Parts
  <2> QED
    BY <1>1, <1>2, <1>4, <2>1 DEF Inv, TypeOK
<1>6. \A v \in Workers \ {w} : pc'[v] = pc[v]
  BY <1>1 DEF Inv, TypeOK
<1>7. pc'[w] = "check"
  BY <1>1 DEF Inv, TypeOK
<1>8. Together'
  <2> SUFFICES ASSUME NEW v \in Workers
               PROVE  /\ pc'[v] # "idle" => at[v] \in Messages /\ phase[at[v]] = "working"
                      /\ pc'[v] \in {"idle", "get", "schedule"} => ws'[v] = None
                      /\ pc'[v] \in {"create", "check", "insert", "touch", "push"} =>
                            ws'[v] \in Handles /\ ws'[v].user = Target(v)
                      /\ pc'[v] \in {"touch", "push"} => at[v] \in rows[Target(v)]
    BY <1>1, <1>3 DEF Together
  <2>1. CASE v # w
    BY <1>4, <1>6, <2>1 DEF Inv, Together
  <2>2. CASE v = w
    BY <1>1, <1>4, <1>7, <2>2 DEF Inv, Together
  <2> QED
    BY <2>1, <2>2
<1>9. Apart'
  BY <1>1, StepKeepsApart DEF Inv
<1>10. Known' /\ BuiltSoFar'
  BY <1>1, <1>3 DEF Inv, Known, BuiltSoFar
<1>11. made[u] = AllParts
  <2>1. {Parts[i] : i \in 1..built} = AllParts
    BY <1>1 DEF AllParts
  <2> QED
    BY <1>1, <1>2, <2>1 DEF Inv, BuiltSoFar, TypeOK
<1>12. HandedOutComplete'
  <2> SUFFICES ASSUME NEW x \in Users, made[x] # AllParts
               PROVE  /\ x \notin cached'
                      /\ \A v \in Workers :
                            ws'[v] # None /\ ws'[v].user = x => pc'[v] = "create"
    BY <1>1 DEF HandedOutComplete
  <2>1. x # u
    BY <1>11
  <2>2. x \notin cached'
    BY <1>1, <2>1 DEF Inv, HandedOutComplete
  <2>3. ASSUME NEW v \in Workers, ws'[v] # None, ws'[v].user = x PROVE pc'[v] = "create"
    <3>1. v # w
      BY <1>4, <2>1, <2>3
    <3>2. ws[v] # None /\ ws[v].user = x
      BY <1>4, <2>3, <3>1 DEF Inv, TypeOK
    <3> QED
      BY <1>6, <3>1, <3>2 DEF Inv, HandedOutComplete
  <2> QED
    BY <2>2, <2>3
<1> QED
  BY <1>5, <1>8, <1>9, <1>10, <1>12 DEF Inv

\* The statements of one delivery; only the INSERT changes a database.
LEMMA StatementKeepsInv ==
    ASSUME Inv, NEW w \in Workers, Check(w) \/ Insert(w) \/ Touch(w) PROVE Inv'
<1>1. /\ \/ pc[w] = "check" /\ pc' = [pc EXCEPT ![w] = "insert"] /\ rows' = rows
         \/ /\ pc[w] = "insert" /\ pc' = [pc EXCEPT ![w] = "touch"]
            /\ rows' = [rows EXCEPT ![ws[w].user] = @ \cup {at[w]}]
         \/ pc[w] = "touch" /\ pc' = [pc EXCEPT ![w] = "push"] /\ rows' = rows
      /\ UNCHANGED <<request, phase, attempts, pushed, at, ws, built, cached, made,
                     conn, frames>>
  BY DEF Check, Insert, Touch, Goto, message, space, hub
<1>2. /\ at[w] \in Messages /\ phase[at[w]] = "working"
      /\ ws[w].user = Target(w) /\ Target(w) \in Users
      /\ \A v \in Workers : Target(v)' = Target(v)
  BY <1>1 DEF Inv, Together, Known, Target
<1>3. /\ \A x \in Users : rows[x] \subseteq rows'[x]
      /\ \A x \in Users : \A m \in rows'[x] \ rows[x] : m = at[w] /\ x = Target(w)
      /\ pc'[w] = "touch" => at[w] \in rows'[Target(w)]
  BY <1>1, <1>2 DEF Inv, TypeOK
<1>4. TypeOK'
  <2>1. rows' \in [Users -> SUBSET Messages]
    BY <1>1, <1>2 DEF Inv, TypeOK
  <2>2. pc' \in [Workers -> {"idle", "get", "create", "check", "insert", "touch",
                             "push", "schedule"}]
    BY <1>1 DEF Inv, TypeOK
  <2> QED
    BY <1>1, <2>1, <2>2 DEF Inv, TypeOK
<1>5. /\ \A v \in Workers \ {w} : pc'[v] = pc[v]
      /\ pc'[w] \in {"insert", "touch", "push"}
  BY <1>1 DEF Inv, TypeOK
<1>6. Together'
  <2> SUFFICES ASSUME NEW v \in Workers
               PROVE  /\ pc'[v] # "idle" => at[v] \in Messages /\ phase[at[v]] = "working"
                      /\ pc'[v] \in {"idle", "get", "schedule"} => ws[v] = None
                      /\ pc'[v] \in {"create", "check", "insert", "touch", "push"} =>
                            ws[v] \in Handles /\ ws[v].user = Target(v)
                      /\ pc'[v] \in {"touch", "push"} => at[v] \in rows'[Target(v)]
    BY <1>1, <1>2 DEF Together
  <2>1. CASE v # w
    <3>1. pc[v] \in {"touch", "push"} => Target(v) \in Users
      BY DEF Inv, Together, Known, Target
    <3> QED
      BY <1>3, <1>5, <2>1, <3>1 DEF Inv, Together
  <2>2. CASE v = w
    <3>1. pc'[w] = "push" => at[w] \in rows'[Target(w)]
      BY <1>1, <1>3, <1>2 DEF Inv, Together, TypeOK
    <3> QED
      BY <1>1, <1>2, <1>3, <1>5, <2>2, <3>1 DEF Inv, Together
  <2> QED
    BY <2>1, <2>2
<1>7. Apart'
  BY <1>1, StepKeepsApart DEF Inv
<1>8. Known'
  BY <1>1, <1>2, <1>3 DEF Inv, Known, Target
<1>9. BuiltSoFar' /\ HandedOutComplete'
  BY <1>1, <1>2, <1>5 DEF Inv, BuiltSoFar, HandedOutComplete
<1> QED
  BY <1>4, <1>6, <1>7, <1>8, <1>9 DEF Inv

\* The task leaves its worker: delivered, failed, or queued again.
LEMMA EndKeepsInv ==
    ASSUME Inv, NEW w \in Workers, Push(w) \/ Retry(w) \/ GiveUp(w) PROVE Inv'
<1>1. at[w] \in Messages /\ phase[at[w]] = "working" /\ pc[w] # "idle"
  BY DEF Push, Retry, GiveUp, Inv, Together
<1>2. /\ pc' = [pc EXCEPT ![w] = "idle"] /\ ws' = [ws EXCEPT ![w] = None]
      /\ at' = [at EXCEPT ![w] = None]
      /\ UNCHANGED <<request, built, cached, made, rows, conn>>
      /\ \E p \in {"delivered", "failed", "queued"} :
            /\ phase' = [phase EXCEPT ![at[w]] = p]
            /\ pushed' = pushed \/ (p = "delivered" /\ pushed' = pushed \cup {at[w]})
  <2>1. CASE Push(w)
    BY <2>1 DEF Push, Reset, Goto, Becomes, space
  <2>2. CASE Retry(w)
    BY <2>2 DEF Retry, Reset, Goto, Becomes, space, hub
  <2>3. CASE GiveUp(w)
    BY <2>3 DEF GiveUp, Reset, Goto, Becomes, space, hub
  <2> QED
    BY <2>1, <2>2, <2>3
<1>3. attempts' \in [Messages -> 0..MaxRetries]
  <2>1. CASE attempts' = attempts
    BY <2>1 DEF Inv, TypeOK
  <2>2. CASE Retry(w)
    <3>1. attempts[at[w]] \in 0..MaxRetries /\ attempts[at[w]] < MaxRetries
      BY <1>1, <2>2 DEF Retry, Inv, TypeOK
    <3>2. attempts[at[w]] + 1 \in 0..MaxRetries
      BY <3>1, RetriesAssumption
    <3> QED
      BY <2>2, <3>2, <1>1 DEF Retry, Inv, TypeOK
  <2> QED
    BY <2>1, <2>2 DEF Push, GiveUp
<1>4. frames' \in [Conns -> SUBSET Messages]
  <2>1. CASE Push(w)
    <3>1. PICK got \in SUBSET {c \in Conns : conn[c] = request[at[w]].user} :
               frames' = [c \in Conns |-> IF c \in got THEN frames[c] \cup {at[w]}
                                          ELSE frames[c]]
      BY <2>1 DEF Push
    <3> QED
      BY <1>1, <3>1 DEF Inv, TypeOK
  <2>2. CASE Retry(w) \/ GiveUp(w)
    BY <2>2 DEF Retry, GiveUp, hub, Inv, TypeOK
  <2> QED
    BY <2>1, <2>2
<1>5. TypeOK'
  BY <1>1, <1>2, <1>3, <1>4 DEF Inv, TypeOK, Phases
<1>6. /\ \A v \in Workers \ {w} : /\ pc'[v] = pc[v] /\ at'[v] = at[v] /\ ws'[v] = ws[v]
                                  /\ Target(v)' = Target(v)
      /\ pc'[w] = "idle" /\ ws'[w] = None
  BY <1>2 DEF Inv, TypeOK, Target
<1>7. Together'
  <2> SUFFICES ASSUME NEW v \in Workers, v # w
               PROVE  /\ pc[v] # "idle" => at[v] \in Messages /\ phase'[at[v]] = "working"
                      /\ pc[v] \in {"idle", "get", "schedule"} => ws[v] = None
                      /\ pc[v] \in {"create", "check", "insert", "touch", "push"} =>
                            ws[v] \in Handles /\ ws[v].user = Target(v)
                      /\ pc[v] \in {"touch", "push"} => at[v] \in rows[Target(v)]
    BY <1>2, <1>6 DEF Together
  <2>1. pc[v] # "idle" => at[v] # at[w]
    BY <1>1 DEF Inv, Apart
  <2> QED
    BY <1>1, <1>2, <2>1 DEF Inv, Together, TypeOK
<1>8. Apart'
  BY <1>6 DEF Inv, Apart
<1>9. Known'
  BY <1>1, <1>2 DEF Inv, Known, TypeOK
<1>10. BuiltSoFar'
  BY <1>2, <1>6 DEF Inv, BuiltSoFar
<1>11. HandedOutComplete'
  BY <1>2, <1>6 DEF Inv, HandedOutComplete
<1> QED
  BY <1>5, <1>7, <1>8, <1>9, <1>10, <1>11 DEF Inv

LEMMA AroundKeepsInv ==
    ASSUME Inv,
           \/ \E u \in Users : CloseWorkspace(u)
           \/ \E c \in Conns : Connect(c) \/ Disconnect(c)
           \/ Crash
    PROVE  Inv'
<1>1. ASSUME NEW u \in Users, CloseWorkspace(u) PROVE Inv'
  <2>1. /\ u \in cached /\ cached' = cached \ {u}
        /\ UNCHANGED <<request, phase, attempts, pushed, pc, at, built, made, rows,
                       conn, frames>>
    BY <1>1 DEF CloseWorkspace, message, hub
  <2>2. /\ ws' \in [Workers -> Handles \cup {None}]
        /\ \A v \in Workers : /\ ws[v] = None => ws'[v] = None
                              /\ ws[v] \in Handles => ws'[v] \in Handles
                              /\ ws[v] \in Handles => ws'[v].user = ws[v].user
    <3> DEFINE c == [user |-> u, state |-> "cached"]
               l == [user |-> u, state |-> "closed"]
    <3>1. c \in Handles /\ l \in Handles /\ c.user = u /\ l.user = u
      BY DEF Handles
    <3>2. /\ \A v \in Workers : ws'[v] = IF ws[v] = c THEN l ELSE ws[v]
          /\ ws' = [v \in Workers |-> ws'[v]]
      BY <1>1 DEF CloseWorkspace
    <3>3. \A v \in Workers : ws[v] \in Handles \cup {None}
      BY DEF Inv, TypeOK
    <3> HIDE DEF c, l
    <3> QED
      BY <3>1, <3>2, <3>3, UsersAssumption
  <2>3. \A v \in Workers : Target(v)' = Target(v)
    BY <2>1 DEF Target
  <2>4. TypeOK'
    BY <2>1, <2>2 DEF Inv, TypeOK
  <2>5. Together'
    BY <2>1, <2>2, <2>3 DEF Inv, Together
  <2>6. Apart' /\ Known' /\ BuiltSoFar'
    BY <2>1, <2>3 DEF Inv, Apart, Known, BuiltSoFar
  <2>7. HandedOutComplete'
    <3>1. \A v \in Workers : ws'[v] # None => ws[v] # None /\ ws'[v].user = ws[v].user
      BY <2>2 DEF Inv, TypeOK
    <3> QED
      BY <2>1, <3>1 DEF Inv, HandedOutComplete
  <2> QED
    BY <2>4, <2>5, <2>6, <2>7 DEF Inv
<1>2. ASSUME NEW c \in Conns, Connect(c) \/ Disconnect(c) PROVE Inv'
  <2>1. UNCHANGED <<request, phase, attempts, pushed, pc, at, ws, built, cached, made, rows>>
    BY <1>2 DEF Connect, Disconnect, message, worker, space
  <2>2. conn' \in [Conns -> Users \cup {None}] /\ frames' \in [Conns -> SUBSET Messages]
    BY <1>2, UserIDType DEF Connect, Disconnect, Inv, TypeOK
  <2>3. TypeOK'
    BY <2>1, <2>2 DEF Inv, TypeOK
  <2>4. Together' /\ Apart' /\ Known' /\ BuiltSoFar' /\ HandedOutComplete'
    BY <2>1 DEF Inv, Together, Apart, Known, BuiltSoFar, HandedOutComplete, Target
  <2> QED
    BY <2>3, <2>4 DEF Inv
<1>3. CASE Crash
  <2>1. phase' \in [Messages -> Phases]
    BY <1>3 DEF Crash, Inv, TypeOK, Phases
  <2>2. TypeOK'
    BY <1>3, <2>1, PartsType DEF Crash, Inv, TypeOK
  <2>3. Together' /\ Apart' /\ BuiltSoFar'
    BY <1>3 DEF Crash, Together, Apart, BuiltSoFar
  <2>4. Known'
    <3>1. \A m \in Messages : /\ phase[m] = "delivered" => phase'[m] = "delivered"
                              /\ phase'[m] = "new" <=> phase[m] = "new"
      BY <1>3 DEF Crash
    <3>2. UNCHANGED <<request, rows, pushed>>
      BY <1>3 DEF Crash
    <3> QED
      BY <3>1, <3>2 DEF Inv, Known, TypeOK
  <2>5. HandedOutComplete'
    BY <1>3 DEF Crash, HandedOutComplete
  <2> QED
    BY <2>2, <2>3, <2>4, <2>5 DEF Inv
<1> QED
  BY <1>1, <1>2, <1>3

LEMMA StepKeepsInv == ASSUME Inv, [Next]_vars PROVE Inv'
<1>1. CASE UNCHANGED vars
  BY <1>1 DEF vars, Inv, TypeOK, Together, Apart, Known, BuiltSoFar,
     HandedOutComplete, Target
<1>2. ASSUME NEW w \in Workers, Worker(w) PROVE Inv'
  BY <1>2, TakeKeepsInv, GetKeepsInv, BuildKeepsInv, FailureKeepsInv, PutKeepsInv,
     StatementKeepsInv, EndKeepsInv DEF Worker, Deliver, Create, Schedule
<1> QED
  BY <1>1, <1>2, CreateMessageKeepsInv, DropKeepsInv, AroundKeepsInv DEF Next

LEMMA InvIsInvariant == Spec => []Inv
BY InitInv, StepKeepsInv, PTL DEF Spec

\* Every variable keeps its type; no message is tried more often than its budget.
THEOREM TypeCorrect == Spec => []TypeOK
BY InvIsInvariant, PTL DEF Inv

\* No workspace is used before it has all its parts, whatever crashed or failed
\* in the middle of its creation.
THEOREM HandedOutIsComplete == Spec => []HandedOutComplete
BY InvIsInvariant, PTL DEF Inv

-----------------------------------------------------------------------------
(* Frames.                                                                 *)

\* Whatever user a body names, is closed, fails or crashes: a connection gets the
\* messages for its user only, and none that is not stored with its sender.
THEOREM FramesAreStored == Spec => []PushedIsStored
<1> DEFINE J == PushedIsStored /\ \A c \in Conns : frames[c] \subseteq pushed
<1>1. Init => J
  BY DEF Init, PushedIsStored
<1>2. Inv /\ J /\ [Next]_vars => J'
  <2> SUFFICES ASSUME Inv, J, [Next]_vars PROVE J'
    OBVIOUS
  <2>1. ASSUME NEW m \in Messages, CreateMessage(m) PROVE J'
    <3>1. phase[m] = "new" /\ UNCHANGED <<pushed, rows, conn, frames>>
      BY <2>1 DEF CreateMessage, hub
    <3>2. \A c \in Conns : m \notin frames[c]
      BY <3>1 DEF Inv, Known
    <3>3. \A n \in Messages \ {m} : request'[n] = request[n]
      BY <2>1 DEF CreateMessage, Inv, TypeOK
    <3>4. \A c \in Conns : frames[c] \subseteq Messages
      BY DEF Inv, TypeOK
    <3> QED
      BY <3>1, <3>2, <3>3, <3>4 DEF PushedIsStored
  <2>2. ASSUME UNCHANGED <<request, pushed, conn, frames>>,
               \A u \in Users : rows[u] \subseteq rows'[u]
        PROVE  J'
    <3>1. \A c \in Conns : \A m \in frames[c] : m \in Messages /\ request[m].owner \in Users
      BY DEF Inv, TypeOK, Known
    <3> QED
      BY <2>2, <3>1 DEF PushedIsStored
  <2>3. ASSUME NEW m \in Messages, Drop(m) PROVE J'
    BY <2>2, <2>3 DEF Drop, Becomes, Inv, TypeOK, hub
  <2>4. ASSUME NEW w \in Workers, NEW m \in Messages, Take(w, m) PROVE J'
    BY <2>2, <2>4 DEF Take, Becomes, Inv, TypeOK, hub
  <2>5. ASSUME NEW w \in Workers, Insert(w) PROVE J'
    <3>1. \A u \in Users : rows[u] \subseteq rows'[u]
      BY <2>5 DEF Insert, Inv, TypeOK
    <3> QED
      BY <2>2, <2>5, <3>1 DEF Insert, message, hub
  <2>6. ASSUME NEW w \in Workers, Push(w) PROVE J'
    <3>1. at[w] \in rows[request[at[w]].owner]
      BY <2>6 DEF Push, Inv, Together, Target
    <3>2. PICK got \in SUBSET {c \in Conns : conn[c] = request[at[w]].user} :
               frames' = [c \in Conns |-> IF c \in got THEN frames[c] \cup {at[w]}
                                          ELSE frames[c]]
      BY <2>6 DEF Push
    <3>3. UNCHANGED <<request, conn, rows>> /\ pushed' = pushed \cup {at[w]}
      BY <2>6 DEF Push
    <3> SUFFICES ASSUME NEW c \in Conns, NEW m \in frames'[c]
                 PROVE  /\ conn[c] = request[m].user /\ m \in rows[request[m].owner]
                        /\ m \in pushed'
      BY <3>3 DEF PushedIsStored
    <3>4. m \in frames[c] \/ (c \in got /\ m = at[w])
      BY <3>2
    <3>5. CASE m \in frames[c]
      BY <3>3, <3>5 DEF PushedIsStored
    <3>6. CASE c \in got /\ m = at[w]
      BY <3>1, <3>3, <3>6
    <3> QED
      BY <3>4, <3>5, <3>6
  <2>7. ASSUME NEW w \in Workers, Retry(w) \/ GiveUp(w) PROVE J'
    BY <2>2, <2>7 DEF Retry, GiveUp, hub
  <2>8. ASSUME NEW c \in Conns, Connect(c) \/ Disconnect(c) PROVE J'
    <3>1. UNCHANGED <<request, pushed, rows>>
      BY <2>8 DEF Connect, Disconnect, message
    <3>2. ASSUME NEW d \in Conns, NEW m \in frames'[d]
          PROVE  conn'[d] = conn[d] /\ frames'[d] = frames[d]
      <4>1. CASE Connect(c)
        <5>1. conn[c] = None => frames[c] = {}
          BY UsersAssumption DEF PushedIsStored, Inv, TypeOK, Known
        <5> QED
          BY <3>2, <4>1, <5>1 DEF Connect, Inv, TypeOK
      <4>2. CASE Disconnect(c)
        BY <3>2, <4>2 DEF Disconnect, Inv, TypeOK
      <4> QED
        BY <2>8, <4>1, <4>2
    <3> QED
      BY <3>1, <3>2 DEF PushedIsStored
  <2>9. CASE Crash
    BY <2>9 DEF Crash, PushedIsStored
  <2>10. CASE UNCHANGED vars
    BY <2>2, <2>10 DEF vars
  <2>11. ASSUME NEW w \in Workers, GetCached(w) \/ Create(w) \/ Check(w) \/ Touch(w)
                                   \/ StatementFails(w) PROVE J'
    BY <2>2, <2>11 DEF GetCached, Create, StartCreate, Build, CreateFails, Put,
       Check, Touch, StatementFails, message, hub
  <2>12. ASSUME NEW u \in Users, CloseWorkspace(u) PROVE J'
    BY <2>2, <2>12 DEF CloseWorkspace, message, hub
  <2> QED
    BY <2>1, <2>3, <2>4, <2>5, <2>6, <2>7, <2>8, <2>9, <2>10, <2>11, <2>12
       DEF Next, Worker, Deliver, Schedule
<1> QED
  BY <1>1, <1>2, InvIsInvariant, PTL DEF Spec

-----------------------------------------------------------------------------
(* The contract of the delivery system, with the workspaces, the crashes    *)
(* and the restarts around it.                                             *)

Fate == [m \in Messages |->
            IF phase[m] \in {"queued", "working"} THEN "pending" ELSE phase[m]]
Stored == {m \in Messages : \E u \in Users : m \in rows[u]}

LEMMA ContractForm ==
    /\ Contract!Init <=> /\ Fate = [m \in Messages |-> "new"]
                         /\ Stored = {} /\ pushed = {}
    /\ \A m, from, to : Contract!Becomes(m, from, to) <=>
          Fate[m] = from /\ Fate' = [Fate EXCEPT ![m] = to]
BY DEF Contract!Init, Contract!Becomes, Fate, Stored

LEMMA SameContractState ==
    ASSUME UNCHANGED <<Fate, Stored, pushed>> PROVE UNCHANGED Contract!vars
BY DEF Contract!vars, Fate, Stored

\* One message gets another phase, and with it another fate.
LEMMA PhaseToFate ==
    ASSUME TypeOK, NEW m \in Messages, NEW p, p \in Phases,
           phase' = [phase EXCEPT ![m] = p]
    PROVE  Fate' = [Fate EXCEPT ![m] =
                       IF p \in {"queued", "working"} THEN "pending" ELSE p]
BY DEF TypeOK, Fate

LEMMA StepsOfMessages ==
    ASSUME Inv, NEW m \in Messages, CreateMessage(m) \/ Drop(m) PROVE Contract!Next
<1>1. UNCHANGED <<Stored, pushed>>
  BY DEF CreateMessage, Drop, Stored
<1>2. CASE CreateMessage(m)
  <2>1. CASE Becomes(m, "queued")
    <3>1. Fate[m] = "new" /\ Fate' = [Fate EXCEPT ![m] = "pending"]
      BY <1>2, <2>1, PhaseToFate DEF CreateMessage, Becomes, Fate, Inv, Phases
    <3> QED
      BY <1>1, <3>1, ContractForm DEF Contract!Admit, Contract!Next, Stored
  <2>2. CASE Becomes(m, "refused")
    <3>1. Fate[m] = "new" /\ Fate' = [Fate EXCEPT ![m] = "refused"]
      BY <1>2, <2>2, PhaseToFate DEF CreateMessage, Becomes, Fate, Inv, Phases
    <3> QED
      BY <1>1, <3>1, ContractForm DEF Contract!Refuse, Contract!Next, Stored
  <2> QED
    BY <1>2, <2>1, <2>2 DEF CreateMessage
<1>3. CASE Drop(m)
  <2>1. PICK p \in {"failed", "lost"} : phase' = [phase EXCEPT ![m] = p]
    BY <1>3 DEF Drop, Becomes
  <2>2. Fate[m] = "pending" /\ Fate' = [Fate EXCEPT ![m] = p]
    BY <1>3, <2>1, PhaseToFate DEF Drop, Fate, Inv, Phases
  <2> QED
    BY <1>1, <2>1, <2>2, ContractForm DEF Contract!Fail, Contract!Lose, Contract!Next,
       Stored
<1> QED
  BY <1>2, <1>3

LEMMA StepsOfWorkers ==
    ASSUME Inv, NEW w \in Workers, Worker(w)
    PROVE  Contract!Next \/ UNCHANGED Contract!vars
<1>1. ASSUME UNCHANGED <<phase, rows, pushed>> PROVE UNCHANGED Contract!vars
  BY <1>1, SameContractState DEF Fate, Stored
<1>2. ASSUME NEW m \in Messages, Take(w, m) PROVE UNCHANGED Contract!vars
  <2>1. Fate' = [Fate EXCEPT ![m] = "pending"] /\ Fate[m] = "pending"
    BY <1>2, PhaseToFate DEF Take, Becomes, Inv, Phases, Fate
  <2>2. Fate' = Fate
    BY <2>1 DEF Fate
  <2> QED
    BY <1>2, <2>2, SameContractState DEF Take, Stored
<1>3. ASSUME pc[w] # "idle"
      PROVE  /\ at[w] \in Messages /\ phase[at[w]] = "working"
             /\ Fate[at[w]] = "pending"
  BY <1>3 DEF Inv, Together, Fate
<1>4. CASE Insert(w)
  <2>1. /\ at[w] \in Messages /\ Fate[at[w]] = "pending"
        /\ ws[w].user = Target(w) /\ Target(w) \in Users
        /\ rows' = [rows EXCEPT ![Target(w)] = @ \cup {at[w]}]
        /\ at[w] \notin rows[Target(w)]
    BY <1>3, <1>4 DEF Insert, Inv, Together, Known, Target
  <2>2. at[w] \notin Stored
    BY <2>1 DEF Inv, Known, Target, Stored
  <2>3. Stored' = Stored \cup {at[w]}
    BY <2>1 DEF Stored, Inv, TypeOK
  <2>4. UNCHANGED <<Fate, pushed>>
    BY <1>4 DEF Insert, message, Fate
  <2> QED
    BY <2>1, <2>2, <2>3, <2>4 DEF Contract!Store, Contract!Next, Fate, Stored
<1>5. CASE Push(w)
  <2>1. /\ at[w] \in Messages /\ phase[at[w]] = "working" /\ Fate[at[w]] = "pending"
        /\ at[w] \in rows[Target(w)] /\ Target(w) \in Users
    BY <1>3, <1>5 DEF Push, Inv, Together, Known, Target
  <2>2. at[w] \in Stored /\ at[w] \notin pushed
    BY <2>1 DEF Stored, Inv, Known
  <2>3. /\ Fate' = [Fate EXCEPT ![at[w]] = "delivered"]
        /\ pushed' = pushed \cup {at[w]} /\ Stored' = Stored
    BY <1>5, <2>1, PhaseToFate DEF Push, Becomes, Inv, Phases, Stored
  <2> QED
    BY <2>1, <2>2, <2>3, ContractForm DEF Contract!Deliver, Contract!Next, Stored
<1>6. CASE Retry(w)
  <2>1. at[w] \in Messages /\ Fate[at[w]] = "pending"
    BY <1>3, <1>6 DEF Retry
  <2>2. Fate' = [Fate EXCEPT ![at[w]] = "pending"]
    BY <1>6, <2>1, PhaseToFate DEF Retry, Becomes, Inv, Phases
  <2>3. Fate' = Fate
    BY <2>1, <2>2 DEF Fate
  <2> QED
    BY <1>6, <2>3, SameContractState DEF Retry, Stored
<1>7. CASE GiveUp(w)
  <2>1. at[w] \in Messages /\ Fate[at[w]] = "pending"
    BY <1>3, <1>7 DEF GiveUp
  <2>2. Fate' = [Fate EXCEPT ![at[w]] = "failed"] /\ UNCHANGED <<Stored, pushed>>
    BY <1>7, <2>1, PhaseToFate DEF GiveUp, Becomes, Inv, Phases, Stored
  <2> QED
    BY <2>1, <2>2, ContractForm DEF Contract!Fail, Contract!Next, Stored
<1>8. CASE GetCached(w) \/ Create(w) \/ Check(w) \/ Touch(w) \/ StatementFails(w)
  BY <1>1, <1>8 DEF GetCached, Create, StartCreate, Build, CreateFails, Put, Check,
     Touch, StatementFails, message
<1> QED
  BY <1>2, <1>4, <1>5, <1>6, <1>7, <1>8 DEF Worker, Deliver, Schedule

\* The whole path of a message, crashes included, keeps the contract.
THEOREM Implements == Spec => ImplementsContract
<1>1. Init => Contract!Init
  <2> SUFFICES ASSUME Init PROVE Contract!Init
    OBVIOUS
  <2>1. Fate = [m \in Messages |-> "new"] /\ Stored = {} /\ pushed = {}
    BY DEF Init, Fate, Stored
  <2> QED
    BY <2>1, ContractForm
<1>2. Inv /\ [Next]_vars => [Contract!Next]_Contract!vars
  <2> SUFFICES ASSUME Inv, [Next]_vars PROVE Contract!Next \/ UNCHANGED Contract!vars
    OBVIOUS
  <2>1. CASE Crash
    <3>1. Fate' = [m \in Messages |->
                      IF Fate[m] = "pending" THEN "lost" ELSE Fate[m]]
      BY <2>1 DEF Crash, Fate, Inv, TypeOK, Phases
    <3> QED
      BY <2>1, <3>1 DEF Crash, Contract!Restart, Contract!Next, Fate, Stored
  <2>2. CASE UNCHANGED <<phase, rows, pushed>>
    BY <2>2, SameContractState DEF Fate, Stored
  <2>3. ASSUME NEW u \in Users, CloseWorkspace(u) PROVE UNCHANGED <<phase, rows, pushed>>
    BY <2>3 DEF CloseWorkspace, message
  <2>4. ASSUME NEW c \in Conns, Connect(c) \/ Disconnect(c)
        PROVE  UNCHANGED <<phase, rows, pushed>>
    BY <2>4 DEF Connect, Disconnect, message
  <2> QED
    BY <2>1, <2>2, <2>3, <2>4, StepsOfMessages, StepsOfWorkers DEF Next, vars
<1> QED
  BY <1>1, <1>2, InvIsInvariant, PTL DEF Spec, ImplementsContract, Contract!Spec
=============================================================================
