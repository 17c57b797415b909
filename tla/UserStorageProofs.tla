------------------------- MODULE UserStorageProofs -------------------------
(***************************************************************************)
(* Proofs about UserStorage, for any messages, channels and readers.  The  *)
(* counts rest on one fact: messages are never deleted, so what a reader   *)
(* has selected is still there when it asks for the read ones.             *)
(***************************************************************************)
EXTENDS UserStorage, FiniteSetTheorems, WellFoundedInduction, TLAPS

\* What the selected ids and the counts are about while a call goes on.
SelectedAreThere ==
    \A r \in Readers : pc[r] = "count" => ids[r] \subseteq Of(query[r])

CountsAreBounded ==
    \A r \in Readers : query[r] = All =>
        /\ pc[r] \in {"select", "count", "sum"} =>
              answer[r].total <= Cardinality(stored)
        /\ pc[r] = "sum" => answer[r].unread <= Cardinality(stored)
        /\ pc[r] = "done" /\ ~cut[r] => /\ answer[r].total <= answer[r].sum
                                        /\ answer[r].unread <= answer[r].sum

Inv == TypeOK /\ SelectedAreThere /\ CountsAreBounded

\* A set of stored messages can be counted.
LEMMA StoredIsFinite ==
    ASSUME StorageAssumption, NEW S, S \subseteq Messages
    PROVE  IsFiniteSet(S) /\ Cardinality(S) \in Nat
BY FS_Subset, FS_CardinalityType DEF StorageAssumption

LEMMA CountGrows ==
    ASSUME StorageAssumption, NEW S, NEW T, T \subseteq Messages, S \subseteq T
    PROVE  Cardinality(S) <= Cardinality(T)
BY FS_Subset, StoredIsFinite

\* What GetUnreadCount computes is the number of selected ids without a row.
LEMMA UnreadIsADifference ==
    ASSUME StorageAssumption, NEW S, S \subseteq Messages, NEW R
    PROVE  /\ Cardinality(S) - Cardinality(S \cap R) = Cardinality(S \ R)
           /\ Cardinality(S \ R) \in Nat
           /\ Cardinality(S \ R) <= Cardinality(S)
<1>1. IsFiniteSet(S) /\ S \ R \subseteq Messages
  BY StoredIsFinite
<1>2. Cardinality(S \ R) = Cardinality(S) - Cardinality(S \cap R)
  BY <1>1, FS_Difference
<1>3. Cardinality(S) \in Nat /\ Cardinality(S \cap R) \in Nat
  BY StoredIsFinite, S \cap R \subseteq Messages
<1>4. Cardinality(S \ R) \in Nat /\ Cardinality(S \ R) <= Cardinality(S)
  BY <1>1, StoredIsFinite, CountGrows
<1> QED
  BY <1>2, <1>3, <1>4

LEMMA InitInv == ASSUME StorageAssumption, Init PROVE Inv
<1>1. TypeOK
  BY DEF Init, TypeOK, StorageAssumption
<1>2. SelectedAreThere /\ CountsAreBounded
  BY DEF Init, SelectedAreThere, CountsAreBounded
<1> QED
  BY <1>1, <1>2 DEF Inv

\* A writer leaves the calls alone and deletes nothing.
LEMMA WriterKeepsInv ==
    ASSUME StorageAssumption, Inv, TypeOK', UNCHANGED <<channelOf, calls>>,
           stored \subseteq stored'
    PROVE  Inv'
<1>1. Cardinality(stored) <= Cardinality(stored')
  BY CountGrows DEF TypeOK
<1>2. Cardinality(stored) \in Nat /\ Cardinality(stored') \in Nat
  BY StoredIsFinite DEF Inv, TypeOK
<1>3. SelectedAreThere'
  BY DEF Inv, SelectedAreThere, calls, Of
<1>4. CountsAreBounded'
  <2> SUFFICES ASSUME NEW r \in Readers, query[r] = All
      PROVE /\ pc[r] \in {"select", "count", "sum"} =>
                  answer[r].total <= Cardinality(stored')
            /\ pc[r] = "sum" => answer[r].unread <= Cardinality(stored')
            /\ pc[r] = "done" /\ ~cut[r] =>
                  /\ answer[r].total <= answer[r].sum
                  /\ answer[r].unread <= answer[r].sum
    BY DEF CountsAreBounded, calls
  <2>1. answer[r].total \in Nat /\ answer[r].unread \in Int
    BY DEF Inv, TypeOK
  <2> QED
    BY <1>1, <1>2, <2>1 DEF Inv, CountsAreBounded
<1> QED
  BY <1>3, <1>4 DEF Inv

LEMMA CreateMessageKeepsInv ==
    ASSUME StorageAssumption, Inv, NEW m \in Messages, CreateMessage(m)
    PROVE  Inv'
<1>1. CASE Insert(m)
  <2>1. TypeOK'
    BY <1>1 DEF Inv, TypeOK, Insert, calls
  <2>2. UNCHANGED <<channelOf, calls>> /\ stored \subseteq stored'
    BY <1>1 DEF Insert
  <2> QED
    BY <2>1, <2>2, WriterKeepsInv
<1>2. CASE UpdateLast(m)
  <2>1. last' \in [Channels -> Messages \cup {0}]
    BY <1>2 DEF Inv, TypeOK, UpdateLast
  <2>2. pending' \subseteq stored
    BY <1>2 DEF Inv, TypeOK, UpdateLast
  <2>3. UNCHANGED <<channelOf, stored, channels, read, calls>>
    BY <1>2 DEF UpdateLast
  <2>4. TypeOK'
    BY <2>1, <2>2, <2>3 DEF Inv, TypeOK, calls
  <2> QED
    BY <2>3, <2>4, WriterKeepsInv
<1>3. CASE UpdateFails(m)
  <2>1. TypeOK'
    BY <1>3 DEF Inv, TypeOK, UpdateFails, calls
  <2> QED
    BY <1>3, <2>1, WriterKeepsInv DEF UpdateFails
<1> QED
  BY <1>1, <1>2, <1>3 DEF CreateMessage

LEMMA MarkAsReadKeepsInv ==
    ASSUME StorageAssumption, Inv, NEW m \in Messages, MarkAsRead(m)
    PROVE  Inv'
<1>1. TypeOK'
  BY DEF Inv, TypeOK, MarkAsRead, calls
<1> QED
  BY <1>1, WriterKeepsInv DEF MarkAsRead

LEMMA CreateChannelKeepsInv ==
    ASSUME StorageAssumption, Inv, NEW c \in Channels, CreateChannel(c)
    PROVE  Inv'
<1>1. TypeOK'
  BY DEF Inv, TypeOK, CreateChannel, calls
<1> QED
  BY <1>1, WriterKeepsInv DEF CreateChannel

\* Whatever limit is asked for, the one that is used is in range.
LEMMA LimitInRange ==
    ASSUME StorageAssumption, NEW l \in Limits PROVE Limit(l) \in 1..MaxLimit
BY DEF StorageAssumption, Limit

LEMMA GetMessagesTypes ==
    ASSUME StorageAssumption, TypeOK, NEW r \in Readers, GetMessages(r)
    PROVE  TypeOK'
<1>1. Of(query[r]) \subseteq stored /\ \A l, o : Page(query[r], l, o) \subseteq stored
  BY DEF Of, Page
<1>2. page' \in [Readers -> [limit : 1..MaxLimit, offset : Nat]]
  <2>1. ASSUME NEW l \in Limits,
               page' = [page EXCEPT ![r] = [limit |-> Limit(l), offset |-> Limit(l)]]
        PROVE  page' \in [Readers -> [limit : 1..MaxLimit, offset : Nat]]
    <3>1. Limit(l) \in 1..MaxLimit /\ Limit(l) \in Nat
      BY LimitInRange DEF StorageAssumption
    <3> QED
      BY <2>1, <3>1 DEF TypeOK
  <2>2. ASSUME NextPage(r)
        PROVE  page' \in [Readers -> [limit : 1..MaxLimit, offset : Nat]]
    <3>1. page[r] \in [limit : 1..MaxLimit, offset : Nat]
      BY DEF TypeOK
    <3>2. page[r].offset + page[r].limit \in Nat
      BY <3>1 DEF StorageAssumption
    <3> QED
      BY <2>2, <3>1, <3>2 DEF NextPage, TypeOK
  <2> QED
    BY <2>1, <2>2 DEF GetMessages, FirstPage
<1>3. first' \in [Readers -> SUBSET stored]
  BY <1>1 DEF GetMessages, FirstPage, NextPage, TypeOK
<1>4. PICK got \in SUBSET Page(query[r], page'[r].limit, page[r].offset) :
        /\ ids' = [ids EXCEPT ![r] = @ \cup got]
        /\ cut' = [cut EXCEPT ![r] = @ \/
                     got # Page(query[r], page'[r].limit, page[r].offset)]
        /\ pc' = [pc EXCEPT
              ![r] = IF Cardinality(got) < page'[r].limit THEN "end" ELSE "page"]
  BY DEF GetMessages, Answer
<1>5. ids' \in [Readers -> SUBSET stored]
  BY <1>1, <1>4 DEF TypeOK
<1>6. pc' \in [Readers -> {"idle", "select", "count", "sum", "done", "page", "end"}]
  BY <1>4 DEF TypeOK
<1>7. cut' \in [Readers -> BOOLEAN]
  BY <1>4, Zenon DEF TypeOK
<1>8. UNCHANGED <<tables, query, answer>>
  BY DEF GetMessages, Answer
<1> QED
  BY <1>2, <1>3, <1>5, <1>6, <1>7, <1>8 DEF TypeOK, tables

\* What a call of GetUserStats answers.
Counts == [total : Nat, unread : Int, sum : Nat]

\* A reader's counts keep their type when one of them is set.
LEMMA AnswerType ==
    ASSUME answer \in [Readers -> Counts], NEW r \in Readers
    PROVE  /\ \A u \in Int : [answer EXCEPT ![r].unread = u] \in [Readers -> Counts]
           /\ \A k \in Nat : [answer EXCEPT ![r].sum = k] \in [Readers -> Counts]
<1>1. answer[r] \in Counts
  OBVIOUS
<1>2. \A u \in Int : [answer[r] EXCEPT !.unread = u] \in Counts
  BY <1>1 DEF Counts
<1>3. \A k \in Nat : [answer[r] EXCEPT !.sum = k] \in Counts
  BY <1>1 DEF Counts
<1> QED
  BY <1>2, <1>3

\* A reader's own step; n is the number of rows of messages at that moment.
LEMMA ReaderKeepsInv ==
    ASSUME StorageAssumption, Inv, NEW r \in Readers,
           GetUserStats(r) \/ GetUnreadCount(r) \/ GetMessages(r)
    PROVE  Inv'
<1> DEFINE n == Cardinality(stored)
<1>1. n \in Nat
  BY StoredIsFinite DEF Inv, TypeOK
<1>2. /\ answer[r].total \in Nat /\ answer[r].unread \in Int
      /\ answer[r].sum \in Nat
  BY DEF Inv, TypeOK
<1>3. CASE CountTotal(r)
  <2>1. TypeOK'
    BY <1>1, <1>3 DEF Inv, TypeOK, CountTotal, tables, paging
  <2>2. SelectedAreThere'
    BY <1>3 DEF Inv, TypeOK, SelectedAreThere, CountTotal, tables, paging, Of
  <2>3. CountsAreBounded'
    BY <1>1, <1>3 DEF Inv, TypeOK, CountsAreBounded, CountTotal, tables, paging
  <2> QED
    BY <2>1, <2>2, <2>3 DEF Inv
<1>4. CASE SelectIds(r)
  <2>1. TypeOK'
    BY <1>4 DEF Inv, TypeOK, SelectIds, tables, paging, Of
  <2>2. SelectedAreThere'
    <3>1. PICK got \in SUBSET Of(query[r]) : ids' = [ids EXCEPT ![r] = got]
      BY <1>4 DEF SelectIds
    <3>2. /\ \A s \in Readers \ {r} : ids'[s] = ids[s] /\ pc'[s] = pc[s]
          /\ ids'[r] \subseteq Of(query[r])
          /\ UNCHANGED <<tables, query>>
      BY <1>4, <3>1 DEF Inv, TypeOK, SelectIds
    <3>3. \A c : Of(c)' = Of(c)
      BY <3>2 DEF Of, tables
    <3> QED
      BY <3>2, <3>3 DEF Inv, SelectedAreThere
  <2>3. CountsAreBounded'
    BY <1>1, <1>4 DEF Inv, TypeOK, CountsAreBounded, SelectIds, tables, paging
  <2> QED
    BY <2>1, <2>2, <2>3 DEF Inv
<1>5. CASE CountRead(r)
  <2> DEFINE u == Cardinality(ids[r]) - Cardinality(ids[r] \cap read)
  <2>1. ids[r] \subseteq stored /\ stored \subseteq Messages
    BY DEF Inv, TypeOK
  <2>2. u \in Nat /\ u <= n
    <3>1. /\ u = Cardinality(ids[r] \ read) /\ Cardinality(ids[r] \ read) \in Nat
          /\ Cardinality(ids[r] \ read) <= Cardinality(ids[r])
      BY <2>1, UnreadIsADifference
    <3>2. Cardinality(ids[r]) <= n /\ Cardinality(ids[r]) \in Nat
      BY <2>1, CountGrows, StoredIsFinite
    <3> QED
      BY <1>1, <3>1, <3>2
  <2>3. answer' = [answer EXCEPT ![r].unread = u]
    BY <1>5 DEF CountRead
  <2> HIDE DEF u
  <2>4. TypeOK'
    <3>1. answer' \in [Readers -> Counts]
      BY <2>2, <2>3, AnswerType DEF Inv, TypeOK, Counts
    <3>2. /\ pc' \in [Readers -> {"idle", "select", "count", "sum", "done", "page",
                                  "end"}]
          /\ UNCHANGED <<channelOf, stored, pending, channels, last, read>>
          /\ UNCHANGED <<query, ids, page, first, cut>>
      BY <1>5 DEF Inv, TypeOK, CountRead, tables, paging
    <3> QED
      BY <3>1, <3>2 DEF Inv, TypeOK, Counts
  <2>5. SelectedAreThere'
    BY <1>5 DEF Inv, TypeOK, SelectedAreThere, CountRead, tables, paging, Of
  <2>6. CountsAreBounded'
    BY <1>1, <1>5, <2>2, <2>3 DEF Inv, TypeOK, CountsAreBounded, CountRead, tables, paging
  <2> QED
    BY <2>4, <2>5, <2>6 DEF Inv
<1>6. CASE SumChannels(r)
  <2>0. PICK got \in SUBSET Channels :
          LET counted == {m \in stored : channelOf[m] \in got} IN
          /\ answer' = [answer EXCEPT ![r].sum = Cardinality(counted)]
          /\ cut' = [cut EXCEPT ![r] = counted # stored]
    BY <1>6 DEF SumChannels
  <2> DEFINE counted == {m \in stored : channelOf[m] \in got}
             k == Cardinality(counted)
  <2>a. k \in Nat /\ (counted = stored => k = n)
    BY StoredIsFinite DEF Inv, TypeOK
  <2>b. /\ answer' = [answer EXCEPT ![r].sum = k]
        /\ cut' \in [Readers -> BOOLEAN]
        /\ ~cut'[r] => k = n
        /\ \A q \in Readers \ {r} : cut'[q] = cut[q]
    BY <2>0, <2>a DEF Inv, TypeOK
  <2> HIDE DEF k
  <2>c. /\ pc' = [pc EXCEPT ![r] = "done"]
        /\ UNCHANGED <<channelOf, stored, pending, channels, last, read>>
        /\ UNCHANGED <<query, ids, page, first>>
    BY <1>6 DEF SumChannels, tables, paging
  <2>d. answer' \in [Readers -> [total : Nat, unread : Int, sum : Nat]]
    BY <2>a, <2>b, AnswerType DEF Inv, TypeOK, Counts
  <2>1. TypeOK'
    BY <2>b, <2>c, <2>d DEF Inv, TypeOK
  <2>2. SelectedAreThere'
    BY <1>6 DEF Inv, TypeOK, SelectedAreThere, SumChannels, tables, paging, Of
  <2>3. CountsAreBounded'
    BY <1>1, <1>2, <1>6, <2>a, <2>b
       DEF Inv, TypeOK, CountsAreBounded, SumChannels, tables, paging
  <2> QED
    BY <2>1, <2>2, <2>3 DEF Inv
<1>7. CASE GetMessages(r)
  <2>1. TypeOK'
    BY <1>7, GetMessagesTypes DEF Inv
  <2>2. /\ UNCHANGED <<tables, query, answer>>
        /\ pc[r] \in {"idle", "page"} /\ pc'[r] \in {"page", "end"}
        /\ \A s \in Readers \ {r} :
              ids'[s] = ids[s] /\ pc'[s] = pc[s] /\ cut'[s] = cut[s]
    BY <1>7 DEF Inv, TypeOK, GetMessages, Answer, FirstPage, NextPage
  <2>3. SelectedAreThere'
    BY <2>2 DEF Inv, SelectedAreThere, tables, Of
  <2>4. CountsAreBounded'
    BY <2>2 DEF Inv, CountsAreBounded, tables
  <2> QED
    BY <2>1, <2>3, <2>4 DEF Inv
<1> QED
  BY <1>3, <1>4, <1>5, <1>6, <1>7 DEF GetUserStats, GetUnreadCount

LEMMA StepInv == ASSUME StorageAssumption, Inv, [Next]_vars PROVE Inv'
<1>1. CASE UNCHANGED vars
  BY <1>1 DEF vars, tables, calls, Inv, TypeOK, SelectedAreThere, CountsAreBounded, Of
<1>2. CASE Next
  BY <1>2, CreateMessageKeepsInv, MarkAsReadKeepsInv, CreateChannelKeepsInv,
     ReaderKeepsInv DEF Next
<1> QED
  BY <1>1, <1>2

LEMMA AlwaysInv == Spec => []Inv
<1>1. Init => Inv
  BY InitInv, StorageAssumption
<1>2. Inv /\ [Next]_vars => Inv'
  BY StepInv, StorageAssumption
<1> QED
  BY <1>1, <1>2, PTL DEF Spec

\* Every variable is well typed, for any messages, channels and readers.
THEOREM TypeCorrect == Spec => []TypeOK
<1>1. Inv => TypeOK
  BY DEF Inv
<1> QED
  BY <1>1, AlwaysInv, PTL

\* The counts of a GetUserStats call are ordered although each of its queries
\* sees another moment: total and unread messages are covered by the channels.
THEOREM StatsStayOrdered == Spec => []StatsAreOrdered
<1>1. Inv => StatsAreOrdered
  BY DEF Inv, CountsAreBounded, StatsAreOrdered
<1> QED
  BY <1>1, AlwaysInv, PTL

\* The unread count of GetUnreadCount is never negative and never above what is
\* unread at its second query, whatever arrives or is read between the two.
THEOREM UnreadCountIsSafe == Spec => UnreadIsSafe
<1> DEFINE Safe(r) ==
      pc[r] = "count" /\ pc'[r] # "count" =>
          LET n == answer'[r].unread IN
          n >= 0 /\ n <= Cardinality(Of(query[r]) \ read)
<1>1. ASSUME Inv, [Next]_vars PROVE \A r \in Readers : Safe(r)
  <2> SUFFICES ASSUME NEW r \in Readers, pc[r] = "count", pc'[r] # "count"
      PROVE  /\ answer'[r].unread >= 0
             /\ answer'[r].unread <= Cardinality(Of(query[r]) \ read)
    OBVIOUS
  <2>1. CountRead(r)
    <3>1. ASSUME NEW s \in Readers,
                 \/ CountTotal(s) \/ SumChannels(s) \/ SelectIds(s)
                 \/ GetMessages(s)
          PROVE  FALSE
      BY <1>1, <3>1 DEF CountTotal, SumChannels, SelectIds, GetMessages, FirstPage,
         NextPage, Answer, Inv, TypeOK
    <3>2. ASSUME NEW s \in Readers, CountRead(s) PROVE s = r
      BY <1>1, <3>2 DEF CountRead, Inv, TypeOK
    <3>3. ~UNCHANGED pc
      OBVIOUS
    <3>4. PICK s \in Readers :
               GetUserStats(s) \/ GetUnreadCount(s) \/ GetMessages(s)
      BY <1>1, <3>3 DEF Next, vars, calls, CreateMessage, Insert, UpdateLast,
         UpdateFails, MarkAsRead, CreateChannel
    <3> QED
      BY <3>1, <3>2, <3>4 DEF GetUserStats, GetUnreadCount
  <2> DEFINE u == Cardinality(ids[r]) - Cardinality(ids[r] \cap read)
  <2>2. answer'[r].unread = u
    BY <1>1, <2>1 DEF CountRead, Inv, TypeOK
  <2>3. ids[r] \subseteq Of(query[r]) /\ Of(query[r]) \subseteq Messages
    BY <1>1 DEF Inv, SelectedAreThere, TypeOK, Of
  <2>4. u = Cardinality(ids[r] \ read) /\ u \in Nat
    BY <2>3, UnreadIsADifference, StorageAssumption
  <2>5. Cardinality(ids[r] \ read) <= Cardinality(Of(query[r]) \ read)
    BY <2>3, CountGrows, StorageAssumption
  <2> QED
    BY <2>2, <2>4, <2>5
<1>2. Inv /\ [Next]_vars => [\A r \in Readers : Safe(r)]_vars
  BY <1>1
<1> QED
  BY <1>2, AlwaysInv, PTL DEF Spec, UnreadIsSafe

-----------------------------------------------------------------------------
(* Pages.  Messages arrive between two pages and move others down the       *)
(* list, never up; so what is not on the pages so far is still to come.    *)

LEMMA LeastNatural ==
    ASSUME NEW T, T \subseteq Nat, T # {}
    PROVE  \E x \in T : \A y \in T : x <= y
<1> DEFINE C == {0..x : x \in T}
<1>1. C \subseteq FiniteSubsetsOf(Nat)
  <2> SUFFICES ASSUME NEW x \in T PROVE 0..x \in FiniteSubsetsOf(Nat)
    OBVIOUS
  <2>1. IsFiniteSet(0..x)
    BY FS_Interval
  <2>2. 0..x \subseteq Nat
    OBVIOUS
  <2> QED
    BY <2>1, <2>2 DEF FiniteSubsetsOf
<1>2. IsWellFoundedOn(StrictSubsetOrdering(Nat), FiniteSubsetsOf(Nat))
  BY FS_StrictSubsetOrderingWellFounded
<1>3. C # {}
  OBVIOUS
<1>4. \E u \in C : \A v \in C : ~(<<v, u>> \in StrictSubsetOrdering(Nat))
  <2> HIDE DEF C
  <2> QED
    BY <1>1, <1>2, <1>3, WFMin
<1>5. PICK x \in T : \A v \in C : ~(<<v, 0..x>> \in StrictSubsetOrdering(Nat))
  BY <1>4
<1>6. ASSUME NEW y \in T PROVE x <= y
  <2> SUFFICES ASSUME y < x PROVE FALSE
    OBVIOUS
  <2>1. 0..y \subseteq 0..x /\ 0..x \subseteq Nat
    OBVIOUS
  <2>2. x \in 0..x /\ x \notin 0..y
    OBVIOUS
  <2>3. <<0..y, 0..x>> \in StrictSubsetOrdering(Nat)
    BY <2>1, <2>2 DEF StrictSubsetOrdering
  <2> QED
    BY <2>3, <1>5
<1> QED
  BY <1>6

LEMMA PlaceType ==
    ASSUME StorageAssumption, TypeOK, NEW c, NEW m
    PROVE  Place(c, m) \in Nat /\ Of(c) \subseteq Messages
BY StoredIsFinite, {n \in Of(c) : n > m} \subseteq Messages DEF Place, Of, TypeOK

\* A newer message has a smaller place.
LEMMA NewerComesFirst ==
    ASSUME StorageAssumption, TypeOK, NEW c, NEW m \in Of(c), NEW n \in Of(c), m < n
    PROVE  Place(c, n) < Place(c, m)
<1> DEFINE N == {k \in Of(c) : k > n}
           M == {k \in Of(c) : k > m}
<1>1. Of(c) \subseteq Messages /\ Messages \subseteq Nat
  BY PlaceType DEF StorageAssumption
<1>2. IsFiniteSet(N) /\ Cardinality(N) \in Nat /\ n \notin N
  <2>1. N \subseteq Messages
    BY <1>1
  <2>2. n \notin N
    <3>1. n \in Nat
      BY <1>1
    <3> QED
      BY <3>1
  <2> HIDE DEF N
  <2> QED
    BY <2>1, <2>2, StoredIsFinite
<1>3. Cardinality(N \cup {n}) = Cardinality(N) + 1
  BY <1>2, FS_AddElement
<1>4. N \cup {n} \subseteq M /\ M \subseteq Messages
  <2>1. n \in M /\ M \subseteq Messages
    BY <1>1
  <2>2. ASSUME NEW k \in N PROVE k \in M
    <3>1. k \in Nat /\ m \in Nat /\ n \in Nat
      BY <1>1
    <3> QED
      BY <3>1
  <2> QED
    BY <2>1, <2>2
<1>5. Cardinality(N \cup {n}) <= Cardinality(M)
  BY <1>4, CountGrows
<1>6. Cardinality(M) \in Nat
  BY <1>4, StoredIsFinite
<1> QED
  BY <1>2, <1>3, <1>5, <1>6 DEF Place

\* At most offset messages have a place below offset.
LEMMA FewBefore ==
    ASSUME StorageAssumption, TypeOK, NEW c, NEW offset \in Nat
    PROVE  Cardinality({m \in Of(c) : Place(c, m) < offset}) <= offset
<1> DEFINE B == {m \in Of(c) : Place(c, m) < offset}
<1>1. Of(c) \subseteq Messages /\ Messages \subseteq Nat /\ B \subseteq Messages
  BY PlaceType DEF StorageAssumption
<1>2. CASE B = {}
  BY <1>2, FS_EmptySet
<1>3. CASE B # {}
  <2>1. PICK b \in B : \A m \in B : b <= m
    BY <1>1, <1>3, LeastNatural
  <2> DEFINE N == {k \in Of(c) : k > b}
  <2>2. IsFiniteSet(N) /\ Cardinality(N) \in Nat /\ b \notin N
    <3>1. N \subseteq Messages
      BY <1>1
    <3>2. b \notin N
      <4>1. b \in Nat
        BY <1>1
      <4> QED
        BY <4>1
    <3> HIDE DEF N
    <3> QED
      BY <3>1, <3>2, StoredIsFinite
  <2>3. Cardinality(N \cup {b}) = Cardinality(N) + 1
    BY <2>2, FS_AddElement
  <2>4. B \subseteq N \cup {b} /\ N \cup {b} \subseteq Messages
    <3>1. N \cup {b} \subseteq Messages
      BY <1>1
    <3>2. ASSUME NEW k \in B PROVE k \in N \cup {b}
      <4>1. k \in Nat /\ b \in Nat /\ k \in Of(c) /\ b <= k
        BY <1>1, <2>1
      <4> QED
        BY <4>1
    <3> QED
      BY <3>1, <3>2
  <2>5. Cardinality(B) <= Cardinality(N \cup {b}) /\ Cardinality(B) \in Nat
    BY <1>1, <2>4, CountGrows, StoredIsFinite
  <2>6. Cardinality(N) < offset
    BY <2>1 DEF Place
  <2> QED
    BY <2>2, <2>3, <2>5, <2>6
<1> QED
  BY <1>2, <1>3

\* If some message has place k or more, at least k have a place below k.
LEMMA ManyBefore ==
    ASSUME StorageAssumption, TypeOK, NEW c, NEW k \in Nat,
           NEW m \in Of(c), k <= Place(c, m)
    PROVE  k <= Cardinality({n \in Of(c) : Place(c, n) < k})
<1> DEFINE A == {n \in Of(c) : Place(c, n) < k}
           T == {Place(c, n) : n \in Of(c) \ A}
<1>1. Of(c) \subseteq Messages /\ Messages \subseteq Nat /\ A \subseteq Messages
  BY PlaceType DEF StorageAssumption
<1>2. \A n \in Of(c) : Place(c, n) \in Nat
  BY PlaceType
<1>3. m \in Of(c) \ A
  BY <1>2
<1>4. T \subseteq Nat /\ T # {}
  BY <1>2, <1>3
<1>5. PICK p \in T : \A q \in T : p <= q
  BY <1>4, LeastNatural
<1>6. PICK x \in Of(c) \ A : p = Place(c, x)
  BY <1>5
<1> DEFINE G == {n \in Of(c) : n > x}
<1>7. G \subseteq A
  <2> SUFFICES ASSUME NEW n \in G PROVE n \in A
    OBVIOUS
  <2>1. Place(c, n) < Place(c, x)
    BY <1>1, <1>6, NewerComesFirst
  <2>2. n \notin A => Place(c, n) \in T
    OBVIOUS
  <2> QED
    BY <1>2, <1>5, <1>6, <2>1, <2>2
<1>8. Cardinality(G) <= Cardinality(A) /\ Cardinality(A) \in Nat
  BY <1>1, <1>7, CountGrows, StoredIsFinite
<1>9. Cardinality(G) = Place(c, x) /\ k <= Place(c, x)
  BY <1>2, <1>6 DEF Place
<1> QED
  BY <1>2, <1>6, <1>8, <1>9

\* Only the last page is short.
LEMMA ShortPageIsLast ==
    ASSUME StorageAssumption, TypeOK, NEW c, NEW limit \in Nat, NEW offset \in Nat,
           Cardinality(Page(c, limit, offset)) < limit,
           NEW m \in Of(c)
    PROVE  Place(c, m) < offset + limit
<1> DEFINE A == {n \in Of(c) : Place(c, n) < offset + limit}
           B == {n \in Of(c) : Place(c, n) < offset}
<1>1. Of(c) \subseteq Messages /\ A \subseteq Messages /\ B \subseteq Messages
  BY PlaceType
<1>2. \A n \in Of(c) : Place(c, n) \in Nat
  BY PlaceType
<1>3. Page(c, limit, offset) = A \ B /\ A \cap B = B
  BY <1>2 DEF Page
<1>4. Cardinality(A \ B) = Cardinality(A) - Cardinality(B)
  BY <1>1, <1>3, StoredIsFinite, FS_Difference
<1>5. Cardinality(B) <= offset
  BY FewBefore
<1>6. Cardinality(A) \in Nat /\ Cardinality(B) \in Nat
  BY <1>1, StoredIsFinite
<1>7. ASSUME offset + limit <= Place(c, m) PROVE FALSE
  <2>1. offset + limit <= Cardinality(A)
    BY <1>7, ManyBefore
  <2> QED
    BY <1>3, <1>4, <1>5, <1>6, <2>1
<1> QED
  BY <1>2, <1>7

Rest(r) == {m \in Of(query[r]) : page[r].offset <= Place(query[r], m)}

PagesAreAligned ==
    \A r \in Readers :
        /\ pc[r] = "idle" => page[r].offset = 0
        /\ pc[r] = "page" /\ ~cut[r] => first[r] \subseteq ids[r] \cup Rest(r)
        /\ pc[r] = "end" /\ ~cut[r] => first[r] \subseteq ids[r]

\* A message never moves up when others are stored.
LEMMA RestStays ==
    ASSUME StorageAssumption, TypeOK, TypeOK', UNCHANGED <<channelOf, query, page>>,
           stored \subseteq stored', NEW r \in Readers
    PROVE  Rest(r) \subseteq Rest(r)'
<1> DEFINE c == query[r]
<1>1. Of(c) \subseteq Of(c)' /\ Of(c)' \subseteq Messages
  BY DEF Of, TypeOK
<1>2. ASSUME NEW m \in Of(c), page[r].offset <= Place(c, m)
      PROVE  page[r].offset <= Place(c, m)'
  <2> DEFINE S == {n \in Of(c) : n > m}
             T == {n \in Of(c)' : n > m}
  <2>1. S \subseteq T /\ T \subseteq Messages
    BY <1>1
  <2>2. Cardinality(S) <= Cardinality(T)
    BY <2>1, CountGrows
  <2>3. Cardinality(S) \in Nat /\ Cardinality(T) \in Nat /\ page[r].offset \in Nat
    BY <2>1, StoredIsFinite DEF TypeOK
  <2>4. Place(c, m) = Cardinality(S) /\ Place(c, m)' = Cardinality(T)
    BY DEF Place
  <2> QED
    BY <1>2, <2>2, <2>3, <2>4
<1> QED
  BY <1>1, <1>2 DEF Rest

LEMMA GetMessagesAligns ==
    ASSUME StorageAssumption, TypeOK, PagesAreAligned, NEW r \in Readers,
           GetMessages(r)
    PROVE  PagesAreAligned'
<1> DEFINE c == query[r]
           o == page[r].offset
           l == page'[r].limit
           got == Page(c, l, o)
<1>1. TypeOK'
  BY GetMessagesTypes
<1>2. o \in Nat /\ l \in Nat /\ l > 0
  <2>1. page[r] \in [limit : 1..MaxLimit, offset : Nat]
        /\ page'[r] \in [limit : 1..MaxLimit, offset : Nat]
    BY <1>1 DEF TypeOK
  <2> QED
    BY <2>1 DEF StorageAssumption
<1>3. /\ pc'[r] \in {"page", "end"}
      /\ ~cut'[r] => /\ ~cut[r]
                     /\ ids'[r] = ids[r] \cup got
                     /\ pc'[r] = "end" => Cardinality(got) < l
      /\ UNCHANGED <<tables, query, answer>>
  <2>1. PICK part \in SUBSET got :
          /\ ids' = [ids EXCEPT ![r] = @ \cup part]
          /\ cut' = [cut EXCEPT ![r] = @ \/ part # got]
          /\ pc' = [pc EXCEPT ![r] = IF Cardinality(part) < l THEN "end" ELSE "page"]
    BY DEF GetMessages, Answer
  <2>2. /\ ids'[r] = ids[r] \cup part
        /\ cut'[r] = (cut[r] \/ part # got)
        /\ pc'[r] = IF Cardinality(part) < l THEN "end" ELSE "page"
    BY <2>1 DEF TypeOK
  <2> HIDE DEF got
  <2>3. UNCHANGED <<tables, query, answer>>
    BY DEF GetMessages, Answer
  <2>4. ASSUME ~cut'[r] PROVE ~cut[r] /\ part = got
    BY <2>2, <2>4
  <2> QED
    BY <2>2, <2>3, <2>4
<1>4. page'[r].offset = o + l
  <2>1. ASSUME FirstPage(r) PROVE page'[r].offset = o + l
    <3>1. PICK k \in Limits : page'[r] = [limit |-> Limit(k), offset |-> Limit(k)]
      BY <2>1 DEF FirstPage, TypeOK
    <3>2. o = 0 /\ Limit(k) \in Nat
      BY <2>1, LimitInRange DEF FirstPage, PagesAreAligned, StorageAssumption
    <3> QED
      BY <3>1, <3>2
  <2>2. ASSUME NextPage(r) PROVE page'[r].offset = o + l
    BY <2>2 DEF NextPage, TypeOK
  <2> QED
    BY <2>1, <2>2 DEF GetMessages
<1>5. \A m \in Of(c) : Place(c, m) \in Nat
  BY PlaceType
<1>6. /\ Of(c)' = Of(c)
      /\ \A m : Place(c, m)' = Place(c, m)
      /\ c' = c
  BY <1>3 DEF tables, Of, Place
<1>7. ~cut[r] => first'[r] \subseteq ids[r] \cup {m \in Of(c) : o <= Place(c, m)}
  <2>1. ASSUME FirstPage(r)
        PROVE  first'[r] \subseteq {m \in Of(c) : o <= Place(c, m)}
    BY <1>5, <2>1 DEF FirstPage, PagesAreAligned, TypeOK
  <2>2. ASSUME NextPage(r), ~cut[r]
        PROVE  first'[r] \subseteq ids[r] \cup {m \in Of(c) : o <= Place(c, m)}
    BY <2>2 DEF NextPage, PagesAreAligned, Rest
  <2> QED
    BY <2>1, <2>2 DEF GetMessages
<1>8. ~cut'[r] => first'[r] \subseteq ids'[r] \cup Rest(r)'
  <2>1. {m \in Of(c) : o <= Place(c, m)}
           \subseteq got \cup {m \in Of(c) : o + l <= Place(c, m)}
    BY <1>2, <1>5 DEF Page
  <2>2. Rest(r)' = {m \in Of(c) : o + l <= Place(c, m)}
    BY <1>4, <1>6 DEF Rest
  <2> HIDE DEF got
  <2> QED
    BY <1>3, <1>7, <2>1, <2>2
<1>9. ASSUME pc'[r] = "end", ~cut'[r] PROVE first'[r] \subseteq ids'[r]
  <2>1. Cardinality(got) < l
    BY <1>3, <1>9
  <2>2. \A m \in Of(c) : Place(c, m) < o + l
    BY <1>2, <2>1, ShortPageIsLast
  <2>3. Rest(r)' = {}
    BY <1>2, <1>4, <1>5, <1>6, <2>2 DEF Rest
  <2> QED
    BY <1>8, <1>9, <2>3
<1>10. ASSUME NEW s \in Readers, s # r
       PROVE  /\ pc'[s] = pc[s] /\ page'[s] = page[s] /\ cut'[s] = cut[s]
              /\ first'[s] = first[s] /\ ids'[s] = ids[s] /\ Rest(s)' = Rest(s)
  <2>1. /\ pc'[s] = pc[s] /\ page'[s] = page[s] /\ cut'[s] = cut[s]
        /\ first'[s] = first[s] /\ ids'[s] = ids[s]
    BY <1>10 DEF GetMessages, FirstPage, NextPage, Answer, TypeOK
  <2> QED
    BY <1>3, <2>1 DEF Rest, Of, Place, tables
<1> QED
  BY <1>3, <1>8, <1>9, <1>10 DEF PagesAreAligned

\* A client that pages through a channel while messages of any age arrive is
\* sent all that the channel held at its first page, if no page lost rows.
THEOREM PagesSkipNothing == Spec => []PagesMissNothing
<1>1. Init => PagesAreAligned
  BY DEF Init, PagesAreAligned
<1>2. TypeOK /\ TypeOK' /\ PagesAreAligned /\ [Next]_vars => PagesAreAligned'
  <2> SUFFICES ASSUME TypeOK, TypeOK', PagesAreAligned, [Next]_vars
               PROVE  PagesAreAligned'
    OBVIOUS
  <2> USE StorageAssumption
  <2>1. ASSUME UNCHANGED <<channelOf, calls>>, stored \subseteq stored'
        PROVE  PagesAreAligned'
    <3>1. UNCHANGED <<pc, query, ids, page, first, cut>>
      BY <2>1 DEF calls
    <3>2. \A r \in Readers : Rest(r) \subseteq Rest(r)'
      BY <2>1, <3>1, RestStays
    <3> QED
      BY <3>1, <3>2 DEF PagesAreAligned
  <2>2. CASE UNCHANGED vars
    BY <2>1, <2>2 DEF vars, tables
  <2>3. ASSUME NEW m \in Messages, CreateMessage(m) \/ MarkAsRead(m)
        PROVE  PagesAreAligned'
    BY <2>1, <2>3 DEF CreateMessage, Insert, UpdateLast, UpdateFails, MarkAsRead
  <2>4. ASSUME NEW c \in Channels, CreateChannel(c) PROVE PagesAreAligned'
    BY <2>1, <2>4 DEF CreateChannel
  <2>5. ASSUME NEW r \in Readers, GetUserStats(r) \/ GetUnreadCount(r)
        PROVE  PagesAreAligned'
    <3>1. /\ UNCHANGED <<tables, query, page, first>>
          /\ pc[r] \notin {"page", "end"} /\ pc'[r] \notin {"page", "end", "idle"}
          /\ \A s \in Readers \ {r} :
                ids'[s] = ids[s] /\ pc'[s] = pc[s] /\ cut'[s] = cut[s]
      BY <2>5 DEF GetUserStats, GetUnreadCount, CountTotal, SumChannels, SelectIds,
         CountRead, TypeOK, paging
    <3>2. \A s \in Readers : Rest(s)' = Rest(s)
      BY <3>1 DEF Rest, Of, Place, tables
    <3> QED
      BY <3>1, <3>2 DEF PagesAreAligned
  <2>6. ASSUME NEW r \in Readers, GetMessages(r) PROVE PagesAreAligned'
    BY <2>6, GetMessagesAligns
  <2> QED
    BY <2>2, <2>3, <2>4, <2>5, <2>6 DEF Next
<1>3. PagesAreAligned => PagesMissNothing
  BY DEF PagesAreAligned, PagesMissNothing
<1> QED
  BY <1>1, <1>2, <1>3, TypeCorrect, PTL DEF Spec
=============================================================================
