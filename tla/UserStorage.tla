---------------------------- MODULE UserStorage ----------------------------
(***************************************************************************)
(* One user's databases and the statements that the workers and the API    *)
(* handlers run on them (src/internal/storage/user_storage.go): messages   *)
(* and channels in one database, read status in another, no transaction    *)
(* around more than one statement.  A message is numbered by the order of  *)
(* created_at, which the API assigns; workers store messages in any order. *)
(* A query may break off in the middle of its rows: the code never asks    *)
(* rows.Err(), so the rows so far pass for all of them.                    *)
(***************************************************************************)
EXTENDS Integers, FiniteSets

CONSTANTS
    Messages,   \* the messages addressed to this user, by order of creation
    Channels,
    Default,    \* the channel that every workspace starts with
    All,        \* no channel_id: count over all channels
    Readers,    \* clients: each counts, or pages through a channel
    Limits,     \* the limits that a client may ask GetMessages for
    MaxLimit,       \* 100 in the code
    DefaultLimit    \* 20

ASSUME StorageAssumption ==
    /\ Messages \subseteq Nat \ {0} /\ IsFiniteSet(Messages)
    /\ Default \in Channels
    /\ All \notin Channels
    /\ Limits \subseteq Int
    /\ MaxLimit \in Nat /\ DefaultLimit \in 1..MaxLimit

VARIABLES
    channelOf,  \* channel_id of each message
    stored,     \* rows of messages
    pending,    \* messages whose CreateMessage has inserted and not updated
    channels,   \* rows of channels
    last,       \* last_message_at of each channel, 0 for NULL
    read,       \* rows of read_status
    pc,         \* progress of each reader
    query,      \* the channel it asks about, or All
    ids,        \* the messages that it has selected, or seen on its pages
    answer,     \* the counts it has so far
    page,       \* the limit and the offset of its next page
    first,      \* what the channel held at its first page
    cut         \* whether its channel counts or one of its pages lost rows

tables == <<channelOf, stored, pending, channels, last, read>>
paging == <<page, first>>
calls == <<pc, query, ids, answer, page, first, cut>>
vars == <<tables, calls>>

Of(c) == {m \in stored : c = All \/ channelOf[m] = c}

Init ==
    /\ channelOf \in [Messages -> Channels]
    /\ stored = {}
    /\ pending = {}
    /\ channels = {Default}
    /\ last = [c \in Channels |-> 0]
    /\ read = {}
    /\ pc = [r \in Readers |-> "idle"]
    /\ query \in [Readers -> Channels \cup {All}]
    /\ ids = [r \in Readers |-> {}]
    /\ answer = [r \in Readers |-> [total |-> 0, unread |-> 0, sum |-> 0]]
    /\ page = [r \in Readers |-> [limit |-> DefaultLimit, offset |-> 0]]
    /\ first = [r \in Readers |-> {}]
    /\ cut = [r \in Readers |-> FALSE]

-----------------------------------------------------------------------------
(* Writers.                                                                *)

\* INSERT; a retry of a stored message fails on the primary key.
Insert(m) ==
    /\ m \notin stored
    /\ stored' = stored \cup {m}
    /\ pending' = pending \cup {m}
    /\ UNCHANGED <<channelOf, channels, last, read, calls>>

\* updateChannelLastMessage: no row is changed if the channel does not exist.
UpdateLast(m) ==
    /\ m \in pending
    /\ pending' = pending \ {m}
    /\ last' = IF channelOf[m] \in channels
               THEN [last EXCEPT ![channelOf[m]] = m] ELSE last
    /\ UNCHANGED <<channelOf, stored, channels, read, calls>>

\* The UPDATE fails; the message stays.
UpdateFails(m) ==
    /\ m \in pending
    /\ pending' = pending \ {m}
    /\ UNCHANGED <<channelOf, stored, channels, last, read, calls>>

CreateChannel(c) ==
    /\ c \notin channels
    /\ channels' = channels \cup {c}
    /\ UNCHANGED <<channelOf, stored, pending, last, read, calls>>

\* The id is not looked up in messages; REPLACE changes nothing that is counted.
MarkAsRead(m) ==
    /\ read' = read \cup {m}
    /\ UNCHANGED <<channelOf, stored, pending, channels, last, calls>>

-----------------------------------------------------------------------------
(* Readers: each statement sees the database of its moment.  A query that   *)
(* fails, or a page with a row that cannot be scanned, ends the call: the  *)
(* reader takes no further step.                                           *)

\* GetUserStats counts the messages first and then calls GetUnreadCount("").
CountTotal(r) ==
    /\ pc[r] = "idle"
    /\ query[r] = All
    /\ answer' = [answer EXCEPT ![r].total = Cardinality(stored)]
    /\ pc' = [pc EXCEPT ![r] = "select"]
    /\ UNCHANGED <<tables, query, ids, paging, cut>>

\* GetUnreadCount for one channel starts here.  Rows that cannot be scanned are
\* skipped, and the rows may break off.
SelectIds(r) ==
    /\ pc[r] = "select" \/ (pc[r] = "idle" /\ query[r] # All)
    /\ \E got \in SUBSET Of(query[r]) : ids' = [ids EXCEPT ![r] = got]
    /\ pc' = [pc EXCEPT ![r] = "count"]
    /\ UNCHANGED <<tables, query, answer, paging, cut>>

\* Mutant: read_status is counted as a whole.
CountAllRead(r) ==
    /\ pc[r] = "count"
    /\ answer' = [answer EXCEPT
          ![r].unread = Cardinality(ids[r]) - Cardinality(read)]
    /\ pc' = [pc EXCEPT ![r] = IF query[r] = All THEN "sum" ELSE "done"]
    /\ UNCHANGED <<tables, query, ids, paging, cut>>

\* How many of the selected ids have a row in read_status (none is asked for an
\* empty list).
CountRead(r) ==
    /\ pc[r] = "count"
    /\ answer' = [answer EXCEPT
          ![r].unread = Cardinality(ids[r]) - Cardinality(ids[r] \cap read)]
    /\ pc' = [pc EXCEPT ![r] = IF query[r] = All THEN "sum" ELSE "done"]
    /\ UNCHANGED <<tables, query, ids, paging, cut>>

\* Mutant: only the channels that exist are summed up.
SumExistingChannels(r) ==
    /\ pc[r] = "sum"
    /\ answer' = [answer EXCEPT
          ![r].sum = Cardinality({m \in stored : channelOf[m] \in channels})]
    /\ pc' = [pc EXCEPT ![r] = "done"]
    /\ UNCHANGED <<tables, query, ids, paging, cut>>

\* The messages grouped by channel_id; got are the groups that were scanned, of
\* which some may be missing as in SelectIds.
SumChannels(r) ==
    /\ pc[r] = "sum"
    /\ \E got \in SUBSET Channels :
          LET counted == {m \in stored : channelOf[m] \in got} IN
          /\ answer' = [answer EXCEPT ![r].sum = Cardinality(counted)]
          /\ cut' = [cut EXCEPT ![r] = counted # stored]
    /\ pc' = [pc EXCEPT ![r] = "done"]
    /\ UNCHANGED <<tables, query, ids, paging>>

\* The place of a message in its channel, ORDER BY created_at DESC.
Place(c, m) == Cardinality({n \in Of(c) : n > m})

\* LIMIT limit OFFSET offset
Page(c, limit, offset) ==
    {m \in Of(c) : offset <= Place(c, m) /\ Place(c, m) < offset + limit}

\* A limit the handler does not accept becomes the default; the answer tells.
Limit(l) == IF l <= 0 \/ l > MaxLimit THEN DefaultLimit ELSE l

\* The first page that a client asks for, and the next ones: it goes on by the
\* limit it was answered with.
FirstPage(r) ==
    /\ pc[r] = "idle"
    /\ query[r] # All
    /\ first' = [first EXCEPT ![r] = Of(query[r])]
    /\ \E l \in Limits :
          page' = [page EXCEPT ![r] = [limit |-> Limit(l), offset |-> Limit(l)]]

NextPage(r) ==
    /\ pc[r] = "page"
    /\ page' = [page EXCEPT ![r].offset = @ + page[r].limit]
    /\ UNCHANGED first

\* The answer to a page: the rows of whole up to where they broke off, if they
\* did.  The client takes a page that is not full for the last one.
Answer(r, whole) ==
    /\ \E got \in SUBSET whole :
          /\ \A m \in got, n \in whole : n > m => n \in got
          /\ ids' = [ids EXCEPT ![r] = @ \cup got]
          /\ cut' = [cut EXCEPT ![r] = @ \/ got # whole]
          /\ pc' = [pc EXCEPT
                ![r] = IF Cardinality(got) < page'[r].limit THEN "end" ELSE "page"]
    /\ UNCHANGED <<tables, query, answer>>

\* Mutant: the two arguments of the query are swapped.
GetMessagesSwapped(r) ==
    /\ FirstPage(r) \/ NextPage(r)
    /\ Answer(r, Page(query[r], page[r].offset, page'[r].limit))

GetMessages(r) ==
    /\ FirstPage(r) \/ NextPage(r)
    /\ Answer(r, Page(query[r], page'[r].limit, page[r].offset))

CreateMessage(m) == Insert(m) \/ UpdateLast(m) \/ UpdateFails(m)

GetUserStats(r) == CountTotal(r) \/ SumChannels(r)

GetUnreadCount(r) == SelectIds(r) \/ CountRead(r)

Next ==
    \/ \E m \in Messages : CreateMessage(m) \/ MarkAsRead(m)
    \/ \E c \in Channels : CreateChannel(c)
    \/ \E r \in Readers : GetUserStats(r) \/ GetUnreadCount(r) \/ GetMessages(r)

Spec == Init /\ [][Next]_vars

-----------------------------------------------------------------------------
(* Properties.                                                             *)

\* Every variable has its type; only stored messages are selected.
TypeOK ==
    /\ channelOf \in [Messages -> Channels]
    /\ stored \subseteq Messages
    /\ pending \subseteq stored
    /\ channels \subseteq Channels
    /\ last \in [Channels -> Messages \cup {0}]
    /\ read \subseteq Messages
    /\ pc \in [Readers -> {"idle", "select", "count", "sum", "done",
                          "page", "end"}]
    /\ query \in [Readers -> Channels \cup {All}]
    /\ ids \in [Readers -> SUBSET stored]
    /\ answer \in [Readers -> [total : Nat, unread : Int, sum : Nat]]
    /\ page \in [Readers -> [limit : 1..MaxLimit, offset : Nat]]
    /\ first \in [Readers -> SUBSET stored]
    /\ cut \in [Readers -> BOOLEAN]

\* The two databases are read one after the other while messages arrive and are
\* read, and the first query may break off: the count is never negative and
\* never more than what is unread at the moment of the second query.
UnreadIsSafe ==
    [][\A r \in Readers : pc[r] = "count" /\ pc'[r] # "count" =>
          LET n == answer'[r].unread IN
          n >= 0 /\ n <= Cardinality(Of(query[r]) \ read)]_vars

\* The counts of one GetUserStats come from different moments; yet the channels
\* add up to at least the total and the unread messages, unless the query for
\* the channels lost rows: that is the only way to an answer that contradicts
\* itself.
StatsAreOrdered ==
    \A r \in Readers : pc[r] = "done" /\ query[r] = All /\ ~cut[r] =>
        answer[r].total <= answer[r].sum /\ answer[r].unread <= answer[r].sum

\* A client that pages through a channel while messages arrive, some of them
\* older than what it has seen, misses none that was there when it began, unless
\* one of its pages lost rows; it may see some twice.
PagesMissNothing ==
    \A r \in Readers : pc[r] = "end" /\ ~cut[r] => first[r] \subseteq ids[r]
=============================================================================
