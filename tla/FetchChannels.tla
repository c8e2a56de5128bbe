---------------------------- MODULE FetchChannels ----------------------------
(***************************************************************************)
(* The data channel with two clients: the thread of the data socket and    *)
(* the thread of the serial port both run handleClientFetchMessage, and    *)
(* share the id of the open fetch, the list of fetched transaction ids and *)
(* its length, with no lock.  A fetch reads rows one by one into the list  *)
(* and into its reply; an acknowledge with the id of the open fetch        *)
(* deletes the rows of the list one by one.  Rows change meanwhile, the    *)
(* database may refuse a statement, and the program may be killed.         *)
(*                                                                         *)
(* Rows are numbered in RowId order.  Offline rows are those of            *)
(* OfflineSales, online rows those of OnlineReversal.                      *)
(***************************************************************************)
EXTENDS Integers, FiniteSets, TransactionRows

CONSTANTS
    Channels,        \* the channels with a client: "data", "serial"
    MaxRows,         \* bound: how many rows are stored
    MAX_FETCH_COUNT, \* entries of fetchTransactionIdList
    MaxRecords,      \* what clients ask for at most, per fetch
    Modes,           \* the modes they use: "Success", "Failure", "Pending"
    Orderliness,     \* the kinds of clients: TRUE for orderly ones, see `orderly`
    Caution,         \* and again: TRUE for cautious ones, see `cautious`
    MaxRequests,     \* bound: how many requests orderly clients send
    MaxOverlapping,  \* bound: how many requests other clients send
    MaxCrashes,      \* bound: how often the program is killed
    MaxDbFailures    \* bound: how often the database refuses a statement

ASSUME FetchBounds ==
    /\ MaxRows \in Nat /\ MAX_FETCH_COUNT \in Nat \ {0} /\ MaxRequests \in Nat
    /\ MaxOverlapping \in Nat
    /\ MaxCrashes \in Nat /\ MaxDbFailures \in Nat

\* A negative number would be no limit at all to the database.
ASSUME FetchKinds ==
    /\ MaxRecords \subseteq Nat \ {0}
    /\ Channels \subseteq {"data", "serial"} /\ IsFiniteSet(Channels)
    /\ Modes \subseteq {"Success", "Failure", "Pending"}
    /\ Orderliness \subseteq BOOLEAN /\ Caution \subseteq BOOLEAN

Ids == 1 .. MaxRows
NoId == 0                        \* an empty entry of the list
Entries == 1 .. 2 * MAX_FETCH_COUNT \* the list, and the memory behind it

FetchIdOf(ch) == IF ch = "data" THEN 1 ELSE 2
FetchIds == {1, 2}

VARIABLES
    Transactions,           \* the table
    rows,                   \* the number of the last row stored
    activeFetchId,          \* id of the open fetch, 0 when there is none
    fetchTransactionIdList, \* the fetched ids
    fetchedCount,           \* how many there are
    handler,                \* locals of handleClientFetchMessage on each channel
    client,                 \* each client's last fetch: its id and mode, the rows of the reply
    acked,                  \* rows whose delete a client asked for with an acknowledge
    deleted,                \* rows deleted
    cleared,                \* rows a client was told are deleted
    orderly,                \* clients use fetch ids of their own and take turns, one request
                            \* at a time
    cautious,               \* clients fetch no pending rows
    requests, crashes, dbFailures

list == <<activeFetchId, fetchTransactionIdList, fetchedCount>>
bounds == <<requests, crashes, dbFailures, orderly, cautious>>
ghosts == <<acked, deleted, cleared>>
vars == <<Transactions, rows, list, handler, client, ghosts, bounds>>

-----------------------------------------------------------------------------
(* The rows, as the rest of the program stores and changes them.           *)

StoreRow(row) ==
    /\ rows < MaxRows
    /\ Transactions' = [Transactions EXCEPT ![rows + 1] = row]
    /\ rows' = rows + 1
    /\ UNCHANGED <<list, handler, client, ghosts, bounds>>

\* Only where clients take pending rows away has the host thread's list stale entries.
RowChanges(r) == Changes(Transactions[r], ~cautious)

ChangeRow(r, row) ==
    /\ Transactions[r] # NoRow /\ row \in RowChanges(r)
    /\ Transactions' = [Transactions EXCEPT ![r] = row]
    /\ UNCHANGED <<rows, list, handler, client, ghosts, bounds>>

\* Mutation: the Success query tests the transaction's status instead of the host's.
MatchesTxn(row, mode, online) ==
    /\ row # NoRow /\ row.online = online
    /\ CASE mode = "Failure" -> row.txn = "Failure"
         [] mode = "Pending" -> row.host = "Pending"
         [] OTHER -> row.txn = "Success"

\* The condition of getFetchquery.
Matches(row, mode, online) ==
    /\ row # NoRow /\ row.online = online
    /\ CASE mode = "Failure" -> row.host = "Failure" \/ row.txn = "Failure"
         [] mode = "Pending" -> row.host = "Pending"
         [] OTHER -> row.host = "Success"

-----------------------------------------------------------------------------
(* fetch_auth.                                                             *)

Free == [pc |-> "free", mode |-> "none", online |-> FALSE, max |-> 0, last |-> NoId,
         got |-> {}, i |-> 0]
NoReply == [id |-> 0, mode |-> "none", seen |-> [r \in Ids |-> NoRow]]
Goes(ch, pc) == [handler EXCEPT ![ch].pc = pc]

\* Orderly clients take turns.
MayRequest(ch, id) ==
    /\ handler[ch].pc = "free" /\ requests < (IF orderly THEN MaxRequests ELSE MaxOverlapping)
    /\ orderly => /\ \A other \in Channels : handler[other].pc = "free"
                  /\ id = FetchIdOf(ch)

\* The list holds MAX_FETCH_COUNT ids.
Records(records) == IF records > MAX_FETCH_COUNT THEN MAX_FETCH_COUNT ELSE records

\* The id is taken before anything is read.
FetchAuth(ch, id, mode, online, records) ==
    /\ MayRequest(ch, id)
    /\ cautious => mode # "Pending"
    /\ activeFetchId' = id
    /\ handler' = [handler EXCEPT ![ch] = [Free EXCEPT !.pc = "select", !.mode = mode,
                                                       !.online = online,
                                                       !.max = Records(records)]]
    /\ client' = [client EXCEPT ![ch] = [NoReply EXCEPT !.id = id, !.mode = mode]]
    /\ requests' = requests + 1
    /\ UNCHANGED <<Transactions, rows, fetchTransactionIdList, fetchedCount, ghosts,
                   crashes, dbFailures, orderly, cautious>>

\* Mutation: the count of the last fetch is kept.
CountAtSelectKept == fetchedCount
CountAtSelect == 0

\* The list is emptied by its count ...
Select(ch) ==
    /\ handler[ch].pc = "select"
    /\ fetchedCount' = CountAtSelect
    /\ handler' = Goes(ch, "read")
    /\ UNCHANGED <<Transactions, rows, activeFetchId, fetchTransactionIdList, client, ghosts,
                   bounds>>

\* ... also when the query cannot be prepared, which leaves an empty fetch open.  A step
\* of it that is refused is taken for a row by the loop (dboperations.c 1429); that is
\* not modelled.
SelectFails(ch) ==
    /\ handler[ch].pc = "select" /\ dbFailures < MaxDbFailures
    /\ dbFailures' = dbFailures + 1
    /\ fetchedCount' = CountAtSelect
    /\ handler' = [handler EXCEPT ![ch] = Free]
    /\ UNCHANGED <<Transactions, rows, activeFetchId, fetchTransactionIdList, client, ghosts,
                   requests, crashes, orderly, cautious>>

Selectable(ch, r) ==
    /\ r > handler[ch].last
    /\ Matches(Transactions[r], handler[ch].mode, handler[ch].online)

Exhausted(ch) ==
    \/ Cardinality(handler[ch].got) = handler[ch].max
    \/ \A r \in Ids : ~Selectable(ch, r)

\* The next row goes to the list and to the reply; the count follows.
ReadRow(ch, r) ==
    /\ handler[ch].pc = "read" /\ ~Exhausted(ch)
    /\ Selectable(ch, r) /\ \A other \in Ids : Selectable(ch, other) => r <= other
    /\ fetchTransactionIdList' = [fetchTransactionIdList EXCEPT ![fetchedCount + 1] = r]
    /\ client' = [client EXCEPT ![ch].seen[r] = Transactions[r]]
    /\ handler' = [handler EXCEPT ![ch].pc = "count", ![ch].last = r,
                                  ![ch].got = handler[ch].got \cup {r}]
    /\ UNCHANGED <<Transactions, rows, activeFetchId, fetchedCount, ghosts, bounds>>

CountRow(ch) ==
    /\ handler[ch].pc = "count"
    /\ fetchedCount' = fetchedCount + 1
    /\ handler' = Goes(ch, "read")
    /\ UNCHANGED <<Transactions, rows, activeFetchId, fetchTransactionIdList, client, ghosts,
                   bounds>>

EndFetch(ch) ==
    /\ handler[ch].pc = "read" /\ Exhausted(ch)
    /\ handler' = [handler EXCEPT ![ch] = Free]
    /\ UNCHANGED <<Transactions, rows, list, client, ghosts, bounds>>

-----------------------------------------------------------------------------
(* fetch_ack.                                                              *)

RowsOf(ch) == {r \in Ids : client[ch].seen[r] # NoRow}

\* Mutation: an acknowledge is accepted with any id.
IsOpenAny(id) == id # 0 \/ activeFetchId # 0

IsOpen(id) == activeFetchId = id

\* An acknowledge with another id than that of the open fetch is refused.
FetchAck(ch) ==
    /\ MayRequest(ch, client[ch].id) /\ client[ch].id # 0
    /\ requests' = requests + 1
    /\ IF IsOpen(client[ch].id)
       THEN /\ handler' = [handler EXCEPT ![ch] = [Free EXCEPT !.pc = "delete"]]
            /\ acked' = acked \cup RowsOf(ch)
       ELSE UNCHANGED <<handler, acked>>
    /\ UNCHANGED <<Transactions, rows, list, client, deleted, cleared, crashes,
                   dbFailures, orderly, cautious>>

\* Mutation: the loop ends one entry early.
MoreToDeleteButOne(i) == i + 1 < fetchedCount

MoreToDelete(i) == i < fetchedCount

DeleteRow(ch) ==
    /\ handler[ch].pc = "delete" /\ MoreToDelete(handler[ch].i)
    /\ LET r == fetchTransactionIdList[handler[ch].i + 1] IN
          /\ Transactions' = IF r = NoId THEN Transactions
                             ELSE [Transactions EXCEPT ![r] = NoRow]
          /\ deleted' = IF r = NoId THEN deleted ELSE deleted \cup {r}
    /\ handler' = [handler EXCEPT ![ch].i = handler[ch].i + 1]
    /\ UNCHANGED <<rows, list, client, acked, cleared, bounds>>

\* A refused delete is reported, and the fetch stays open.
DeleteFails(ch) ==
    /\ handler[ch].pc = "delete" /\ MoreToDelete(handler[ch].i)
    /\ dbFailures < MaxDbFailures
    /\ dbFailures' = dbFailures + 1
    /\ handler' = [handler EXCEPT ![ch] = Free]
    /\ UNCHANGED <<Transactions, rows, list, client, ghosts, requests, crashes, orderly,
                   cautious>>

\* The fetch is closed and the list zeroed; its count stays as it is.
CloseFetch(ch) ==
    /\ handler[ch].pc = "delete" /\ ~MoreToDelete(handler[ch].i)
    /\ activeFetchId' = 0
    /\ fetchTransactionIdList' =
          [e \in Entries |-> IF e <= MAX_FETCH_COUNT THEN NoId ELSE fetchTransactionIdList[e]]
    /\ cleared' = cleared \cup RowsOf(ch)
    /\ handler' = [handler EXCEPT ![ch] = Free]
    /\ UNCHANGED <<Transactions, rows, fetchedCount, client, acked, deleted, bounds>>

\* A kill, and the watchdog's restart: the clients keep what they have.
Restart ==
    /\ crashes < MaxCrashes
    /\ crashes' = crashes + 1
    /\ activeFetchId' = 0 /\ fetchedCount' = 0
    /\ fetchTransactionIdList' = [e \in Entries |-> NoId]
    /\ handler' = [ch \in Channels |-> Free]
    /\ client' = [ch \in Channels |-> IF handler[ch].pc \in {"select", "read", "count"}
                                      THEN NoReply ELSE client[ch]]
    /\ UNCHANGED <<Transactions, rows, ghosts, requests, dbFailures, orderly, cautious>>

Init ==
    /\ Transactions = [r \in Ids |-> NoRow] /\ rows = 0
    /\ activeFetchId = 0 /\ fetchedCount = 0
    /\ fetchTransactionIdList = [e \in Entries |-> NoId]
    /\ handler = [ch \in Channels |-> Free]
    /\ client = [ch \in Channels |-> NoReply]
    /\ acked = {} /\ deleted = {} /\ cleared = {}
    /\ orderly \in Orderliness /\ cautious \in Caution
    /\ requests = 0 /\ crashes = 0 /\ dbFailures = 0

HandlerStep(ch) ==
    \/ Select(ch) \/ SelectFails(ch) \/ CountRow(ch) \/ EndFetch(ch)
    \/ \E r \in Ids : ReadRow(ch, r)
    \/ DeleteRow(ch) \/ DeleteFails(ch) \/ CloseFetch(ch)

Next ==
    \/ \E row \in NewRows : StoreRow(row)
    \/ \E r \in Ids : \E row \in RowChanges(r) : ChangeRow(r, row)
    \/ \E ch \in Channels :
          \/ HandlerStep(ch) \/ FetchAck(ch)
          \/ \E id \in FetchIds, mode \in Modes, online \in BOOLEAN, records \in MaxRecords :
                FetchAuth(ch, id, mode, online, records)
    \/ Restart

Spec == Init /\ [][Next]_vars

-----------------------------------------------------------------------------
(* Properties.                                                             *)

\* Type invariant: the globals, the locals of the two handlers and what the clients
\* have stay in their ranges; the entries written behind the list are those of one
\* more fetch at most.
TypeOK ==
    /\ Transactions \in [Ids -> Row \cup {NoRow}]
    /\ rows \in 0 .. MaxRows
    /\ activeFetchId \in FetchIds \cup {0}
    /\ fetchTransactionIdList \in [Entries -> Ids \cup {NoId}]
    /\ fetchedCount \in Entries \cup {0}
    /\ handler \in [Channels ->
          [pc : {"free", "select", "read", "count", "delete"}, mode : Modes \cup {"none"},
           online : BOOLEAN, max : Nat, last : Ids \cup {NoId}, got : SUBSET Ids, i : Nat]]
    /\ client \in [Channels -> [id : FetchIds \cup {0}, mode : Modes \cup {"none"},
                             seen : [Ids -> Row \cup {NoRow}]]]
    /\ acked \in SUBSET Ids /\ deleted \in SUBSET Ids /\ cleared \in SUBSET Ids
    /\ orderly \in BOOLEAN /\ cautious \in BOOLEAN
    /\ requests \in Nat /\ crashes \in Nat /\ dbFailures \in Nat

\* The ids of a fetch fit the list, if no two fetches run at the same time: the
\* count is reset by each, and a fetch reads MAX_FETCH_COUNT rows at most
\* (dboperations.c 1389 and 1397).
ListFits == orderly => fetchedCount <= MAX_FETCH_COUNT

\* What the clients are promised, see Handover: an acknowledge is under way while its
\* rows are deleted, and it confirms what its client was given.
GivenAsFinished(ch) == {r \in RowsOf(ch) : cautious /\ ~client[ch].seen[r].online}
Confirming(ch) == IF handler[ch].pc = "delete" THEN RowsOf(ch) ELSE {}

Promise == INSTANCE Handover WITH
    Record <- Ids, Client <- Channels, Contents <- Row, Nothing <- NoRow,
    considerate <- orderly, held <- Transactions,
    copy <- [ch \in Channels |-> client[ch].seen],
    final <- [ch \in Channels |-> GivenAsFinished(ch)],
    confirming <- [ch \in Channels |-> Confirming(ch)], told <- cleared

\* For orderly clients the shared list, its count and the fetch id keep this promise: a
\* row is deleted only by the acknowledge of a client that was given it, a finished sale
\* only as that client has it, and the reply "success" is true for good, whatever was
\* refused or killed in between (commandmanager.c 62 and 85, dboperations.c 1284).
ImplementsHandover == Promise!HandoverSpec

\* With orderly clients the reply "success" to an acknowledge is true: every row the
\* client was given by this fetch is gone, also when an earlier acknowledge of it
\* stopped half-way at a refused delete.
ClearedIsGone == orderly => \A r \in cleared : Transactions[r] = NoRow

\* What cautious clients are given of an offline sale, as a success or a failure, is
\* what the row says until it is deleted: who acknowledges it has its last status
\* (dboperations.c 1338 and 1226).
FinishedIsFinal ==
    cautious => \A ch \in Channels, r \in Ids :
       LET seen == client[ch].seen[r] IN
         seen # NoRow /\ ~seen.online => Transactions[r] \in {seen, NoRow}
=============================================================================
