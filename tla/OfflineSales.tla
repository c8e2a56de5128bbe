---------------------------- MODULE OfflineSales ----------------------------
(***************************************************************************)
(* Store-and-forward of offline purchases.  The transaction thread reports *)
(* an approved sale to the client, counts it against the offline limit and *)
(* stores it; the host thread sends the stored sales to the acquirer and   *)
(* lowers the count; the data channel lets the client fetch stored rows    *)
(* and, with an acknowledge, delete them.  The program may be killed and   *)
(* restarted at any point: only the database survives.                     *)
(*                                                                         *)
(* Sales are numbered in the order they are made, which is the RowId order *)
(* of the Transactions table.                                              *)
(***************************************************************************)
EXTENDS Integers, FiniteSets

CONSTANTS
    MaxSales,           \* bound: how many sales are made
    MaxOffline,         \* appConfig.maxOfflineTransactions
    MinRequired,        \* appConfig.minRequiredForOnline
    MaxFetch,           \* rows one fetch_auth may return
    FetchModes,         \* modes the client uses: "Success", "Failure", "Pending"
    MaxCrashes,         \* bound: how often the program is killed
    MaxDbFailures       \* bound: how often the database refuses a statement

ASSUME BoundsAssumption ==
    /\ MaxSales \in Nat \ {0} /\ MaxFetch \in Nat
    /\ MaxCrashes \in Nat /\ MaxDbFailures \in Nat

\* The shipped configuration has 2000 and 1999, the defaults are 100 and 80.
ASSUME LimitsAssumption ==
    /\ MaxOffline \in Nat /\ MinRequired \in Nat
    /\ MinRequired <= MaxOffline + 1

ASSUME ModesAssumption == FetchModes \subseteq {"Success", "Failure", "Pending"}

Sales == 1 .. MaxSales
NoSale == 0             \* an uninitialised entry of the host thread's list

Row == [txn : {"Success", "Failure"}, host : {"Pending", "Success", "NA"}]
NoRow == [txn |-> "none", host |-> "none"]

VARIABLES
    Transactions,           \* the table of trxdata-pml3.db: TxnStatus, HostStatus
    made,                   \* the number of the last sale made
    trx,                    \* transaction thread: where it is, status of its sale
    activePendingTxnCount,  \* offline sales the host has not accepted yet
    DEVICE_STATUS,          \* ONLINE, or OFFLINE: no more sales are started
    host,                   \* host thread: locals of processHostPendingTransactions
    stackRows,              \* rows earlier rounds left in the list's stack memory
    activeFetchId,          \* 1 when a fetch is open, 0 when none is
    fetchTransactionIdList, \* the rows of the open fetch
    deleting,               \* data thread: inside clearFetchedData
    posted,                 \* acquirer host: the sales it has posted
    approved,               \* sales reported to the client as approved
    handedOver,             \* rows deleted on the client's acknowledge
    crashes, dbFailures,    \* incidents so far
    drift                   \* since start: sales counted but never stored, less
                            \* acceptances that were counted but never written

saleVars == <<made, trx, approved, dbFailures>>
limitVars == <<activePendingTxnCount, DEVICE_STATUS>>
hostVars == <<host, stackRows, posted>>
fetchVars == <<activeFetchId, fetchTransactionIdList, deleting, handedOver>>
vars == <<Transactions, saleVars, limitVars, hostVars, fetchVars, crashes, drift>>

-----------------------------------------------------------------------------
(* Queries.                                                                *)

Stored == {s \in Sales : Transactions[s] # NoRow}

\* Mutations: a condition of the query is forgotten.
PendingRowsAnyHost == {s \in Sales : Transactions[s].txn = "Success"}
PendingRowsAnyTxn == {s \in Sales : Transactions[s].host \in {"Pending", "NA"}}

\* HostStatus = 'Pending' and TxnStatus = 'Success', the condition of the
\* start-up count, of the round's count and of the round's select.
PendingRows ==
    {s \in Sales : Transactions[s] = [txn |-> "Success", host |-> "Pending"]}

\* Mutation: the default query filters on TxnStatus instead of HostStatus.
MatchingTxnStatus(mode) ==
    {s \in Stored :
        Transactions[s].txn = IF mode = "Failure" THEN "Failure" ELSE "Success"}

\* The rows getFetchquery selects for offline records.
Matching(mode) ==
    {s \in Stored :
        CASE mode = "Failure" -> Transactions[s].host = "Failure" \/ Transactions[s].txn = "Failure"
          [] mode = "Pending" -> Transactions[s].host = "Pending"
          [] OTHER -> Transactions[s].host = "Success"}

\* Mutation: one row too few.
FirstButOne(S, k) ==
    {B \in SUBSET S : Cardinality(B) = IF k < Cardinality(S) THEN k ELSE Cardinality(S) - 1}

\* The first k rows of S, or all when there are fewer, in RowId order (as the only
\* element of a set).
First(S, k) ==
    {B \in SUBSET S :
        /\ Cardinality(B) = IF k < Cardinality(S) THEN k ELSE Cardinality(S)
        /\ \A b \in B, r \in S \ B : b < r}

-----------------------------------------------------------------------------
(* The transaction thread.                                                 *)

\* Mutations: a limit off by one, an ONLINE test that comes too late, a status
\* that is not looked at, a decline that is counted.
StatusAfterCountLate(count, status) ==
    IF count > MaxOffline + 1 THEN "OFFLINE" ELSE status
StatusAfterHostSuccessLate(count, status) ==
    IF count < MinRequired - 1 THEN "ONLINE" ELSE status
MayStartAlways == TRUE
IsCountedAlways(status) == status \in {"Success", "Failure"}

StatusAfterCount(count, status) ==
    IF count > MaxOffline THEN "OFFLINE" ELSE status

StatusAfterHostSuccess(count, status) ==
    IF count < MinRequired THEN "ONLINE" ELSE status

\* The loop of processTransaction reads DEVICE_STATUS before it starts.
MayStart == DEVICE_STATUS = "ONLINE"

StartReading ==
    /\ trx.pc = "idle" /\ MayStart
    /\ trx' = [trx EXCEPT !.pc = "reading"]
    /\ UNCHANGED <<Transactions, made, approved, dbFailures, limitVars, hostVars,
                   fetchVars, crashes, drift>>

\* handleTransactionCompletion of a purchase up to the message to the client.
ReportSale(status) ==
    /\ trx.pc = "reading" /\ made < MaxSales
    /\ made' = made + 1
    /\ trx' = [pc |-> "count", status |-> status]
    /\ approved' = IF status = "Success" THEN approved \cup {made + 1} ELSE approved
    /\ UNCHANGED <<Transactions, dbFailures, limitVars, hostVars, fetchVars,
                   crashes, drift>>

\* No card came, or a zero amount with ignoreZeroValueTxn: nothing is kept.
EndWithoutRecord ==
    /\ trx.pc = "reading"
    /\ trx' = [trx EXCEPT !.pc = "idle"]
    /\ UNCHANGED <<Transactions, made, approved, dbFailures, limitVars, hostVars,
                   fetchVars, crashes, drift>>

IsCounted(status) == status = "Success"

\* The section under the lock: only approved sales are counted.
CountSale ==
    /\ trx.pc = "count"
    /\ trx' = [trx EXCEPT !.pc = "store"]
    /\ IF IsCounted(trx.status)
       THEN /\ activePendingTxnCount' = activePendingTxnCount + 1
            /\ DEVICE_STATUS' = StatusAfterCount(activePendingTxnCount + 1, DEVICE_STATUS)
       ELSE UNCHANGED limitVars
    /\ UNCHANGED <<Transactions, made, approved, dbFailures, hostVars, fetchVars,
                   crashes, drift>>

\* Mutation: an early return drops the sale that took the device offline.
NewRowUnlessOffline(status) ==
    IF DEVICE_STATUS = "OFFLINE" THEN NoRow
    ELSE [txn |-> status, host |-> IF status = "Success" THEN "Pending" ELSE "NA"]

NewRow(status) ==
    [txn |-> status, host |-> IF status = "Success" THEN "Pending" ELSE "NA"]

\* createTransactionData: after the count, outside the lock.
StoreSale ==
    /\ trx.pc = "store"
    /\ Transactions' = [Transactions EXCEPT ![made] = NewRow(trx.status)]
    /\ trx' = [trx EXCEPT !.pc = "idle"]
    /\ UNCHANGED <<made, approved, dbFailures, limitVars, hostVars, fetchVars,
                   crashes, drift>>

\* The insert fails; the error is logged and nothing else happens.
StoreSaleFails ==
    /\ trx.pc = "store" /\ dbFailures < MaxDbFailures
    /\ dbFailures' = dbFailures + 1
    /\ drift' = IF trx.status = "Success" THEN drift + 1 ELSE drift
    /\ trx' = [trx EXCEPT !.pc = "idle"]
    /\ UNCHANGED <<Transactions, made, approved, limitVars, hostVars, fetchVars, crashes>>

-----------------------------------------------------------------------------
(* The host thread: one round of processHostPendingTransactions.           *)

Asleep == [pc |-> "sleep", count |-> 0, listed |-> {}, batch |-> {}, spare |-> 0,
           cur |-> NoSale, code |-> "none"]

\* getOfflinePendingTrxCount sizes the list ...
CountPending ==
    /\ host.pc = "sleep"
    /\ PendingRows # {}
    /\ host' = [host EXCEPT !.pc = "select", !.count = Cardinality(PendingRows)]
    /\ UNCHANGED <<Transactions, saleVars, limitVars, stackRows, posted, fetchVars,
                   crashes, drift>>

\* ... and the select that fills it is a statement of its own.  The round works
\* through the first `count` entries: when rows have gone in between, the last
\* ones are the uninitialised memory of the array.
SelectPending ==
    /\ host.pc = "select"
    /\ \E batch \in First(PendingRows, host.count) :
        host' = [host EXCEPT !.pc = "send", !.listed = batch, !.batch = batch,
                             !.spare = host.count - Cardinality(batch)]
    /\ UNCHANGED <<Transactions, saleVars, limitVars, stackRows, posted, fetchVars,
                   crashes, drift>>

\* The select cannot be prepared, and the round is over.  A step of it that is refused is
\* taken for a row by the loop (dboperations.c 558); that is not modelled.
SelectFails ==
    /\ host.pc = "select" /\ dbFailures < MaxDbFailures
    /\ dbFailures' = dbFailures + 1
    /\ host' = Asleep
    /\ UNCHANGED <<Transactions, made, trx, approved, limitVars, stackRows, posted,
                   fetchVars, crashes, drift>>

\* What process_offline_sale_transaction and the host behind it can do.
HostPosts(code) == code \in {"00", "lost"}
HostCodes == {"00", "lost", "refused", "unreached"}

SendOfflineSale(s, code) ==
    /\ host.pc = "send"
    /\ s \in host.batch /\ \A r \in host.batch : s <= r
    /\ host' = [host EXCEPT !.pc = "answer", !.batch = host.batch \ {s},
                            !.cur = s, !.code = code]
    /\ posted' = IF HostPosts(code) THEN posted \cup {s} ELSE posted
    /\ UNCHANGED <<Transactions, saleVars, limitVars, stackRows, fetchVars, crashes, drift>>

\* An entry the select did not fill: nothing useful, or the copy of a row an
\* earlier round left on the stack.
SendUninitialised(s, code) ==
    /\ host.pc = "send" /\ host.batch = {} /\ host.spare > 0
    /\ s \in stackRows \/ (s = NoSale /\ code \in {"refused", "unreached"})
    /\ host' = [host EXCEPT !.pc = "answer", !.spare = host.spare - 1,
                            !.cur = s, !.code = code]
    /\ posted' = IF HostPosts(code) THEN posted \cup {s} ELSE posted
    /\ UNCHANGED <<Transactions, saleVars, limitVars, stackRows, fetchVars, crashes, drift>>

\* The answer: response code 00 lowers the count under the lock; any other code
\* and any transport error leave the copy of the row pending.
ApplyHostAnswer ==
    /\ host.pc = "answer"
    /\ host' = [host EXCEPT !.pc = "update"]
    /\ IF host.code = "00"
       THEN /\ activePendingTxnCount' = activePendingTxnCount - 1
            /\ DEVICE_STATUS' =
                 StatusAfterHostSuccess(activePendingTxnCount - 1, DEVICE_STATUS)
       ELSE UNCHANGED limitVars
    /\ UNCHANGED <<Transactions, saleVars, stackRows, posted, fetchVars, crashes, drift>>

\* Mutation: the columns HostResultCode and HostStatus swapped.
HostStatusOfSwapped(code) == code

HostStatusOf(code) == IF code = "00" THEN "Success" ELSE "Pending"

\* updateHostResponse writes the copy back, WHERE TransactionId = ?.
UpdateHostResponse ==
    /\ host.pc = "update"
    /\ Transactions' = IF host.cur \in Stored
                       THEN [Transactions EXCEPT ![host.cur].host = HostStatusOf(host.code)]
                       ELSE Transactions
    /\ host' = [host EXCEPT !.pc = "send", !.cur = NoSale, !.code = "none"]
    /\ UNCHANGED <<saleVars, limitVars, stackRows, posted, fetchVars, crashes, drift>>

\* The update is refused: the acceptance was counted, but the row stays pending.
UpdateFails ==
    /\ host.pc = "update" /\ dbFailures < MaxDbFailures
    /\ dbFailures' = dbFailures + 1
    /\ drift' = IF host.code = "00" THEN drift - 1 ELSE drift
    /\ host' = [host EXCEPT !.pc = "send", !.cur = NoSale, !.code = "none"]
    /\ UNCHANGED <<Transactions, made, trx, approved, limitVars, stackRows, posted,
                   fetchVars, crashes>>

EndRound ==
    /\ host.pc = "send" /\ host.batch = {} /\ host.spare = 0
    /\ host' = Asleep
    /\ stackRows' = stackRows \cup host.listed
    /\ UNCHANGED <<Transactions, saleVars, limitVars, posted, fetchVars, crashes, drift>>

-----------------------------------------------------------------------------
(* The data channel.                                                       *)

\* A fetch that is refused by the database is open, with no rows.
FetchAuth(mode) ==
    /\ deleting = {}
    /\ activeFetchId' = 1
    /\ fetchTransactionIdList' \in First(Matching(mode), MaxFetch) \cup {{}}
    /\ UNCHANGED <<Transactions, saleVars, limitVars, hostVars, deleting, handedOver,
                   crashes, drift>>

\* fetch_ack with the id of the open fetch: clearFetchedData starts.
FetchAck ==
    /\ deleting = {} /\ activeFetchId = 1
    /\ IF fetchTransactionIdList = {}
       THEN /\ activeFetchId' = 0
            /\ UNCHANGED deleting
       ELSE /\ deleting' = fetchTransactionIdList
            /\ UNCHANGED activeFetchId
    /\ UNCHANGED <<Transactions, saleVars, limitVars, hostVars, fetchTransactionIdList,
                   handedOver, crashes, drift>>

\* One DELETE of the loop; after the last one the fetch is closed.
DeleteFetched(s) ==
    /\ s \in deleting /\ \A r \in deleting : s <= r
    /\ Transactions' = [Transactions EXCEPT ![s] = NoRow]
    /\ handedOver' = handedOver \cup {s}
    /\ deleting' = deleting \ {s}
    /\ IF deleting = {s}
       THEN activeFetchId' = 0 /\ fetchTransactionIdList' = {}
       ELSE UNCHANGED <<activeFetchId, fetchTransactionIdList>>
    /\ UNCHANGED <<saleVars, limitVars, hostVars, crashes, drift>>

\* A DELETE fails: an error is returned and the fetch stays open.
DeleteFails ==
    /\ deleting # {}
    /\ deleting' = {}
    /\ UNCHANGED <<Transactions, saleVars, limitVars, hostVars, activeFetchId,
                   fetchTransactionIdList, handedOver, crashes, drift>>

-----------------------------------------------------------------------------
(* Start-up, and a kill followed by the watchdog's restart.                *)

StatusAtStart(count) == IF count > MaxOffline THEN "OFFLINE" ELSE "ONLINE"

\* The count of the start has no condition on the processing code (dboperations.c 387): an
\* online row is success and pending at the host only if the update with the host's answer
\* was refused, and there is none here.
Restart ==
    /\ crashes < MaxCrashes
    /\ crashes' = crashes + 1
    /\ trx' = [pc |-> "idle", status |-> "Failure"]
    /\ activePendingTxnCount' = Cardinality(PendingRows)
    /\ DEVICE_STATUS' = StatusAtStart(Cardinality(PendingRows))
    /\ host' = Asleep /\ stackRows' = {}
    /\ activeFetchId' = 0 /\ fetchTransactionIdList' = {} /\ deleting' = {}
    /\ drift' = 0
    /\ UNCHANGED <<Transactions, made, approved, dbFailures, posted, handedOver>>

Init ==
    /\ Transactions = [s \in Sales |-> NoRow]
    /\ made = 0 /\ trx = [pc |-> "idle", status |-> "Failure"]
    /\ activePendingTxnCount = 0 /\ DEVICE_STATUS = "ONLINE"
    /\ host = Asleep /\ stackRows = {}
    /\ activeFetchId = 0 /\ fetchTransactionIdList = {} /\ deleting = {}
    /\ posted = {} /\ approved = {} /\ handedOver = {}
    /\ crashes = 0 /\ dbFailures = 0 /\ drift = 0

HostStep ==
    \/ CountPending \/ SelectPending \/ SelectFails
    \/ ApplyHostAnswer \/ UpdateHostResponse \/ UpdateFails \/ EndRound
    \/ \E s \in Sales, code \in HostCodes : SendOfflineSale(s, code)
    \/ \E s \in Sales \cup {NoSale}, code \in HostCodes : SendUninitialised(s, code)

SaleStep ==
    \/ StartReading \/ EndWithoutRecord \/ CountSale \/ StoreSale \/ StoreSaleFails
    \/ \E status \in {"Success", "Failure"} : ReportSale(status)

FetchStep ==
    \/ \E mode \in FetchModes : FetchAuth(mode)
    \/ FetchAck \/ DeleteFails
    \/ \E s \in Sales : DeleteFetched(s)

Next == SaleStep \/ HostStep \/ FetchStep \/ Restart

Safety == Init /\ [][Next]_vars

\* The threads run on; the host, tried again and again, accepts each sale at last.
Fairness ==
    /\ WF_vars(CountSale) /\ WF_vars(StoreSale)
    /\ WF_vars(HostStep)
    /\ \A s \in Sales : SF_vars(SendOfflineSale(s, "00"))

Spec == Safety /\ Fairness

-----------------------------------------------------------------------------
(* Properties.                                                             *)

HostLocals ==
    [pc : {"sleep", "select", "send", "answer", "update"}, count : Nat,
     listed : SUBSET Sales, batch : SUBSET Sales, spare : Int, cur : Sales \cup {NoSale},
     code : HostCodes \cup {"none"}]

\* Type invariant: every variable stays in the range the C declarations and
\* the column values written by the program give it.
TypeOK ==
    /\ Transactions \in [Sales -> Row \cup {NoRow}]
    /\ made \in 0 .. MaxSales
    /\ trx \in [pc : {"idle", "reading", "count", "store"}, status : {"Success", "Failure"}]
    /\ activePendingTxnCount \in Int
    /\ DEVICE_STATUS \in {"ONLINE", "OFFLINE"}
    /\ host \in HostLocals
    /\ stackRows \in SUBSET Sales
    /\ activeFetchId \in {0, 1}
    /\ fetchTransactionIdList \in SUBSET Sales
    /\ deleting \in SUBSET Sales
    /\ posted \in SUBSET Sales
    /\ approved \in SUBSET Sales
    /\ handedOver \in SUBSET Sales
    /\ crashes \in Nat /\ dbFailures \in Nat /\ drift \in Int

\* The sale the transaction thread has reported but not stored yet.
InFlight == IF trx.pc \in {"count", "store"} THEN {made} ELSE {}

\* The sale was counted before it is stored, and the host's acceptance lowers
\* the count before the row says so: in between, the count and the table differ
\* by exactly these two sales.
CountedEarly == IF trx.pc = "store" /\ trx.status = "Success" THEN 1 ELSE 0
LoweredEarly == IF host.pc = "update" /\ host.code = "00" THEN 1 ELSE 0

\* The count that decides whether the device goes offline equals the number of
\* pending rows, up to the two windows above and the statements that were refused:
\* neither the split between the lock and the insert (outcomeutil.c 254-268)
\* nor the one between the lock and the update (hostmanager.c 179, dboperations.c
\* 593) makes it drift, as long as the client does not acknowledge pending rows.
CountInSync ==
    activePendingTxnCount
        = Cardinality(PendingRows) + CountedEarly - LoweredEarly + drift

\* The offline limit is enforced with hysteresis: above the maximum the device is
\* offline, below the minimum it is online, whatever the order in which the two
\* threads, a restart and the client's deletes touch the count.
DeviceStatusFollowsCount ==
    /\ activePendingTxnCount > MaxOffline => DEVICE_STATUS = "OFFLINE"
    /\ activePendingTxnCount < MinRequired => DEVICE_STATUS = "ONLINE"

\* No more sales the host has not posted pile up on the device than the limit and
\* one, but for one for each statement the database refused: the status is read
\* before the card and raised after it, and the row that lowered the count early is
\* a posted one (processTransaction 106-116, handleTransactionCompletion 257).
BacklogBounded == Cardinality(PendingRows \ posted) <= MaxOffline + 1 + dbFailures

\* An approved sale that the device no longer has was posted by the host or given
\* to the client, but for one sale for each kill (the client is told before the
\* row is stored, outcomeutil.c 240 and 268) or failed insert.
Forgotten == approved \ (Stored \cup InFlight \cup posted \cup handedOver)
LossBounded == Cardinality(Forgotten) <= crashes + dbFailures

\* The host posts approved sales only: a declined row (HostStatus NA) is never
\* sent, not even from a stale copy of the list.
OnlyApprovedPosted == posted \subseteq approved

\* A sale whose acceptance is recorded is not sent again: only a row that is still
\* pending leaves for the host.
Sends(s) == host.pc = "send" /\ host'.pc = "answer" /\ host'.cur = s
AcceptedNotResent ==
    [][\A s \in Sales : Sends(s) => Transactions[s].host # "Success"]_vars

\* Every stored approved sale reaches the host, if the host accepts it at last, or
\* is in the hands of a client that acknowledged it before.
PendingIsPosted ==
    \A s \in Sales : (s \in PendingRows) ~> (s \in posted \cup handedOver)

\* What the count includes that is no row's: sales whose insert was refused and rows the
\* client deleted while they were pending, less acceptances that were not written.
Excess == activePendingTxnCount - (Cardinality(PendingRows) + CountedEarly - LoweredEarly)

\* A device that went offline comes back once the host accepts the backlog (hostmanager.c
\* 179), also after refused statements and with rows the client deleted while they were
\* pending, which nothing counts out before the next start (dboperations.c 247): it stays
\* offline only if these alone reach the minimum.
DeviceRecovers ==
    (DEVICE_STATUS = "OFFLINE") ~> (DEVICE_STATUS = "ONLINE" \/ Excess >= MinRequired)

\* The component keeps the promise of SaleLedger.
Ledger == INSTANCE SaleLedger WITH
    Sale <- Sales,
    taken <- approved,
    refused <- (1 .. made) \ approved,
    held <- Stored \cup InFlight,
    settled <- posted,
    incidents <- (MaxCrashes - crashes) + (MaxDbFailures - dbFailures)

\* Refinement: a sale reported as approved is held until the host posted it, but
\* for one sale per incident; declined sales may be handed over at any time.
ImplementsLedger == Ledger!LedgerSpec
=============================================================================
