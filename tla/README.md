# Verification of the PML3 payment terminal application

TLA+ models, model-checking runs and machine-checked proofs for `pml3app`, the
application of a RuPay contactless terminal.  Paths are relative to the
repository; file names without a directory are under `src/pml3app/src/`.

## 1. The system

The program is one process with eight long-lived threads, started in `main`
(`l3app.c` 291-354) and restarted by a watchdog script (`autorun.sh`).  There is one
SQLite database for transactions, a second for ABT taps, and a file of counters.

| Component | Code | State | Operations | Interacts with |
|---|---|---|---|---|
| Transaction thread | `feigtransaction.c`, `outcomeutil.c`, `rupayservice.c` | `appData.status`, `currentTxnData`, `isSecondTap`, write-card flag | one round: arm, card, amount, outcome, record | kernel callbacks, handler flags, table, limit |
| Command handlers | `commandmanager.c`, `socketmanager.c`, `serialmanager.c` | `canRunTransaction`, `searchMode`, `writeCardAmount` | search_card, stop, write_card, set_config, clear_reversal, gate_open, ... | one thread per channel; transaction thread through shared flags |
| Host thread | `hostmanager.c` 60-258, `dboperations.c` 539-600 | list of row copies, `activePendingTxnCount`, `DEVICE_STATUS` | rounds of sending pending offline sales | table, acquirer host, limit |
| Reversal thread | `hostmanager.c` 263-421 | - | send the first pending reversal | table, acquirer host; shares `performReversal` with the transaction thread |
| Online requests | `hostmanager.c` 469-1118 | online rows | insert, ask, store the answer | kernel callback, host, table |
| Data channel | `datasocketmanager.c`, `serialmanager.c`, `commandmanager.c` 53-130, `dboperations.c` 1276-1472 | `activeFetchId`, `fetchTransactionIdList`, `fetchedCount` | fetch_auth, fetch_ack | table; one handler thread per channel, all on the same globals |
| Service selection | `rupayservice.c` 225-615, 734-800, 912-1262 | `selectedService`, `isSecondTap`, `cardPresentedSent` | the callbacks before GPO and before GENERATE AC | kernel, card, client |
| Counters | `commonutil.c` 1058-1072, `config.c` 1030-1085 | `transactionCounter`, `config/app_data.json` | take, increment, save, load | transaction thread, start-up |
| ABT | `abtmanager.c`, `abtdbmanager.c` | `isGateOpenAvailable`, tap table | tap, gate_open, upload, clean-up | transaction thread, handler, back office; two threads of its own |
| Start-up | `l3app.c` | - | count, device status, keys | all |
| Configuration, messages, keys, ISO 8583, logging, simulator | see PROJECT.json | | | |

What is hard about it:

* the shared flags are guarded by three unrelated mutexes (`lock`, `lockFeigTrx`,
  `lockRupayService`) or none, so the guards protect nothing across threads;
* the client is told of a sale before it is counted, and it is counted before it
  is stored; the host's acceptance lowers the count before the row says so; only
  the table survives a kill;
* rows are worked on as copies made by a count and a select of their own, while the
  client may delete them;
* the fetch id, the list of fetched ids and its count are one for all clients;
* a selected service, the flag of the second tap and the transaction data live from callback to callback,
  while cards come and go;
* a reversal is a read, a host call and a write without a lock, run by two threads;
* a tap is stored, uploaded and cleaned up by three threads, the last two from lists
  made by a count and a select of their own;
* hosts answer late, not at all, or with a refusal, and the database may refuse any
  statement.

What makes each component correct is listed with its module below, and, at the
lines where it could go wrong, under `hazards` in PROJECT.json.

## 2. The modules

| Module | Content |
|---|---|
| `SaleLedger` | abstract specification: a sale reported as approved is held until it is settled, but for one sale per incident |
| `OfflineSales` | store-and-forward of offline sales: sale, limit, host rounds, fetch and acknowledge, kills, refused statements; implements `SaleLedger` |
| `OfflineSales_proofs` | theorems about `OfflineSales` |
| `OfflineLedger_proofs` | `OfflineSales` implements `SaleLedger`, what the host posts, what happens to a row |
| `TopUp` | abstract specification: what the host charged is on the card, or a reversal of it is on record |
| `OnlineReversal` | online transactions and their reversals; implements `TopUp` |
| `MCOnlineReversal` | the profiles of `OnlineReversal` for TLC |
| `OnlineReversal_proofs` | theorems about `OnlineReversal`, with the refinement |
| `SearchControl` | the search for a card: commands against the transaction loop |
| `SearchControl_proofs` | theorems about `SearchControl` |
| `AbtTap` | taps of other cards: gate, upload in batches, clean-up, kills, refused statements; implements `SaleLedger` too |
| `AbtTap_proofs` | theorems about `AbtTap`, with the refinement |
| `TransactionRows` | the rows as the data channel sees them, and what the other threads may do to them |
| `Handover` | abstract specification: a record leaves by the acknowledge of a client that was given it |
| `FetchChannels` | the data channel with two clients: fetch and acknowledge over shared globals; implements `Handover` |
| `FetchChannels_proofs` | theorems about `FetchChannels`, with the refinement |
| `CardService` | the RuPay service of a transaction over the presentations of a round |
| `CardService_proofs` | theorems about `CardService` |
| `TransactionNumbers` | the transaction counter, its file and the kills between its steps |
| `TransactionNumbers_proofs` | theorems about `TransactionNumbers` |

Each module has its `.cfg` files next to it (`MC<module><variant>.cfg`); the
constants are numbers and sets of strings, so that a configuration needs no module of
its own.  The exception is `MCOnlineReversal`, which defines the profiles (records) of
`OnlineReversal` that are checked.

Operators whose comment starts with "Mutation" are variants of the operator they
precede, as a plausible bug would have it.  No specification uses them; each is
listed in PROJECT.json with the property that fails when the operator is replaced
by it.

### 2.1 OfflineSales

`Transactions` is the table, one entry per sale in RowId order, with the two columns
the queries test.  `trx` is the position of the transaction thread in
`handleTransactionCompletion`: reading (the card), count (the client has been told),
store (counted under the lock, not inserted yet).  `host` holds the locals of
`processHostPendingTransactions`: the count that sizes the list, the rows the
select found, the entry being sent.  `posted`, `approved` and `handedOver` record what the
host, the client and the client's acknowledges know; no step of the program reads them.

| Code | Action |
|---|---|
| `processTransaction`, status test | `StartReading` |
| `handleTransactionCompletion` to the message | `ReportSale`, `EndWithoutRecord` |
| the locked section, then `createTransactionData` | `CountSale`, then `StoreSale` or `StoreSaleFails` |
| `getOfflinePendingTrxCount`, the select | `CountPending`, `SelectPending` or `SelectFails` |
| `processHostOfflineTxn` | `SendOfflineSale`, `SendUninitialised`, `ApplyHostAnswer` |
| `updateHostResponse` | `UpdateHostResponse` or `UpdateFails` |
| `fetch_auth`, `fetch_ack`, each DELETE | `FetchAuth`, `FetchAck`, `DeleteFetched`, `DeleteFails` |
| kill, watchdog, `main` | `Restart` |

A list entry the select did not fill is memory of the stack: nothing useful, or the
copy of a row of an earlier round (`stackRows`).  The host posts the sale when it
answers 00, and may have posted it when its answer is lost.

Left out: the ISO message and its fields, the retry counter and error category columns
(nothing reads them to decide anything here), and configuration changes.

Properties: the count and the table stay together (`CountInSync`); the limit with its
hysteresis is enforced (`DeviceStatusFollowsCount`); the backlog is bounded
(`BacklogBounded`); approved sales are not lost but for incidents (`LossBounded`); only
approved sales are posted (`OnlyApprovedPosted`); a recorded acceptance ends the sending
(`AcceptedNotResent`); pending sales are posted at last and an offline device recovers
(`PendingIsPosted`, `DeviceRecovers`); the whole implements `SaleLedger`
(`ImplementsLedger`), where held is "stored or about to be", settled is `posted`, and the
incidents left are the kills and refused statements the bounds still allow.

A client that acknowledges pending rows makes the count drift upwards, because their
delete does not lower it; `CountInSync`, `BacklogBounded`, `AcceptedNotResent` and the refinement are about clients
that fetch finished rows; the limit, the loss and what is posted hold for all (section 4).  `OnlyApprovedPosted` and
the liveness are checked with a client that fetches and deletes pending rows: `PendingIsPosted` then says that a
pending sale is posted or handed over.  `DeviceRecovers` says when an offline device comes back.  Two things stay in the
count although no row stands for them: a sale whose insert was refused (`dboperations.c` 247 only logs it) and a
pending row that was deleted.  Nothing counts them out before the next start.  `Excess` is their number, less the
acceptances whose update was refused, and the device comes back unless `Excess` alone reaches the minimum: with the
run's limits two of them keep the device offline with nothing pending, one does not.  This is
not claimed to be wrong by any text of the repository, and is listed as a hazard.

The count of the start (`Restart`) is the one query that has no condition on the processing code (`dboperations.c` 387).  It would count
an online row that is a success with the host still pending, which takes a refused update of the host's answer; there
are no online rows in this module.

### 2.2 OnlineReversal

`handler` is the search_card of each channel's thread, `searchMode`, `trxType` and `trxTypeBin` are the fields of `appData` it
writes; `trx` is the transaction thread from the request to the end of the round, with the copies it took of the two types;
`call` is the call of `performReversal` of each of the two threads (read, send, write);
`booked`, `undone` and `credited` are the outside world: what the host booked and
reversed, what the card took.

| Code | Action |
|---|---|
| `handleSearchCard` | `SearchCard`, `SetMode`, `SetType`, `SetBin`, `CheckLoop`, `CheckReversal`, `RequestRound` |
| stop, or the client goes away | `StopSearch` |
| `processTransaction`, `populateTrxDetails` | `Poll`, `CopyBin`, `CopyType`; `EndRound` |
| `createTxnDataForOnline` | `InsertRow` |
| `performHost...`, the host | `AskHost` |
| `do...ResponseInDb` | `StoreAnswer` |
| the second tap | `CardTakes`, `CardDeclines`, `SecondTapNotPresented` |
| `updateTransactionStatus`, `updateReversalStatusOnly` | `WriteTxnStatus`, `FlagReversal` |
| `verifyAndDoReversal`, `performReversal` | `VerifyAndDoReversal`, `ReadRow`, `SendReversal`, `ReversalReturns`, `WriteReversal` |
| `clearReversalManual` | `ClearSelect`, `ClearUpdate` |
| a round without a row | `EndWithoutRow` |
| kill, watchdog | `Restart` |

`handleSearchCard` clears and writes the type and the mode before, between and after its tests, without a lock: each write and each test
is a step of its own, in the order of the branch of the type, and a refused search leaves what it has written.  The
status tests that let a search_card or a stop pass are those of `SearchControl`; here every one passes in every state, which
allows more than the program does.  A *patient* client sends a search only when no search is handled or requested and no round is on; a
search sent at any other time is *hasty*, and counted (`hasty`).  A hasty search that is refused may retype a search that was accepted before it, and with it
its round: a purchase becomes a money add that no test was made for, or the round has the text of one type and the binary type of
another.  All of this is in the model.

`EndWithoutRow` models an uninitialised read: when the round ends before the host was
asked, the response code compared with 00 is stack memory; it is 00 only if some row had
that code, and the reversal that follows reads a row that is not there, i.e. nothing or a
copy left on the stack.

Properties: booked money the card did not take is flagged (`OwedIsFlagged`) and reversed at
last (`OwedIsReversed`); what the card took is never reversed (`CreditedNotReversed`); a final
status is final (`TxnStatusFinal`); for patient clients a single search starts only with nothing in doubt
(`StartsReconciled`).  The last one does not hold for hasty ones, and no text of the repository says it should; the others hold for all.

`derailed` sets apart what the code has no means to recover: a row
whose round was cut by a kill, a booking whose answer could not be read, and a booking in a round that took an online type in text
and the purchase's in binary.  Such a round asks the host and ends as a purchase, so that a card that declines leaves the booking
unflagged.

The whole implements `TopUp` (`ImplementsTopUp`): the transaction in hand is the row of the transaction thread,
charged is `booked`, loaded is `credited`, noted is a row with a reversal status, refunded is `undone`, excused is
`derailed`, and a kill is an incident.  The promise lets go of a charge only when it is loaded, noted or excused, loads
nothing that is noted, and refunds only what is noted: the order of these steps is what the program has to keep
while two threads and a clear write the row.  A service creation moves no money; it is in the theorem, and
not in the run, whose profiles use the two other types.

Left out: refused statements, and the data channel's deletes.  A row that is deleted during its reversal is a row that is not there, which
`performReversal` reads as the stack's contents; `FetchChannels` has the deletes without the reversal.

### 2.3 SearchControl

Every test and every assignment of a shared flag is a step of its own, because the two
sides hold different mutexes.  `handler` is the handler thread of each channel, `trx` the
round.  `searchOpen` and `unasked` are history: an accepted search no round has served, and
rounds begun without a request.  `trxData` says who wrote the global `currentTxnData` last.

| Code | Action |
|---|---|
| the loop of `processTransaction` | `Poll`, `PollAgain`, `BeginRound`, `NoCardFound`, `Complete`, `EndRequest`, `EndStatus` |
| an error of the preprocessing | `PreprocessFails` |
| `handleServiceData`; the wait for write_card | `CardPresented`; `SeeWriteCommand`, `TakeAmount`, `WriteTimeout` |
| a message of any channel | `Receive` |
| search_card | `CheckSearch`, `CheckSearchMore`, `SetMode`, `RequestRound` |
| stop; the socket closes | `CheckStop`, `SetStopping`, `CancelRequest`; `Disconnect` |
| write_card | `CheckWrite`, `SetAmount`, `SetFlag` |
| set_config | `CheckConfig`, `SaveConfig` |
| recalc_mac | `CheckRecalc`, `StartRecalc`, `RecalcRow`, `EndRecalc`, `RecalcFails` |

Properties: at most one round after a stop (`OneRoundAfterStop`), for every client; and for a patient
client: the amount goes to the card it was sent for (`AmountIsForThisCard`), ready means that no card may
be read (`ReadyMeansIdle`), recalc_mac stays out of the data of a round (`RoundKeepsItsData`), an accepted
search is served (`SearchServed`).

The client is chosen in the initial state (`patient`, from the constant `Patience`).  A patient one is alone
on the socket, uses single searches, sends search_card and set_config when it has seen the status ready and no
search of its own is open, and recalc_mac when no search of its own is open.  All four properties need it: a
loop has no message between two cards that would drop a late amount; set_config sets the status ready in any
state; a search that is accepted but not begun has the status ready, so that recalc_mac would be
accepted; and a search sent as the round before ends is cleared with it.  Nothing is asked of it
for stop and write_card, which it sends at any time.

`PreprocessFails` ends the transaction thread, as the `break` in `processTransaction` does, and
`RecalcFails` leaves the status at RECALC_MAC for ever, as the early return in
`performMacRecalculation` does; the system really stops there, so that the run does not check for deadlock.

Left out: reboot, key injection and the commands that only read; keys and terminal ids are there.

### 2.4 AbtTap

A tap of a card that is not RuPay's is reported to the validator, waits for gate_open, and is stored
with the gate status it found.  `upload` and `cleaning` hold the locals of
`processAbtPendingTransactions` and `deleteAbtTransactions`; `toOpen` and `opened` are the validator,
`accepted` the back office.

| Code | Action |
|---|---|
| `handleAbtCompletion`, the message | `TapPresented` |
| `checkAndGetGateOpen` | `SeeGateOpen` and `ReadGateStatus`, or `GateTimeout` |
| `createAbtTransactionData` | `StoreTap` or `StoreTapFails` |
| the next round, or the end of the search | `LeaveTap` |
| `handleClientMessage`, gate_open | `AnswerTap`, `CheckPresented`, `SetGateStatus`, `SetGateFlag` |
| `getAbtTransactionStatusCount`, twice | `CountPending`, `CountNok`, `CountFails` |
| the select, the end of the list | `SelectUnsettled`, `NothingToUpload`, `SelectFails`, `SelectStepFails`, `EndRound` |
| `sendAbtHostRequest`, `parseAbtTapResponse`, a batch | `BatchAnswered` or `BatchUnanswered` |
| `saveAbtResponseToDb` | `SaveResponse`, `SaveFails`, `BatchDone` |
| `getAbtOkFilterDateTransactionsCount` | `CountOld`, `CountOldFails` |
| `deleteAbtTransactions` | `SelectOld`, `SelectOldFails`, `SelectOldStepFails`, `DeleteTap`, `DeleteFails`, `EndCleaning` |
| the calendar; kill, watchdog | `NextDay`; `Restart` |

The program's word for a rejected tap is "KO" and the word of its query is 'NOK'; the model keeps both
(`STATUS_NOK`, `Unsettled`).  Whatever the back office sends is stored as the status, so its words are a
constant, `Rejections`; the run has both.  A row rejected with "KO" is counted and not selected: the list then has entries the select does not fill,
which are sent as they lie on the stack: nothing useful, or taps of earlier rounds (`stackRows`).

A statement may be refused when it is prepared or when it is stepped, and the two differ here.  A count is then -1 or 0
(`RefusedCount`).  A select that cannot be prepared ends the round; a refused step is taken for a row, because the loops
end at `SQLITE_DONE` only, and the next step starts the query over: the list of the upload gets an empty entry and may have taps
twice (`SelectStepFails`), or consists of empty entries from there on if the database goes on refusing.  A list with neither a counted "KO" nor
such a step behind it is `orderly`.

`accepted` is the day on which the back office took a tap first.

Left out: the retry counter and the reason (nothing decides on them), the JSON fields, abt_fetch, which
only reads, and the device status test of gate_open, which a tap under way has passed.  Assumed: a batch
of 1 to 20, because a batch of none would not end and the answers of more do not fit
(`AbtConfiguration`), and a clean-up that does not start in the last minute of a day.

Properties: every pending row that is counted has an entry in the list (`PendingAreListed`; what counted rejections add to it is not claimed to be
a row); the ids to delete fit their list
(`CleanupListFits`, when the count and the select are not refused); an open gate had an answer for this tap (`GateIsOfThisTap`,
which fails; for some tap it had, section 4); accepted is final in a round whose list is orderly (`OkIsFinal`); deleted is accepted and old,
whatever the back office answers (`KeptForRetention`); every tap
is listed at last (`PendingIsSent`, which fails); the whole implements `SaleLedger` with taps for
sales and the back office for the host (`ImplementsLedger`).

### 2.5 FetchChannels

The thread of the data socket and the thread of the serial port run the same handler over `activeFetchId`,
`fetchTransactionIdList` and `fetchedCount`.  `handler` holds the locals of a fetch or an acknowledge under way,
`client` what each client was given by its last fetch; `acked`, `deleted` and `cleared` are history.
Rows are stored and changed meanwhile: `StoreRow` and `ChangeRow` take the steps of `TransactionRows`, and `OfflineSales` and
`OnlineReversal` are proved to do nothing else to a row (section 4).  So the three modules, which are checked
apart, fit together over the table.

| Code | Action |
|---|---|
| `handleClientFetchMessage`, fetch_auth | `FetchAuth` |
| `fetchHostData` | `Select` or `SelectFails`, `ReadRow`, `CountRow`, `EndFetch` |
| fetch_ack | `FetchAck` |
| `clearFetchedData` | `DeleteRow` or `DeleteFails`, `CloseFetch` |
| the rest of the program | `StoreRow`, `ChangeRow` |
| kill, watchdog | `Restart` |

Orderly clients (`orderly`, from `Orderliness`) use fetch ids of their own and take turns, request by request; the
others overlap at every step.  For orderly ones: the ids fit the list (`ListFits`); what a client was told is deleted is
gone (`ClearedIsGone`); and the whole implements `Handover` (`ImplementsHandover`): a row leaves the table only by the
acknowledge of a client that was given it, a finished sale only with the contents that client has, and an acknowledge
that a refused statement or a kill cuts short leaves the rest where it is.  These do not hold for clients that
overlap (each resets the other's count), and no text of the repository says they should; for all clients the
count stays within two lists (`TypeOK`).

Cautious clients (`cautious`, from `Caution`) fetch no pending rows.  For them a finished offline row stays as the
client was given it (`FinishedIsFinal`).  For the others it does not: when a client deletes pending rows between the host
thread's count and its select, the list has entries that are copies of earlier rows, and a refusal for such an entry sets
an accepted row back to pending (`OfflineChanges`, with stale entries).

Online rows are fetched and deleted whatever their reversal status; what that does to a reversal under way
is not modelled, as `OnlineReversal` does not delete rows.  A number of records is at least 1.

### 2.6 CardService

A round of the kernel over the cards presented in it: the callback before GPO selects a service or keeps that of
the first tap, the one before GENERATE AC builds the reply, the online request stores the row and asks for
the card once more.  The kernel and the card are an environment (`Present`, `Restart`, `EndRound`): a card is torn,
presented again or replaced, and the final outcome may restart the round (`autoReadCard`).
`told` and `asked` are history: the transaction ids the client was told of in the round, and what the host was asked.

| Code | Action |
|---|---|
| `resetTransactionData`, the search | `BeginRound` |
| `c13_service_signal_req_pre_gpo_handling` | `TakeCreateService`, `KeepService`, `DirectoryFails`, `SelectNothing`, `SelectAborts`, `SelectService`, `Declined` |
| `c13_service_signal_req_gac_handling`, `handleServiceData` | `GenerateAc` |
| `callBackOnlineRequest` | `OnlineRequest` |
| `callBackFinalOutcome` | `Restart`, `EndRound` |

`sortCandidateList` uses qsort, which leaves the order of equal priorities open: any entry of the lowest number may
be first (`Heads`).  A service that asks for the cardholder's confirmation leads to no service at all.

Properties: `TypeOK` includes that a service is selected where the callback before GENERATE AC uses it without a
test; the service is one of the card in the field and none is before it (`ServiceOnCard`); the second tap
writes the service and ends the transaction the host was asked about (`SecondTapKeepsTransaction`); a
round is one transaction for the client (`OneTransactionPerRound`).  That the second tap is the card of the first is
the kernel's business: the program never compares the two card numbers.

### 2.7 TransactionNumbers

A round takes its number (`BeginRound`), its first data exchange moves the counter and saves it
(`FirstEvent`, `Truncate`, `Write`), an ABT completion does so once more (`AbtCompletion`), and the row is stored after
that (`StoreRow`); a kill comes between any two steps (`Crash`) and the start loads the file.

`NumbersFresh`: two rows have the same number only if the counter went all the way round between them.
It excludes two things the code does: a kill between `fopen` and `fclose` leaves an empty file, which is read as
a counter of 0 (`tears`; what the program parses then is memory it did not fill, and 0 is the result if that is
no number), and a round whose outcome comes without a data exchange leaves its number to the next round
(`counted`).  The batch counter, in the same file, is written by nothing but a start.

## 3. Runs

| Run | Bounds | Shows |
|---|---|---|
| `offline_sales` | 3 sales, limit 1, minimum 2, 1 kill, 2 refused statements, fetches of finished rows | the safety properties and the refinement |
| `offline_sales_live` | 3 sales, limit 1, minimum 2, fetches of pending rows, 1 refused statement, no kill | liveness, and what is posted when pending rows are deleted |
| `online_reversal` | 2 rows, 1 channel, four profiles: a money add with 1 clear and 1 kill; money add and balance update; money add and purchase with 1 hasty search; money add and balance inquiry in both modes with stops | safety, the refinement and liveness of reversals, what a patient client's search starts with |
| `service_create_flagged` | 1 row, service creations | finding 1 |
| `search_control` | 2 channels, all commands, both modes, 2 cards, 4 commands of impatient clients, 10 of a patient one, a kernel that may fail | stop against the loop; amounts, ready, recalc_mac, search served |
| `stopping_stuck` | loop search, 2 commands | finding 2 |
| `abt_tap` | 2 taps, batch of 1, retention 0, 2 days, both words for a rejection, a validator that answers with a closed gate or not at all, 1 kill, 1 refused statement | the safety properties and the refinement |
| `gate_of_earlier_tap` | 2 taps | finding 3 |
| `rejected_tap_blocks` | 2 taps, batch of 2, silent validator | finding 4 |
| `fetch_channels` | 2 clients, 2 rows, list of 2, 4 requests that take turns or 2 that overlap, cautious or not, 1 kill, 1 refused statement | the refinement: what is deleted was acknowledged, and what is acknowledged is deleted |
| `card_service` | 2 cards with any directories, any 2 terminal services, 3 presentations, 3 transaction types | the service, the second tap, one transaction per round |
| `transaction_numbers` | a counter of 3, 4 rows, 6 saves, 2 kills | numbers come back only after a full turn |

Why the bounds are enough to be interesting: three sales with a limit of one go past the limit
and leave one more sale to be started at the wrong time; a minimum of one below "limit + 1"
would leave a gap for the hysteresis, and a minimum of limit + 1 leaves none; the runs have the second, the theorems hold for both.
With it one sale that is counted without a row does not keep the device offline, and two do: the live run has
one from a refused insert and more from deleted pending rows.  A fetch of two rows has a
delete that may fail after another succeeded.  Two online rows are enough for a pending
reversal that blocks another, for a stale copy, and for a reversal thread and a transaction
thread in the same row.  The profiles are separate because what they add (a kill, a second type, a hasty search, a loop) does not need the
others to be there; a purchase is the type a hasty money add can retype into one that asks the host.  Four commands of two channels are enough for search, stop, search with
another stop or configuration in between; ten commands of a patient client on two cards are two searches, an
answer that is too late for the first card, one for the second, and any of the other commands around them.  One kill meets every intermediate state; a second
one starts from the state a first one leaves, which is the state of a start.  The refused
statements are two because one alone cannot show that each costs its own.  Two taps are enough for a tap
that is stored between a count and a select, and for a batch that is answered while another tap waits;
a retention of 0 with two days is the smallest one with a row that is too young and later old enough.
Four requests of two clients are two fetches and two acknowledges in every order, and a request for three records goes past a list of two.
Its modes are Success and Pending, the ones a row enters and leaves; Failure, which a row only enters, is used in `offline_sales`.
Three presentations are a first card, another or the same again, and a second tap.  A counter of three goes
round twice in six saves.

`Patience`, `Orderliness`, `Caution`, `Modes`, `FetchModes`, `Profiles`, `Rejections`, `Statuses` and `KernelMayFail` restrict the environment; a property that
needs a restriction names it, in its formula or in its comment.

A refused statement is one that cannot be prepared or is not carried out.  For an insert, an update or a delete the two come to the same.  For a select they
do not, because every loop over rows ends at `SQLITE_DONE` only and takes a refused step for a row (`dboperations.c` 558 and 1429,
`abtdbmanager.c` 175 and 529): `AbtTap` has both, `OfflineSales` and `FetchChannels` have the refused prepare only, and `OnlineReversal` has
no refused statements.

### Fairness

* `WF` on the steps of a thread: every thread is a loop that sleeps for a bounded time and
  waits for no other one except at the mutexes, whose sections are short.
* In `OnlineReversal` one `WF` per thread: on the steps of the transaction thread once a card is there, its call of
  `performReversal` included, and on the loop of the reversal thread; and `WF` on the second half of a clear_reversal.
* Starting a sale, presenting a card, sending a command, fetching: no fairness.
* `SF` on the host's acceptance (`SendOfflineSale(s, "00")`, `SendReversal("reversal", TRUE, "00")`):
  the program retries for ever, and the liveness claim is about a host that does not refuse for ever.
  A host that refuses one row for ever is outside `PendingIsPosted` for that row; strong fairness is
  per sale, so rows behind another one do not profit from it.
* `WF` on the steps of the transaction thread and of the ABT thread in `AbtTap`: two loops that sleep for a
  bounded time.  Nothing is assumed of the back office: `PendingIsSent` only claims that a tap is listed.
* `WF` on `DeviceOnline` in `SearchControl` is `DeviceRecovers` of `OfflineSales`.

### Findings

1. `outcomeutil.c` 388 flags every transaction without a second tap for reversal; for a service
   creation the code then says "no need for any reversal" (413) and leaves the flag.
2. `commandmanager.c` 546 sets the stopping state before it clears the request; a loop round that
   ends in between leaves the state for ever, while the handler answers "It is in stopping state, wait"
   (361).
3. `abtmanager.c` 65 tests a flag that `gate_open` sets and nothing resets: from the second tap on the status
   of an earlier answer is taken at once, although the loop is there "To check whether we get the gate open
   from validator" (48).
4. `abtdbmanager.c` 512 counts rejected taps by "KO" and 516 selects them by 'NOK'; an old tap rejected with
   NOK takes the place of the one that was counted, in every round, although the function is to "Process all
   the pending abt transactions" (505).

## 4. Proofs

`OfflineSales_proofs` holds, for every number of sales, every fetch size, any number of kills and
refused statements, and every pair of limits allowed by `LimitsAssumption`:

| Theorem | States | Also assumes |
|---|---|---|
| `TypeCorrect` | `Safety => []TypeOK` | |
| `LimitEnforced` | `Safety => []DeviceStatusFollowsCount` | |
| `SyncInvariant` | `Safety => []SyncInv` | `FetchesNoPending` |
| `CountNeverDrifts` | `Safety => []CountInSync` | `FetchesNoPending` |
| `AcceptedStaysAccepted` | `Safety => AcceptedNotResent` | `FetchesNoPending` |
| `BacklogStaysBounded` | `Safety => []BacklogBounded` | `FetchesNoPending` |

Constant assumptions of `OfflineSales`: `BoundsAssumption` (bounds are natural numbers, and at least one sale:
the set of sales is not empty), `LimitsAssumption`
(`MinRequired <= MaxOffline + 1`; the shipped configuration has 1999 and 2000, and without it
one and the same count would ask for both statuses) and `ModesAssumption`.  The program does not check
the second one.

*The limit.* `DeviceStatusFollowsCount` is inductive with `TypeOK`: three steps write the status, and
each compares the count it has just written.

*The count.* `CountInSync` is not inductive.  `SyncInv` adds what the code relies on without saying so:
no row exists for the sale being recorded (`RowsArePast`), the client holds ids of finished rows only
(`FetchedAreDone`), and the host thread's list holds pending rows, each once, with nothing uninitialised
(`RoundIsPending`).  The last two depend on each other: a delete must not take a row out of the list, and
an answer must not make a row pending that the client may delete.  That is why clients that fetch pending
rows are excluded.  The three statements that write the table have a lemma each on what they do to the pending rows, the cardinalities
come from the library's theorems on finite sets, and each group of actions has a lemma.

*The backlog.* `BacklogInv` adds that an answer 00 comes from a host that has posted the sale, and that
there is room for one more between the status test and the count.  While the device is online the
backlog is at most the limit, because the count covers it: the rows the count does not cover any
more are posted ones.

*An accepted sale.* `AcceptedNotResent` follows from `RoundIsPending` step by step.

`OfflineLedger_proofs` adds, under the same assumptions:

| Theorem | States | Also assumes |
|---|---|---|
| `LossStaysBounded` | `Safety => []LossBounded` | |
| `DeclinedNeverPosted` | `Safety => []OnlyApprovedPosted` | |
| `OfflineImplementsLedger` | `Safety => ImplementsLedger` | `FetchesNoPending` |
| `LossOfLedger` | `Ledger!LedgerSpec /\ LossWithin(n) => [](LossWithin(n) /\ posted \subseteq approved)` | |
| `OfflineRows` | `Safety => OfflineRowsAsAssumed` | |

*The loss.* A step can forget one sale at most, and only a kill or a refused insert does; with `RowsArePast`
that is inductive.  *What is posted.* `ApprovedInv` says that what is posted, the host thread's list and its copies on
the stack are approved sales, and that a row's status says whether it is one.  *The refinement.* By `PostedInv` an approved row is pending or posted, so that a delete
of a finished row releases a settled sale, and `IncidentsBounded` lets each kill and refused
statement be one incident of the ledger; each group of actions maps to one step of `SaleLedger` or to none.
`LossOfLedger` says what the abstract promise is worth: who keeps it loses no more sales than there were incidents.
*The rows.* `OfflineRows` says that one row at a time is made, changed or deleted, as `TransactionRows` has it.  It needs `AnswerInv`
(the row an answer goes to was approved), `ApprovedInv`, and for clients that fetch no pending rows `SyncInvariant`, by
which the list has no stale entries; for the others stale entries are allowed, and nothing else.

`AbtTap_proofs` holds, for every number of taps and days, every batch size and retention period that
`AbtConfiguration` allows, and any number of kills and refused statements:

| Theorem | States | Also assumes |
|---|---|---|
| `AbtTypeCorrect` | `Safety => []TypeOK` | |
| `OpeningWasAnswered` | `Safety => []OpenNeedsAnswer`: an open gate had an answer, for this tap or an earlier one | |
| `AbtInvariant` | `Safety => []AbtInv` | |
| `PendingRowsAreListed` | `Safety => PendingAreListed` | |
| `CleanupFits` | `Safety => CleanupListFits` | |
| `AcceptedIsFinal` | `Safety => OkIsFinal` | |
| `KeptLongEnough` | `Safety => KeptForRetention` | |
| `AbtImplementsLedger` | `Safety => ImplementsLedger` | |

They hold for every set of words the back office rejects with.  What that costs is in the properties: `OkIsFinal` is about rounds whose
list is orderly, `PendingAreListed` about the entries that pending rows account for.

*The shared table.* The threads take no lock, and a list made by one of them is stale when it is used.  What a stale list relies on is
therefore not what the rows are now but what cannot be taken back.  Pending rows are written by the upload only, and the clean-up deletes none:
those that were counted are still there for the select (`PendingIsCounted`).  A tap that was listed for the clean-up was
taken by the back office, long enough ago, and stays so whatever becomes of its row (`CleanupIsTaken`, from `OkIsTaken`: OK is written
only for what was taken, on that day or later); a row that becomes OK after the count is of today and no row is stored with that status,
hence the list fits (`CleanupIsCounted`).  An orderly list has taps whose rows are not OK, each once (`RoundIsOrderly`): an answer that is
saved is then the only one for its tap.  `RowsArePast` says that the tap under way has no row, and `ListedIsKnown` that what is or was listed for the upload is
stored or accepted, so that also an entry left on the stack settles no tap the ledger does not hold.

*The gate.* `OpenNeedsAnswer` needs `GateInv`: an open status, on its way or stored, implies that some gate
was opened, for a tap that had been presented.

*The refinement.* Each group of steps maps to a step of `SaleLedger` or to none: a presented tap is taken, a
batch settles what the back office accepts of it, a delete releases, a kill and a refused statement are
incidents.  It uses `AbtInv` where the ledger asks that what is settled is held, and that what is released
is settled.

`OnlineReversal_proofs` holds for any number of rows and channels and any profiles, i.e. any transaction types and modes, and any
number of hasty searches, clears and kills:

| Theorem | States |
|---|---|
| `ReversalTypeCorrect` | `Safety => []TypeOK` |
| `ReversalInv` | `Safety => []Inv` |
| `NoMoneyLost` | `Safety => []OwedIsFlagged` |
| `CreditedStays` | `Safety => []CreditedNotReversed` |
| `StatusStaysFinal` | `Safety => TxnStatusFinal` |
| `SearchStartsReconciled` | `Safety => StartsReconciled` |
| `OnlineImplementsTopUp` | `Safety => ImplementsTopUp` |
| `TopUpBalances` | `Promise!TopUpSpec => []Promise!Balanced` |
| `OnlineRows` | `Safety => OnlineRowsAsAssumed` |

*Two threads and a row.* `Inv` has four parts beside the types.  `RoundInv`: where the
transaction thread has a row, of which type, and that the card has taken it only where the thread thinks so.  `UntouchedInv`: a transaction the card took, or may still
take, has no reversal status, is not reversed or being cleared, and neither thread nor the stack has a copy of it.
`StatusInv` with `ReadStatusInv`: a success is on the card, and a status that was read for a reversal is pending or the
failure the row still has.  `OwedInv`: what was booked and not taken is in a round that will
flag it, flagged, or set apart.  Nothing in them is about how a search came to be accepted, so that they hold for hasty clients too.
`UntouchedInv` is the one that makes the lockless reversal safe: both threads may be at the same row, but only at one
the round has given up.

*A search and its round.* `StartsReconciled` needs `TurnInv`, which holds while no search was hasty: a search_card is handled only while
no other one is, nothing is requested and the thread is idle; from its test on, the type that is written is its own, and
nothing is pending once the test is passed (`Passed`), because without a round no row becomes pending; so that from the request to the row
of a single search of an online type nothing is pending either, and the type the round has copied is the one that was tested.

*The promise.* Most steps map to a step of `TopUp` or to none by `Inv`; `PromiseInv` adds what it lacks: the rows that a
thread, a clear or the stack has in hand are noted ones (`NotedInv`), so that only what is on record is refunded; an answer
00 that is still to be stored was booked (`ChargedInv`); and a kill is one of those allowed.  The end of a round uses
`OwedIsFlagged` of the next state: what is let go is loaded, noted or excused.  `TopUpBalances` is about the
abstract promise alone: no money is both on the card and refunded, and none is unaccounted for.

*The rows.* `OnlineRows` says that two threads and a clear, which write whole rows from copies, never undo in the columns
the data channel reads what another has done: one row at a time is made or changed, as `TransactionRows` has it.  Its invariant,
`AnsweredInv`, is that nobody but the thread that waits for the answer has to do with an unanswered row.

`SearchControl_proofs` holds for any channels, commands, modes and kinds of clients, and any number of cards and commands:

| Theorem | States |
|---|---|
| `SearchTypeCorrect` | `Safety => []TypeOK` |
| `StopHolds` | `Safety => []OneRoundAfterStop` |
| `GateIsClosed` | `Safety => []ReadyMeansIdle` |
| `RoundDataIsKept` | `Safety => []RoundKeepsItsData` |
| `AmountGoesOnItsCard` | `Safety => []AmountIsForThisCard` |

*The stop.* `RequestInv` says that an unasked round needs a request copied before the stop, and that only one can be.
*Taking turns.* `TurnInv` is what the patient client buys: a handler that is about to write the status, the mode or
the request (`Arranging`), or that recalculates, has a thread that is `Still`: it polls, with nothing requested.
So these writes and those of a round, which are made under different mutexes, never come at the same time.  *The amount.* `AmountInv`: from the moment
a search is on its way until its round has found a card (`Begun`), the flag is clear, no card waits for an answer and no
handler carries one (`Fresh`); the card found then is the last one, and so is the card of every amount after it.

`FetchChannels_proofs` holds for any number of rows, list length, requests, kills and refused statements:

| Theorem | States |
|---|---|
| `FetchTypeCorrect` | `Spec => []TypeOK` |
| `ListAlwaysFits` | `Spec => []ListFits` |
| `DeletesAreAcked` | `Spec => []DeletedWereAcked`: rows deleted were acknowledged by a client that was given them |
| `ClearedStaysGone` | `Spec => []ClearedIsGone` |
| `FinishedStaysFinal` | `Spec => []FinishedIsFinal` |
| `FetchImplementsHandover` | `Spec => ImplementsHandover` |
| `HandedOverIsGone` | `Promise!HandoverSpec => []Promise!ToldIsGone` |

*The count.* It is written by two threads without a lock; `BudgetInv` counts what the fetches under way may still add:
the last reset leaves room for at most one fetch that was begun before it.  *Taking turns.* `TurnInv`: one handler at most is
busy.  *The list.* `ListInv` ties the list and the count to what the client of the open fetch was given, and survives a
delete that stops half-way.  `DoneInv` says that deleted rows were acknowledged and that cleared ones are gone for good, which needs
that rows get new numbers.  *Finished rows.* `FinalInv`: no change is left for what a cautious client has seen as finished.

*The handover.* `DeleteRow` and `CloseFetch` map to the promise's `Remove` and `Complete`: by `ListInv` what the loop deletes is in the reply of
the client that acknowledges, by `FinalInv` with its contents, and by `DoneInv` nothing is left of it at the end.
*The environment.* What `FetchChannels` assumes of the rest of the program, `OfflineRows` and `OnlineRows` prove of the two
modules that model it; all three instantiate or extend `TransactionRows`.

`TransactionNumbers_proofs` proves `NumbersTypeCorrect` and `NumbersStayFresh` for every maximum and any number of rows, saves and
kills.  `NumbersInv` ties every number to the count of saves: by `Follows`, the counter in
memory and the one in the file are ahead of a row's number by the saves since its round began, modulo a full turn, as long as
those are fewer than a full turn; the number of a new round follows all rows before it in the same way.

`CardService_proofs` proves `ServiceTypeCorrect`, `SelectedIsOnCard`, `SecondTapCompletes` and `OneTransaction` for any
services, cards, priorities and presentations.  `KernelFresh` says that the kernel has no service id until the callback before GPO has answered for the card in the field,
`SecondTapInv` that from the online request on nothing selects or numbers again, `ToldInv` that the ids the client was told are
the current one.

### What is only model-checked

Liveness: `PendingIsPosted`, `DeviceRecovers`, `OwedIsReversed`, `SearchServed` (fairness and ENABLED are out of the prover's
reach), and the four findings, which are counterexamples.  Every invariant, action property and refinement of a passing run
is also a theorem.  What the theorems assume of the environment they need: `AcceptedNotResent` and `BacklogBounded` are
false, and not merely unproved, without `FetchesNoPending`, `OkIsFinal` is for lists that are not orderly, and `StartsReconciled` for hasty clients.  One hazard has no
property at all, limits that change while sales are pending (`config.c` 1820).  No module has a recursive operator.

## 5. Not modelled, and what is left

Left for later, in this order:

1. Online rows that the data channel deletes while they are reversed.
2. Limits that set_config changes while sales are pending.
3. `Terminal`: `OfflineSales` and `SearchControl` composed over `DEVICE_STATUS`, which each has an environment for now
   (`DeviceOnline`, `MayStart`).
4. Length fields of ISO 8583 messages against a reference definition.

Not modelled:

* *Key injection, reboot and start-up* (`l3app.c`, `feiginit.c`, `keymanager.c`).  The order of `main` decides only whether
  anything runs at all; the models start after it.
* *Cryptography, message formatting, responses, logging, the EMV configuration parser* (`dukpt_util.c`, `ISO/`,
  `responsemanager.c`, `logutil.c`, `emvconfig.c`, `tlvhelper.c`): no state that another part decides on.
* *SQLite and the HTTP parser*: vendored; a statement is atomic and may be refused.
* *The simulator*: not part of the terminal.

The share of source lines the models stand for is small as a number, because 237,000 of the repository's 267,000 lines of C are the
vendored SQLite; the models cover the shared state and the decisions of the twelve files that have any.
