--------------------------- MODULE OnlineReversal ---------------------------
(***************************************************************************)
(* Online transactions (money add, balance update, service create) and     *)
(* their reversals.  The transaction thread stores a row, asks the host,   *)
(* stores the answer and lets the card take it with a second tap; when the *)
(* card does not take what the host has booked, the row is flagged and a   *)
(* reversal is sent, by this thread at once or by the reversal thread      *)
(* later.  Both run performReversal, which reads the row, talks to the     *)
(* host and writes the row back, with no lock around the three steps.  The *)
(* client may clear a pending reversal, and the program may be killed.     *)
(*                                                                         *)
(* A round takes its transaction type from what handleSearchCard wrote     *)
(* into appData, one field after the other and without a lock, before and  *)
(* after it looked for a pending reversal.  The tests of the status that   *)
(* let a search_card or a stop pass are in SearchControl; here every one   *)
(* passes, in any state, as set_config makes the status ready in any.      *)
(*                                                                         *)
(* Not in this module: the data channel's deletes (see FetchChannels),     *)
(* recalc_mac, which writes currentTxnData (see SearchControl), statements *)
(* the database refuses, and amounts.                                      *)
(***************************************************************************)
EXTENDS Integers

CONSTANTS
    MaxOnline,      \* bound: how many rows are stored
    Channels,       \* the channels with a client
    Profiles        \* what may happen in one run of the system, see Profile

\* The types that ask the host, and the two that do not.
AllKinds == {"money_add", "balance_update", "service_create"}
AllTypes == AllKinds \cup {"purchase", "balance_inquiry"}

\* The types and modes the clients search with; the bounds: how many searches are sent
\* out of turn (see hasty), how many clear_reversal commands, how many kills.
Profile == [kinds : SUBSET AllTypes, modes : SUBSET {"single", "loop"},
            hasty : Nat, clears : Nat, crashes : Nat]

ASSUME OnlineBounds == MaxOnline \in Nat
ASSUME ProfilesAssumption == Profiles \subseteq Profile

Ids == 1 .. MaxOnline     \* TransactionIds, in RowId order
NoId == 0
Threads == {"transaction", "reversal"}

NoRow == [kind |-> "none", txn |-> "none", host |-> "none", code |-> "none",
          reversal |-> "none", cleared |-> FALSE]

VARIABLES
    Transactions,  \* the online rows of the table
    canRunTransaction,  \* a search is requested
    searchMode,    \* appData.searchMode
    trxType,       \* appData.trxType
    trxTypeBin,    \* appData.trxTypeBin: 00 and 31, or "online" for 28, 29 and 83
    handler,       \* the thread of each channel: its search_card
    trx,           \* transaction thread: where it is, currentTxnData and its row
    call,          \* each thread's call of performReversal
    clearing,      \* the row clearReversalManual has selected
    leftover,      \* rows performReversal left in the transaction thread's stack
    booked,        \* host: transactions it has booked
    undone,        \* host: transactions it has reversed
    credited,      \* card: transactions it has taken
    derailed,      \* cut by a crash, or booked although an error was returned
    hasty,         \* searches sent out of turn: a patient client sends one only when no
                   \* search_card is handled, none is requested and no round is on
    clears, crashes,
    profile        \* the one of this run

appData == <<searchMode, trxType, trxTypeBin>>
search == <<canRunTransaction, appData, handler>>
bounds == <<hasty, clears, crashes, profile>>
outside == <<booked, undone, credited, derailed>>
vars == <<Transactions, search, trx, call, clearing, leftover, outside, bounds>>

-----------------------------------------------------------------------------
(* The table.                                                              *)

Stored == {t \in Ids : Transactions[t] # NoRow}
PendingReversals == {t \in Ids : Transactions[t].reversal = "Pending"}

\* Mutation: the scan does not test the status of the reversal.
FirstStored(t) == t \in Stored /\ \A r \in Stored : t <= r

\* isTherePendingReversal returns the first row the scan meets.
FirstPending(t) ==
    t \in PendingReversals /\ \A r \in PendingReversals : t <= r

\* UPDATE ... WHERE TransactionId = ?, without effect if there is no such row.
Updated(t, row) == IF t \in Stored THEN [Transactions EXCEPT ![t] = row] ELSE Transactions

-----------------------------------------------------------------------------
(* handleSearchCard, one thread per channel, one write at a time.          *)

Free == [pc |-> "free", kind |-> "none", mode |-> "none"]
Goes(ch, pc) == handler' = [handler EXCEPT ![ch] = IF pc = "free" THEN Free
                                                   ELSE [handler[ch] EXCEPT !.pc = pc]]

InTurn == trx.pc = "idle" /\ ~canRunTransaction /\ \A ch \in Channels : handler[ch] = Free

\* A search_card is let in, which clears the type.
SearchCard(ch, kind, mode) ==
    /\ handler[ch].pc = "free"
    /\ InTurn \/ hasty < profile.hasty
    /\ hasty' = IF InTurn THEN hasty ELSE hasty + 1
    /\ handler' = [handler EXCEPT ![ch] = [pc |-> "mode", kind |-> kind, mode |-> mode]]
    /\ trxType' = "none"
    /\ UNCHANGED <<Transactions, canRunTransaction, searchMode, trxTypeBin, trx, call, clearing,
                   leftover, outside, clears, crashes, profile>>

SetMode(ch) ==
    /\ handler[ch].pc = "mode"
    /\ searchMode' = handler[ch].mode
    /\ Goes(ch, IF handler[ch].kind = "balance_inquiry" THEN "inquiry" ELSE "type")
    /\ UNCHANGED <<Transactions, canRunTransaction, trxType, trxTypeBin, trx, call, clearing,
                   leftover, outside, bounds>>

SetType(ch) ==
    /\ handler[ch].pc = "type"
    /\ trxType' = handler[ch].kind
    /\ Goes(ch, CASE handler[ch].kind = "balance_inquiry" -> "run"
                  [] handler[ch].kind = "service_create" -> "check"
                  [] OTHER -> "bin")
    /\ UNCHANGED <<Transactions, canRunTransaction, searchMode, trxTypeBin, trx, call, clearing,
                   leftover, outside, bounds>>

BinOf(kind) ==
    CASE kind = "purchase" -> "00" [] kind = "balance_inquiry" -> "31" [] OTHER -> "online"

\* The binary type is written before the search is refused, except for a service
\* creation, and for a balance inquiry even before the text.
SetBin(ch) ==
    /\ handler[ch].pc \in {"inquiry", "bin"}
    /\ trxTypeBin' = BinOf(handler[ch].kind)
    /\ Goes(ch, IF handler[ch].pc = "inquiry" THEN "loop"
                ELSE IF handler[ch].kind \in {"purchase", "service_create"} THEN "run" ELSE "check")
    /\ UNCHANGED <<Transactions, canRunTransaction, searchMode, trxType, trx, call, clearing,
                   leftover, outside, bounds>>

\* A balance inquiry in a loop is refused.
CheckLoop(ch) ==
    /\ handler[ch].pc = "loop"
    /\ Goes(ch, IF searchMode = "loop" THEN "free" ELSE "type")
    /\ UNCHANGED <<Transactions, canRunTransaction, appData, trx, call, clearing, leftover, outside,
                   bounds>>

\* Mutation: the search does not look for a pending reversal.
SearchAllowedAlways == TRUE

SearchAllowed == PendingReversals = {}

\* The three online types are refused while a reversal is pending, and a money add
\* without an amount after that.
CheckReversal(ch) ==
    /\ handler[ch].pc = "check"
    /\ \/ /\ SearchAllowed
          /\ Goes(ch, IF handler[ch].kind = "service_create" THEN "bin" ELSE "run")
       \/ /\ ~SearchAllowed \/ handler[ch].kind = "money_add"
          /\ Goes(ch, "free")
    /\ UNCHANGED <<Transactions, canRunTransaction, appData, trx, call, clearing, leftover, outside,
                   bounds>>

RequestRound(ch) ==
    /\ handler[ch].pc = "run"
    /\ canRunTransaction' = TRUE
    /\ Goes(ch, "free")
    /\ UNCHANGED <<Transactions, appData, trx, call, clearing, leftover, outside, bounds>>

\* stop, or the client goes away, while the card is awaited.
StopSearch ==
    /\ canRunTransaction /\ trx.pc = "armed"
    /\ canRunTransaction' = FALSE
    /\ UNCHANGED <<Transactions, appData, handler, trx, call, clearing, leftover, outside, bounds>>

-----------------------------------------------------------------------------
(* The transaction thread: from the request to the stored answer.          *)

Idle == [pc |-> "idle", kind |-> "none", bin |-> "none", id |-> NoId, answer |-> "none",
         next |-> "none"]
NoCall == [pc |-> "none", id |-> NoId, copy |-> NoId, txn |-> "none"]
Called(t) == [NoCall EXCEPT !.pc = "read", !.id = t]

Poll ==
    /\ trx.pc = "idle" /\ canRunTransaction
    /\ trx' = [Idle EXCEPT !.pc = "begin"]
    /\ UNCHANGED <<Transactions, search, call, clearing, leftover, outside, bounds>>

\* populateTrxDetails copies the binary type, then the text.
CopyBin ==
    /\ trx.pc = "begin"
    /\ trx' = [trx EXCEPT !.pc = "copy", !.bin = trxTypeBin]
    /\ UNCHANGED <<Transactions, search, call, clearing, leftover, outside, bounds>>

CopyType ==
    /\ trx.pc = "copy"
    /\ trx' = [trx EXCEPT !.pc = "armed", !.kind = trxType]
    /\ UNCHANGED <<Transactions, search, call, clearing, leftover, outside, bounds>>

Over == [Idle EXCEPT !.pc = "end"]

\* A single search is over, a loop goes on unless it was stopped.
EndRound ==
    /\ trx.pc = "end"
    /\ trx' = Idle
    /\ canRunTransaction' = IF searchMode = "single" THEN FALSE ELSE canRunTransaction
    /\ UNCHANGED <<Transactions, appData, handler, call, clearing, leftover, outside, bounds>>

\* The round ends before the host is asked (no card, declined by the card, or a type
\* without a host).  There is no row, so the response code that is compared with 00,
\* unless the binary type is the purchase's, is memory handleTransactionCompletion
\* has not initialised: it may show an earlier 00.
EndWithoutRow(code) ==
    /\ trx.pc = "armed"
    /\ code = "00" => trx.bin # "00" /\ \E t \in Ids : Transactions[t].code = "00"
    /\ trx' = IF code = "00" THEN [trx EXCEPT !.pc = "flag", !.id = NoId] ELSE Over
    /\ UNCHANGED <<Transactions, search, call, clearing, leftover, outside, bounds>>

\* createTxnDataForOnline, called by the online request of the kernel.
InsertRow(t) ==
    /\ trx.pc = "armed" /\ trx.kind \in AllKinds
    /\ t \in Ids \ Stored /\ \A r \in Ids \ Stored : t <= r
    /\ Transactions' = [Transactions EXCEPT ![t] =
          [kind |-> trx.kind, txn |-> "Pending", host |-> "Pending", code |-> "none",
           reversal |-> "none", cleared |-> FALSE]]
    /\ trx' = [trx EXCEPT !.pc = "send", !.id = t]
    /\ UNCHANGED <<search, call, clearing, leftover, outside, bounds>>

\* The host: 00 and a refusal are answers; "lost" is an error or a timeout while
\* receiving; "error" is any other (no connection, sending failed, no valid answer).
Answers == {"00", "05", "lost", "error"}
MayBook(answer) == CASE answer = "00" -> {TRUE} [] answer = "05" -> {FALSE} [] OTHER -> BOOLEAN

\* Nobody answers for a booking the host reports as an error, or in a round whose
\* two types come from two searches, so that it ends as a purchase.
AskHost(answer, books) ==
    /\ trx.pc = "send" /\ books \in MayBook(answer)
    /\ trx' = [trx EXCEPT !.pc = "respond", !.answer = answer]
    /\ booked' = IF books THEN booked \cup {trx.id} ELSE booked
    /\ derailed' = IF books /\ (answer = "error" \/ trx.bin = "00") THEN derailed \cup {trx.id} ELSE derailed
    /\ UNCHANGED <<Transactions, search, call, clearing, leftover, undone, credited, bounds>>

\* Mutation: a lost answer is treated like any other error.
NeedsReversalNever(kind, answer) == kind \in AllKinds /\ answer = "nothing"

\* A lost answer may have been a booking, unless it was for a service creation.
NeedsReversal(kind, answer) == answer = "lost" /\ kind # "service_create"

Answered(row, answer) ==
    [row EXCEPT !.code = IF answer \in {"00", "05"} THEN answer ELSE "none",
                !.host = IF answer = "00" THEN "Success" ELSE "Failure",
                !.reversal = IF answer \in {"00", "05"} THEN row.reversal
                             ELSE IF NeedsReversal(row.kind, answer) THEN "Pending"
                             ELSE "none"]

\* do...HostResponseInDb: only the money add sends the reversal at once.
StoreAnswer ==
    /\ trx.pc = "respond"
    /\ Transactions' = Updated(trx.id, Answered(Transactions[trx.id], trx.answer))
    /\ IF trx.kind = "money_add" /\ NeedsReversal(trx.kind, trx.answer)
       THEN /\ call' = [call EXCEPT !["transaction"] = Called(trx.id)]
            /\ trx' = [trx EXCEPT !.pc = "reverse", !.next = "tap"]
       ELSE /\ trx' = [trx EXCEPT !.pc = "tap"]
            /\ UNCHANGED call
    /\ UNCHANGED <<search, clearing, leftover, outside, bounds>>

-----------------------------------------------------------------------------
(* The transaction thread: what the card made of the answer.               *)

\* The card takes the answer in the second tap, which needs the host's 00.
CardTakes ==
    /\ trx.pc = "tap" /\ trx.answer = "00"
    /\ credited' = credited \cup {trx.id}
    /\ trx' = [trx EXCEPT !.pc = "approved"]
    /\ UNCHANGED <<Transactions, search, call, clearing, leftover, booked, undone, derailed, bounds>>

CardDeclines ==
    /\ trx.pc = "tap"
    /\ trx' = [trx EXCEPT !.pc = "declined"]
    /\ UNCHANGED <<Transactions, search, call, clearing, leftover, outside, bounds>>

\* No second tap: the row is flagged before the host's answer is looked at.
SecondTapNotPresented ==
    /\ trx.pc = "tap"
    /\ Transactions' = Updated(trx.id, [Transactions[trx.id] EXCEPT !.reversal = "Pending"])
    /\ trx' = [trx EXCEPT !.pc = "absent"]
    /\ UNCHANGED <<search, call, clearing, leftover, outside, bounds>>

\* Mutations: the test of the transaction's status is missing; only the missing
\* second tap is looked at.
ReversesAny(result, row, bin) == row.code = "00"
ReversesAbsent(result, row, bin) == row.code = "00" /\ result = "absent"

\* The host is success but the card is not.  A purchase has no host's code; in
\* handleSecondTapNotPresented a service creation is exempt.
Reverses(result, row, bin) ==
    /\ row.code = "00"
    /\ \/ result = "declined" /\ bin # "00"
       \/ result = "absent" /\ row.kind # "service_create"

\* updateTransactionStatus, which a round with a card makes for the online types only.
WriteTxnStatus ==
    /\ trx.pc \in {"approved", "declined", "absent"}
    /\ Transactions' =
         IF trx.pc # "absent" /\ trx.bin # "online" THEN Transactions
         ELSE Updated(trx.id, [Transactions[trx.id] EXCEPT
                                 !.txn = IF trx.pc = "approved" THEN "Success" ELSE "Failure"])
    /\ trx' = IF Reverses(trx.pc, Transactions[trx.id], trx.bin)
              THEN [trx EXCEPT !.pc = "flag"] ELSE Over
    /\ UNCHANGED <<search, call, clearing, leftover, outside, bounds>>

\* updateReversalStatusOnly, then the call of performReversal.
FlagReversal ==
    /\ trx.pc = "flag"
    /\ Transactions' = IF trx.id = NoId THEN Transactions
                       ELSE Updated(trx.id, [Transactions[trx.id] EXCEPT !.reversal = "Pending"])
    /\ call' = [call EXCEPT !["transaction"] = Called(trx.id)]
    /\ trx' = [trx EXCEPT !.pc = "reverse", !.next = "over"]
    /\ UNCHANGED <<search, clearing, leftover, outside, bounds>>

ReversalReturns ==
    /\ trx.pc = "reverse" /\ call["transaction"].pc = "none"
    /\ trx' = IF trx.next = "over" THEN Over ELSE [trx EXCEPT !.pc = trx.next]
    /\ UNCHANGED <<Transactions, search, call, clearing, leftover, outside, bounds>>

-----------------------------------------------------------------------------
(* performReversal, run by both threads, and the reversal thread's loop.   *)

VerifyAndDoReversal(t) ==
    /\ call["reversal"].pc = "none" /\ FirstPending(t)
    /\ call' = [call EXCEPT !["reversal"] = Called(t)]
    /\ UNCHANGED <<Transactions, search, trx, clearing, leftover, outside, bounds>>

\* The row is read into a local copy.  Without a row the copy is uninitialised:
\* nothing the host knows, or a row an earlier call left there.
ReadRow(thread, copy) ==
    /\ call[thread].pc = "read"
    /\ IF call[thread].id # NoId THEN copy = call[thread].id ELSE copy \in leftover \cup {NoId}
    /\ call' = [call EXCEPT ![thread].pc = "send", ![thread].copy = copy,
                            ![thread].txn = IF copy = NoId THEN "none"
                                            ELSE Transactions[copy].txn]
    /\ leftover' = IF thread = "transaction" /\ copy # NoId THEN leftover \cup {copy} ELSE leftover
    /\ UNCHANGED <<Transactions, search, trx, clearing, outside, bounds>>

\* The host reverses, or does not; its 00 may be lost on the way.
SendReversal(thread, executed, answer) ==
    /\ call[thread].pc = "send"
    /\ answer = "00" => executed
    /\ call' = [call EXCEPT ![thread] =
                   IF answer = "00" THEN [call[thread] EXCEPT !.pc = "write"] ELSE NoCall]
    /\ undone' = IF executed /\ call[thread].copy # NoId
                 THEN undone \cup {call[thread].copy} ELSE undone
    /\ UNCHANGED <<Transactions, search, trx, clearing, leftover, booked, credited, derailed, bounds>>

\* Mutations: the status is written back as it was read; a status of its own.
StatusReversedAsRead(txn) == txn
StatusReversedOwn(txn) == IF txn = "Pending" THEN "Reversed" ELSE txn

StatusReversed(txn) == IF txn = "Pending" THEN "Failure" ELSE txn

\* The host's 00 goes to the row, with the status read before the host was asked.
WriteReversal(thread) ==
    /\ call[thread].pc = "write"
    /\ Transactions' =
         IF call[thread].id = NoId THEN Transactions
         ELSE Updated(call[thread].id, [Transactions[call[thread].id] EXCEPT
                 !.reversal = "Success", !.host = "Success",
                 !.txn = StatusReversed(call[thread].txn)])
    /\ call' = [call EXCEPT ![thread] = NoCall]
    /\ UNCHANGED <<search, trx, clearing, leftover, outside, bounds>>

-----------------------------------------------------------------------------
(* The client's clear_reversal, and a kill with the watchdog's restart.    *)

ClearSelect(t) ==
    /\ clearing = NoId /\ clears < profile.clears
    /\ FirstPending(t)
    /\ clearing' = t /\ clears' = clears + 1
    /\ UNCHANGED <<Transactions, search, trx, call, leftover, outside, hasty, crashes, profile>>

ClearUpdate ==
    /\ clearing # NoId
    /\ Transactions' = Updated(clearing, [Transactions[clearing] EXCEPT
                          !.reversal = "Failure", !.cleared = TRUE])
    /\ clearing' = NoId
    /\ UNCHANGED <<search, trx, call, leftover, outside, bounds>>

Restart ==
    /\ crashes < profile.crashes
    /\ crashes' = crashes + 1
    /\ derailed' = IF trx.id = NoId THEN derailed ELSE derailed \cup {trx.id}
    /\ canRunTransaction' = FALSE /\ searchMode' = "single"
    /\ trxType' = "none" /\ trxTypeBin' = "00"
    /\ handler' = [ch \in Channels |-> Free]
    /\ trx' = Idle
    /\ call' = [thread \in Threads |-> NoCall]
    /\ clearing' = NoId /\ leftover' = {}
    /\ UNCHANGED <<Transactions, booked, undone, credited, hasty, clears, profile>>

Init ==
    /\ Transactions = [t \in Ids |-> NoRow]
    /\ canRunTransaction = FALSE /\ searchMode = "single"
    /\ trxType = "none" /\ trxTypeBin = "00"
    /\ handler = [ch \in Channels |-> Free]
    /\ trx = Idle
    /\ call = [thread \in Threads |-> NoCall]
    /\ clearing = NoId /\ leftover = {}
    /\ booked = {} /\ undone = {} /\ credited = {} /\ derailed = {}
    /\ hasty = 0 /\ clears = 0 /\ crashes = 0 /\ profile \in Profiles

SearchStep(ch) ==
    \/ \E kind \in profile.kinds, mode \in profile.modes : SearchCard(ch, kind, mode)
    \/ SetMode(ch) \/ SetType(ch) \/ SetBin(ch) \/ CheckLoop(ch) \/ CheckReversal(ch)
    \/ RequestRound(ch)

\* The steps the transaction thread takes once a card is there.
RoundStep ==
    \/ \E answer \in Answers, books \in BOOLEAN : AskHost(answer, books)
    \/ StoreAnswer \/ CardTakes \/ CardDeclines \/ SecondTapNotPresented
    \/ WriteTxnStatus \/ FlagReversal \/ ReversalReturns

CallStep(thread) ==
    \/ \E copy \in Ids \cup {NoId} : ReadRow(thread, copy)
    \/ \E executed \in BOOLEAN, answer \in {"00", "other"} :
          SendReversal(thread, executed, answer)
    \/ WriteReversal(thread)

Next ==
    \/ \E ch \in Channels : SearchStep(ch)
    \/ StopSearch \/ Poll \/ CopyBin \/ CopyType \/ EndRound
    \/ \E code \in {"none", "00"} : EndWithoutRow(code)
    \/ \E t \in Ids : InsertRow(t) \/ VerifyAndDoReversal(t) \/ ClearSelect(t)
    \/ RoundStep
    \/ \E thread \in Threads : CallStep(thread)
    \/ ClearUpdate \/ Restart

Safety == Init /\ [][Next]_vars

\* The threads run on, a command runs to its end, and the host, asked again and
\* again, reverses at last.
Fairness ==
    /\ WF_vars(RoundStep \/ CallStep("transaction"))
    /\ WF_vars(CallStep("reversal") \/ \E t \in Ids : VerifyAndDoReversal(t))
    /\ WF_vars(ClearUpdate)
    /\ SF_vars(SendReversal("reversal", TRUE, "00"))

Spec == Safety /\ Fairness

-----------------------------------------------------------------------------
(* Properties.                                                             *)

Row == [kind : AllKinds, txn : {"Pending", "Success", "Failure"},
        host : {"Pending", "Success", "Failure"}, code : {"none", "00", "05"},
        reversal : {"none", "Pending", "Success", "Failure"}, cleared : BOOLEAN]

TrxLocals == [pc : {"idle", "begin", "copy", "armed", "send", "respond", "tap", "approved",
                    "declined", "absent", "flag", "reverse", "end"},
              kind : AllTypes \cup {"none"}, bin : {"00", "31", "online", "none"},
              id : Ids \cup {NoId}, answer : Answers \cup {"none"},
              next : {"none", "tap", "over"}]
HandlerLocals == [pc : {"mode", "inquiry", "loop", "type", "bin", "check", "run"},
                  kind : AllTypes, mode : {"single", "loop"}] \cup {Free}
CallLocals == [pc : {"none", "read", "send", "write"}, id : Ids \cup {NoId},
               copy : Ids \cup {NoId}, txn : {"none", "Pending", "Success", "Failure"}]

\* Type invariant: columns, thread positions and the outside world's sets stay in
\* the ranges the program writes.
TypeOK ==
    /\ Transactions \in [Ids -> Row \cup {NoRow}]
    /\ canRunTransaction \in BOOLEAN /\ searchMode \in {"single", "loop"}
    /\ trxType \in AllTypes \cup {"none"} /\ trxTypeBin \in {"00", "31", "online"}
    /\ handler \in [Channels -> HandlerLocals]
    /\ trx \in TrxLocals /\ call \in [Threads -> CallLocals]
    /\ clearing \in Ids \cup {NoId}
    /\ leftover \in SUBSET Ids
    /\ booked \in SUBSET Ids /\ undone \in SUBSET Ids
    /\ credited \in SUBSET Ids /\ derailed \in SUBSET Ids
    /\ hasty \in Nat /\ clears \in Nat /\ crashes \in Nat /\ profile \in Profiles

\* Booked by the host, not taken by the card: the cardholder's account is off.
\* A service creation moves no money.
Owed == {t \in booked \ (credited \cup derailed) : Transactions[t].kind # "service_create"}

\* No money is lost track of: once the transaction thread has left it, a booked
\* transaction that the card did not take carries a reversal (pending, done, or
\* cleared by the client), whether the answer came, was lost, was refused by the
\* card or met no second tap (hostmanager.c 1100, outcomeutil.c 230, 388).
OwedIsFlagged == \A t \in Owed : trx.id # t => Transactions[t].reversal # "none"

\* No transaction the card has taken is ever reversed at the host: neither the
\* stale copies of the two threads nor a flag set for another reason make
\* performReversal send it (outcomeutil.c 230, hostmanager.c 334).
CreditedNotReversed == undone \cap credited = {}

\* Final means final: a TxnStatus that is no longer Pending never changes,
\* although performReversal writes back the one it read before it asked the host
\* and the transaction thread may have written its own meanwhile (hostmanager.c 409).
TxnStatusFinal ==
    [][\A t \in Ids : Transactions[t].txn \in {"Success", "Failure"}
                        => Transactions'[t].txn = Transactions[t].txn]_vars

\* For clients that wait for their turn no online transaction of a single search is
\* started while the money of an earlier one is in doubt: the test is made before the
\* search is requested and the card is there, and stays true until the row is stored
\* (commandmanager.c 637, 694, 708).  A client that sends a search while another one is
\* handled, accepted or served is not covered: the types are written before the test and
\* without a lock, so that a search that is refused may retype the accepted one.
StartsReconciled ==
    [][(hasty = 0 /\ searchMode = "single" /\ trx.pc = "armed" /\ trx'.pc = "send")
          => PendingReversals = {}]_vars

\* What the cardholder is promised, see TopUp: a transaction is in hand while the thread
\* has its row, noted once its row has a reversal status, and a kill is an incident.
MovesMoney == {t \in Stored : Transactions[t].kind # "service_create"}
InHand == {trx.id} \ {NoId}
Noted == {t \in Ids : Transactions[t].reversal # "none"}

Promise == INSTANCE TopUp WITH
    Txn <- Ids, begun <- Stored, money <- MovesMoney, current <- InHand,
    charged <- booked, loaded <- credited, noted <- Noted, refunded <- undone,
    excused <- derailed, incidents <- profile.crashes - crashes

\* Whatever the two threads, a clear and a kill do between each other's steps, the
\* program keeps this promise: it records a reversal before it lets go of a charge, a
\* reversal on record stays on record, only what is on record is reversed, and what is
\* on record or reversed is never put on the card (hostmanager.c 334 and 1100,
\* outcomeutil.c 230 and 388).
ImplementsTopUp == Promise!TopUpSpec

\* What is owed is paid back: the host reverses it in the end, unless the client
\* clears the reversal, which lets the first pending row no longer block the rest.
OwedIsReversed ==
    \A t \in Ids : (t \in Owed) ~> (t \in undone \cup credited \cup derailed
                                       \/ Transactions[t].cleared)

\* What the code's own message says of a service creation the host booked and the
\* card did not come back for: "no need for any reversal" (outcomeutil.c 413).  When
\* handleSecondTapNotPresented is done with its row, no reversal is pending.
ServiceCreateLeftAlone ==
    [][(trx.pc = "absent" /\ trx.answer = "00" /\ trx.kind = "service_create" /\ trx'.pc = "end")
          => Transactions'[trx.id].reversal # "Pending"]_vars
=============================================================================
