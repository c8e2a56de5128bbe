------------------------------- MODULE AbtTap -------------------------------
(***************************************************************************)
(* Taps of cards that are not RuPay's (account based ticketing).  The      *)
(* transaction thread reports a tap to the validator, waits for gate_open  *)
(* and stores the tap; the ABT thread uploads stored taps to the back      *)
(* office in batches; the house-keeping thread deletes taps that were      *)
(* accepted long enough ago.  The program may be killed and restarted at   *)
(* any point: only the database survives.                                  *)
(*                                                                         *)
(* Taps are numbered in the order they are presented, which is the RowId   *)
(* order of the AbtTransactions table.                                     *)
(***************************************************************************)
EXTENDS Integers, FiniteSets, Sequences

CONSTANTS
    Statuses,           \* the statuses the validator may answer a tap with
    Rejections,         \* the results the back office may reject a tap with
    MaxTaps,            \* bound: how many cards are tapped
    BatchCount,         \* appConfig.abtHostPushBatchCount
    Retention,          \* appConfig.abtDataRetentionPeriodInDays
    MaxDays,            \* bound: how many days pass
    MaxCrashes,         \* bound: how often the program is killed
    MaxDbFailures       \* bound: how often the database refuses a statement

ASSUME AbtBounds ==
    /\ Statuses \subseteq BOOLEAN
    /\ Rejections \subseteq {"NOK", "KO"} /\ Rejections # {}
    /\ MaxTaps \in Nat \ {0} /\ MaxDays \in Nat
    /\ MaxCrashes \in Nat /\ MaxDbFailures \in Nat

\* Nothing checks the configuration.  With a batch of none the upload loop does not
\* end, the answers of more than 20 do not fit, and the retention is 1 by default.
ASSUME AbtConfiguration == BatchCount \in 1 .. 20 /\ Retention \in Nat

Taps == 1 .. MaxTaps
NoTap == 0
Never == -1     \* the day of what did not happen

Row == [host : {"Pending", "OK", "NOK", "KO"}, gate : BOOLEAN, days : 0 .. MaxDays]
NoRow == [host |-> "none", gate |-> FALSE, days |-> 0]

VARIABLES
    AbtTransactions,     \* the table: HostStatus, GateStatus, HostUpdateDays
    tapped,              \* number of the last tap
    trx,                 \* transaction thread: where it is, the gate status it found
    presented,           \* appData.status is ABT card presented
    isGateOpenAvailable, \* 1: a gate_open was received
    gateOpenStatus,      \* the status it carried
    handler,             \* the handler of gate_open
    toOpen,              \* validator: the tap it was told of and has not answered
    opened,              \* validator: the taps it has opened the gate for
    upload,              \* ABT thread: locals of processAbtPendingTransactions
    stackRows,           \* rows earlier rounds left in the list's stack memory
    accepted,            \* back office: the day it first took a tap
    cleaning,            \* house-keeping thread: locals of deleteAbtTransactions
    today,               \* getDaysFromJan12020()
    crashes, dbFailures  \* incidents so far

gateVars == <<isGateOpenAvailable, gateOpenStatus, handler, toOpen, opened>>
uploadVars == <<upload, stackRows>>
tapVars == <<tapped, trx, presented>>
vars == <<AbtTransactions, tapVars, gateVars, upload, stackRows, accepted, cleaning, today,
          crashes, dbFailures>>

-----------------------------------------------------------------------------
(* Queries.                                                                *)

Stored == {s \in Taps : AbtTransactions[s] # NoRow}

\* The word the program has for a rejected tap; the query below has another one.
STATUS_NOK == "KO"

\* Mutation: a count without its condition.
WithStatusAny(status) == Stored

\* HostStatus = status, the condition of the two counts.
WithStatus(status) == {s \in Stored : AbtTransactions[s].host = status}

\* Mutation: every row is uploaded, again and again.
UnsettledAll == Stored

\* HostStatus IN ('Pending', 'NOK')
Unsettled == {s \in Stored : AbtTransactions[s].host \in {"Pending", "NOK"}}

\* Mutations: a day too early, and for whatever was not updated for some days.
OkAndOldToo ==
    {s \in Stored :
        /\ AbtTransactions[s].host = "OK"
        /\ today - AbtTransactions[s].days >= Retention}
OldOnly == {s \in Stored : today - AbtTransactions[s].days > Retention}

\* HostStatus = 'OK' and (today - HostUpdateDays) > the retention period.
OkAndOld ==
    {s \in Stored :
        /\ AbtTransactions[s].host = "OK"
        /\ today - AbtTransactions[s].days > Retention}

\* The i-th row of the query for the upload, in RowId order (as the only element of a set).
RowAt(i) == {s \in Unsettled : Cardinality({r \in Unsettled : r <= s}) = i}

\* The database refuses a statement, when it is prepared or when it is stepped.
Refused == dbFailures < MaxDbFailures /\ dbFailures' = dbFailures + 1

-----------------------------------------------------------------------------
(* The transaction thread: handleAbtCompletion.                            *)

Idle == [pc |-> "idle", gate |-> FALSE]

\* The card is read; the status, then the message to the validator.
TapPresented ==
    /\ trx.pc = "idle" /\ ~presented /\ tapped < MaxTaps
    /\ tapped' = tapped + 1
    /\ trx' = [Idle EXCEPT !.pc = "wait"]
    /\ presented' = TRUE
    /\ toOpen' = tapped + 1
    /\ UNCHANGED <<AbtTransactions, isGateOpenAvailable, gateOpenStatus, handler, opened,
                   uploadVars, accepted, cleaning, today, crashes, dbFailures>>

\* checkAndGetGateOpen reads the flag under a lock and the status without one.
SeeGateOpen ==
    /\ trx.pc = "wait" /\ isGateOpenAvailable = 1
    /\ trx' = [trx EXCEPT !.pc = "read"]
    /\ UNCHANGED <<AbtTransactions, tapped, presented, gateVars, uploadVars, accepted, cleaning,
                   today, crashes, dbFailures>>

ReadGateStatus ==
    /\ trx.pc = "read"
    /\ trx' = [pc |-> "store", gate |-> gateOpenStatus]
    /\ UNCHANGED <<AbtTransactions, tapped, presented, gateVars, uploadVars, accepted, cleaning,
                   today, crashes, dbFailures>>

GateAfterTimeout == FALSE

GateTimeout ==
    /\ trx.pc = "wait" /\ isGateOpenAvailable = 0
    /\ trx' = [pc |-> "store", gate |-> GateAfterTimeout]
    /\ UNCHANGED <<AbtTransactions, tapped, presented, gateVars, uploadVars, accepted, cleaning,
                   today, crashes, dbFailures>>

\* createAbtTransactionData
StoreTap ==
    /\ trx.pc = "store"
    /\ AbtTransactions' = [AbtTransactions EXCEPT ![tapped] =
                              [host |-> "Pending", gate |-> trx.gate, days |-> 0]]
    /\ trx' = Idle
    /\ UNCHANGED <<tapped, presented, gateVars, uploadVars, accepted, cleaning, today,
                   crashes, dbFailures>>

\* The insert is refused, which is only logged.
StoreTapFails ==
    /\ trx.pc = "store" /\ Refused
    /\ trx' = Idle
    /\ UNCHANGED <<AbtTransactions, tapped, presented, gateVars, uploadVars, accepted, cleaning,
                   today, crashes>>

\* The end of a single search, or the beginning of the next round of a loop.
LeaveTap ==
    /\ trx.pc = "idle" /\ presented
    /\ presented' = FALSE
    /\ UNCHANGED <<AbtTransactions, tapped, trx, gateVars, uploadVars, accepted, cleaning, today,
                   crashes, dbFailures>>

-----------------------------------------------------------------------------
(* The validator and the handler of gate_open.                             *)

Free == [pc |-> "free", status |-> FALSE]

AnswerTap(status) ==
    /\ handler.pc = "free" /\ toOpen # NoTap
    /\ handler' = [pc |-> "check", status |-> status]
    /\ toOpen' = NoTap
    /\ opened' = IF status THEN opened \cup {toOpen} ELSE opened
    /\ UNCHANGED <<AbtTransactions, tapVars, isGateOpenAvailable, gateOpenStatus, uploadVars,
                   accepted, cleaning, today, crashes, dbFailures>>

\* The device is online while a tap is under way: only a stored sale takes it offline.
CheckPresented ==
    /\ handler.pc = "check"
    /\ handler' = IF presented THEN [handler EXCEPT !.pc = "status"] ELSE Free
    /\ UNCHANGED <<AbtTransactions, tapVars, isGateOpenAvailable, gateOpenStatus, toOpen, opened,
                   uploadVars, accepted, cleaning, today, crashes, dbFailures>>

SetGateStatus ==
    /\ handler.pc = "status"
    /\ gateOpenStatus' = handler.status
    /\ handler' = [handler EXCEPT !.pc = "flag"]
    /\ UNCHANGED <<AbtTransactions, tapVars, isGateOpenAvailable, toOpen, opened, uploadVars, accepted,
                   cleaning, today, crashes, dbFailures>>

SetGateFlag ==
    /\ handler.pc = "flag"
    /\ isGateOpenAvailable' = 1
    /\ handler' = Free
    /\ UNCHANGED <<AbtTransactions, tapVars, gateOpenStatus, toOpen, opened, uploadVars, accepted,
                   cleaning, today, crashes, dbFailures>>

-----------------------------------------------------------------------------
(* The ABT thread: one round of processAbtPendingTransactions.             *)

\* The counts are not read any more once there is a list: 0 then.
Asleep == [pc |-> "sleep", pending |-> 0, nok |-> 0, list |-> <<>>, orderly |-> TRUE,
           index |-> 0, oks |-> {}, noks |-> {}]

\* Pending rows are counted, then rejected ones.
CountPending ==
    /\ upload.pc = "sleep"
    /\ upload' = [upload EXCEPT !.pc = "nok", !.pending = Cardinality(WithStatus("Pending"))]
    /\ UNCHANGED <<AbtTransactions, tapVars, gateVars, stackRows, accepted, cleaning, today, crashes,
                   dbFailures>>

CountNok ==
    /\ upload.pc = "nok"
    /\ upload' = [upload EXCEPT !.pc = "select",
                                !.nok = Cardinality(WithStatus(STATUS_NOK))]
    /\ UNCHANGED <<AbtTransactions, tapVars, gateVars, stackRows, accepted, cleaning, today, crashes,
                   dbFailures>>

\* A count that cannot be prepared is -1, one whose step is refused is 0.
RefusedCount == {-1, 0}

CountFails ==
    /\ upload.pc \in {"sleep", "nok"} /\ Refused
    /\ \E count \in RefusedCount :
        upload' = IF upload.pc = "sleep"
                  THEN [upload EXCEPT !.pc = "nok", !.pending = count]
                  ELSE [upload EXCEPT !.pc = "select", !.nok = count]
    /\ UNCHANGED <<AbtTransactions, tapVars, gateVars, stackRows, accepted, cleaning, today, crashes>>

totalCount == upload.pending + upload.nok

\* The list has as many entries as were counted.  Its i-th entry is row[i] of the query,
\* and NoTap when row[i] is 0; where there is no such row the entry is not filled, and
\* shows nothing useful or what an earlier round left on the stack.
Lists(row) ==
    {list \in [1 .. totalCount -> Taps \cup {NoTap}] :
        \A i \in 1 .. totalCount :
            list[i] \in IF row[i] = 0 THEN {NoTap}
                        ELSE IF row[i] <= Cardinality(Unsettled) THEN RowAt(row[i])
                        ELSE stackRows \cup {NoTap}}

\* The list is orderly when no row with the program's own word for a rejected tap was
\* counted, and no step of the select was refused.
Fill(row, refused) ==
    /\ upload.pc = "select" /\ totalCount > 0
    /\ \E list \in Lists(row) :
        upload' = [Asleep EXCEPT !.pc = "send", !.list = list,
                                 !.orderly = upload.nok <= 0 /\ ~refused]

SelectUnsettled ==
    /\ Fill([i \in 1 .. totalCount |-> i], FALSE)
    /\ UNCHANGED <<AbtTransactions, tapVars, gateVars, stackRows, accepted, cleaning, today,
                   crashes, dbFailures>>

NothingToUpload ==
    /\ upload.pc = "select" /\ totalCount <= 0
    /\ upload' = Asleep
    /\ UNCHANGED <<AbtTransactions, tapVars, gateVars, stackRows, accepted, cleaning, today, crashes,
                   dbFailures>>

\* The select cannot be prepared, and the round is over.
SelectFails ==
    /\ upload.pc = "select" /\ Refused
    /\ upload' = Asleep
    /\ UNCHANGED <<AbtTransactions, tapVars, gateVars, stackRows, accepted, cleaning, today, crashes>>

\* A step is refused after some rows.  The loop takes whatever is not the end for a row,
\* here an empty one; the next step starts the query over, or is refused as well, until
\* the list is full.
StartedOver(got) ==
    [i \in 1 .. totalCount |-> IF i <= got THEN i ELSE i - got - 1]
RefusedFrom(got) == [i \in 1 .. totalCount |-> IF i <= got THEN i ELSE 0]

SelectStepFails ==
    /\ Refused
    /\ \E got \in 0 .. Cardinality(Unsettled) :
        /\ got < totalCount
        /\ Fill(StartedOver(got), TRUE) \/ Fill(RefusedFrom(got), TRUE)
    /\ UNCHANGED <<AbtTransactions, tapVars, gateVars, stackRows, accepted, cleaning, today, crashes>>

\* The next BatchCount entries of the list, and the taps in them.
BatchEnd == LET end == upload.index + BatchCount
            IN  IF end < Len(upload.list) THEN end ELSE Len(upload.list)
Entries == upload.index + 1 .. BatchEnd
Batch == {upload.list[i] : i \in Entries} \ {NoTap}
SentTwice == {s \in Batch : \E i, j \in Entries :
                i < j /\ upload.list[i] = s /\ upload.list[j] = s}

InBatch ==
    /\ upload.pc = "send" /\ upload.index < Len(upload.list)

Take(taps) ==
    accepted' = [s \in Taps |-> IF s \in taps /\ accepted[s] = Never THEN today ELSE accepted[s]]

\* A batch is posted and answered tap by tap, for some of its taps; a tap that is in it
\* twice may have two answers.
BatchAnswered ==
    /\ InBatch
    /\ \E oks, noks \in SUBSET Batch :
        /\ oks \cap noks \subseteq SentTwice
        /\ Take(oks)
        /\ upload' = [upload EXCEPT !.pc = "save", !.index = BatchEnd, !.oks = oks, !.noks = noks]
    /\ UNCHANGED <<AbtTransactions, tapVars, gateVars, stackRows, cleaning, today, crashes,
                   dbFailures>>

\* The back office is not reached, its answer is lost or an error: only the retries are
\* counted, although it may have taken some of the taps.
BatchUnanswered ==
    /\ InBatch
    /\ \E taken \in SUBSET Batch : Take(taken)
    /\ upload' = [upload EXCEPT !.index = BatchEnd]
    /\ UNCHANGED <<AbtTransactions, tapVars, gateVars, stackRows, cleaning, today, crashes,
                   dbFailures>>

\* Mutations: the columns HostStatus and HostFailReason swapped, any answer counts as
\* an acceptance.
SavedStatusSwapped(result) == IF result = "OK" THEN "" ELSE result
SavedStatusOk(result) == "OK"

SavedStatus(result) == result

\* The answer for a tap that is saved next.
Answer(s, result) ==
    /\ upload.pc = "save"
    /\ IF result = "OK"
       THEN s \in upload.oks /\ upload' = [upload EXCEPT !.oks = upload.oks \ {s}]
       ELSE s \in upload.noks /\ upload' = [upload EXCEPT !.noks = upload.noks \ {s}]

\* saveAbtResponseToDb: the row is counted and, if it is there, updated.
SaveResponse(s, result) ==
    /\ Answer(s, result)
    /\ AbtTransactions' = IF s \in Stored
                          THEN [AbtTransactions EXCEPT ![s].host = SavedStatus(result),
                                                       ![s].days = today]
                          ELSE AbtTransactions
    /\ UNCHANGED <<tapVars, gateVars, stackRows, accepted, cleaning, today, crashes, dbFailures>>

SaveFails(s, result) ==
    /\ Answer(s, result) /\ Refused
    /\ UNCHANGED <<AbtTransactions, tapVars, gateVars, stackRows, accepted, cleaning, today, crashes>>

BatchDone ==
    /\ upload.pc = "save" /\ upload.oks \cup upload.noks = {}
    /\ upload' = [upload EXCEPT !.pc = "send"]
    /\ UNCHANGED <<AbtTransactions, tapVars, gateVars, stackRows, accepted, cleaning, today, crashes,
                   dbFailures>>

Listed == {upload.list[i] : i \in 1 .. Len(upload.list)} \ {NoTap}

EndRound ==
    /\ upload.pc = "send" /\ upload.index = Len(upload.list)
    /\ upload' = Asleep
    /\ stackRows' = stackRows \cup Listed
    /\ UNCHANGED <<AbtTransactions, tapVars, gateVars, accepted, cleaning, today, crashes,
                   dbFailures>>

-----------------------------------------------------------------------------
(* The house-keeping thread: deleteAbtTransactions, once a day.            *)

Resting == [pc |-> "rest", count |-> 0, refused |-> FALSE, listed |-> {}]

\* The count sizes the list of ids.
CountOld ==
    /\ cleaning.pc = "rest"
    /\ cleaning' = [Resting EXCEPT !.pc = "select", !.count = Cardinality(OkAndOld)]
    /\ UNCHANGED <<AbtTransactions, tapVars, gateVars, uploadVars, accepted, today, crashes,
                   dbFailures>>

CountOldFails ==
    /\ cleaning.pc = "rest" /\ Refused
    /\ \E count \in RefusedCount :
        cleaning' = [Resting EXCEPT !.pc = "select", !.count = count, !.refused = TRUE]
    /\ UNCHANGED <<AbtTransactions, tapVars, gateVars, uploadVars, accepted, today, crashes>>

\* All that match now are listed.
SelectOld ==
    /\ cleaning.pc = "select"
    /\ cleaning' = [Resting EXCEPT !.pc = "delete", !.listed = OkAndOld]
    /\ UNCHANGED <<AbtTransactions, tapVars, gateVars, uploadVars, accepted, today, crashes,
                   dbFailures>>

\* The select cannot be prepared.
SelectOldFails ==
    /\ cleaning.pc = "select" /\ Refused
    /\ cleaning' = Resting
    /\ UNCHANGED <<AbtTransactions, tapVars, gateVars, uploadVars, accepted, today, crashes>>

\* A step is refused after some rows, is taken for one, and the next one starts over.  A
\* list that is too short for all of them is written past its end, which is undefined;
\* when that ends the program, or the steps are refused for ever, the next step is Restart.
SelectOldStepFails ==
    /\ cleaning.pc = "select" /\ Refused
    /\ cleaning' = [Resting EXCEPT !.pc = "delete", !.listed = OkAndOld]
    /\ UNCHANGED <<AbtTransactions, tapVars, gateVars, uploadVars, accepted, today, crashes>>

NextToDelete(s) ==
    /\ cleaning.pc = "delete"
    /\ s \in cleaning.listed /\ \A r \in cleaning.listed : s <= r
    /\ cleaning' = [cleaning EXCEPT !.listed = cleaning.listed \ {s}]

\* After each delete the finished select is finalized once more, and not the delete: what
\* that does to the program is undefined; when it kills it, the next step is Restart.
DeleteTap(s) ==
    /\ NextToDelete(s)
    /\ AbtTransactions' = [AbtTransactions EXCEPT ![s] = NoRow]
    /\ UNCHANGED <<tapVars, gateVars, uploadVars, accepted, today, crashes, dbFailures>>

DeleteFails(s) ==
    /\ NextToDelete(s) /\ Refused
    /\ UNCHANGED <<AbtTransactions, tapVars, gateVars, uploadVars, accepted, today, crashes>>

EndCleaning ==
    /\ cleaning.pc = "delete" /\ cleaning.listed = {}
    /\ cleaning' = Resting
    /\ UNCHANGED <<AbtTransactions, tapVars, gateVars, uploadVars, accepted, today, crashes,
                   dbFailures>>

-----------------------------------------------------------------------------
(* The calendar and kills.                                                 *)

\* The thread starts at abtCleanupTimeHHMM, 22:00 by default: a time that is not the
\* last minute of the day keeps the count and the select on one day.
NextDay ==
    /\ today < MaxDays /\ cleaning.pc # "select"
    /\ today' = today + 1
    /\ UNCHANGED <<AbtTransactions, tapVars, gateVars, uploadVars, accepted, cleaning, crashes,
                   dbFailures>>

Restart ==
    /\ crashes < MaxCrashes
    /\ crashes' = crashes + 1
    /\ trx' = Idle /\ presented' = FALSE
    /\ isGateOpenAvailable' = 0 /\ gateOpenStatus' = FALSE
    /\ handler' = Free /\ toOpen' = NoTap
    /\ upload' = Asleep /\ stackRows' = {} /\ cleaning' = Resting
    /\ UNCHANGED <<AbtTransactions, tapped, opened, accepted, today, dbFailures>>

Init ==
    /\ AbtTransactions = [s \in Taps |-> NoRow]
    /\ tapped = 0 /\ trx = Idle /\ presented = FALSE
    /\ isGateOpenAvailable = 0 /\ gateOpenStatus = FALSE
    /\ handler = Free /\ toOpen = NoTap /\ opened = {}
    /\ upload = Asleep /\ stackRows = {} /\ cleaning = Resting
    /\ accepted = [s \in Taps |-> Never]
    /\ today = 0 /\ crashes = 0 /\ dbFailures = 0

TapStep ==
    SeeGateOpen \/ ReadGateStatus \/ GateTimeout \/ StoreTap \/ StoreTapFails \/ LeaveTap

GateStep == CheckPresented \/ SetGateStatus \/ SetGateFlag

UploadStep ==
    \/ CountPending \/ CountNok \/ CountFails
    \/ SelectUnsettled \/ NothingToUpload \/ SelectFails \/ SelectStepFails
    \/ BatchAnswered \/ BatchUnanswered
    \/ \E s \in Taps, result \in Rejections \cup {"OK"} :
        SaveResponse(s, result) \/ SaveFails(s, result)
    \/ BatchDone \/ EndRound

CleaningStep ==
    \/ CountOld \/ CountOldFails \/ SelectOld \/ SelectOldFails \/ SelectOldStepFails
    \/ \E s \in Taps : DeleteTap(s) \/ DeleteFails(s)
    \/ EndCleaning

Next ==
    \/ TapPresented \/ TapStep
    \/ \E status \in Statuses : AnswerTap(status)
    \/ GateStep \/ UploadStep \/ CleaningStep
    \/ NextDay \/ Restart

Safety == Init /\ [][Next]_vars

\* The threads run on.
Fairness == WF_vars(TapStep) /\ WF_vars(UploadStep)

Spec == Safety /\ Fairness

-----------------------------------------------------------------------------
(* Properties.                                                             *)

TrxLocals == [pc : {"idle", "wait", "read", "store"}, gate : BOOLEAN]
HandlerLocals == [pc : {"free", "check", "status", "flag"}, status : BOOLEAN]
UploadLocals ==
    [pc : {"sleep", "nok", "select", "send", "save"}, pending : Int, nok : Int,
     list : Seq(Taps \cup {NoTap}), orderly : BOOLEAN, index : Nat,
     oks : SUBSET Taps, noks : SUBSET Taps]
CleaningLocals ==
    [pc : {"rest", "select", "delete"}, count : Int, refused : BOOLEAN, listed : SUBSET Taps]

\* Type invariant: the columns, flags and thread positions of the source.
TypeOK ==
    /\ AbtTransactions \in [Taps -> Row \cup {NoRow}]
    /\ tapped \in 0 .. MaxTaps
    /\ trx \in TrxLocals /\ presented \in BOOLEAN
    /\ isGateOpenAvailable \in {0, 1} /\ gateOpenStatus \in BOOLEAN
    /\ handler \in HandlerLocals
    /\ toOpen \in Taps \cup {NoTap} /\ opened \in SUBSET Taps
    /\ upload \in UploadLocals
    /\ stackRows \in SUBSET Taps /\ accepted \in [Taps -> {Never} \cup 0 .. MaxDays]
    /\ cleaning \in CleaningLocals
    /\ today \in 0 .. MaxDays
    /\ crashes \in 0 .. MaxCrashes /\ dbFailures \in 0 .. MaxDbFailures

\* The rows are counted by two statements and selected by a third, while taps are stored
\* and deleted.  As many entries of the list as pending rows were counted are filled with
\* rows, or with an empty one where a step was refused; what is sent as it lay on the stack
\* are the entries counted rejections add.  Those are there when the back office says "KO",
\* the program's own word, which is counted (abtdbmanager.c 512): 'NOK' is selected (516).
PendingAreListed ==
    [][\A i \in 1 .. upload.pending :
          upload.pc = "select" /\ upload'.pc = "send" /\ i <= totalCount =>
            \/ upload'.list[i] \in Unsettled
            \/ upload'.list[i] = NoTap /\ dbFailures' > dbFailures]_vars

\* The ids to delete fit the list that was sized by a count of its own, although taps
\* become OK in between: those are of today (abtdbmanager.c 155 and 175).  Nothing is
\* claimed when the database refuses the count, which is then -1 or 0, or a step of the
\* select, which is taken for one more row: the code may then write past the list.
CleanupListFits ==
    [][cleaning.pc = "select" /\ ~cleaning.refused
       /\ cleaning'.pc = "delete" /\ UNCHANGED dbFailures =>
          Cardinality(cleaning'.listed) <= cleaning.count + 1]_vars

\* "To check whether we get the gate open from validator" (abtmanager.c 48), and "Gate open
\* status not received so return false" (80): a tap the validator did not open the gate for
\* is not recorded as open.
GateIsOfThisTap == \A s \in Stored : AbtTransactions[s].gate => s \in opened

\* What the back office accepted stays accepted: no late answer and no work on a stale
\* list sets an OK row back.  It takes a list with an entry that was not filled, or with a
\* tap that is there twice: rejections counted by the word "KO", or a refused step.
OkIsFinal ==
    [][upload.orderly => \A s \in Taps : AbtTransactions[s].host = "OK" =>
          AbtTransactions'[s] \in {AbtTransactions[s], NoRow}]_vars

\* Only taps the back office took longer ago than the retention period are deleted, although
\* the deletes work on a list of ids, and whatever it answers a tap it is sent again ("Only
\* the OK Transactions will be deleted", abtmanager.c 115).
KeptForRetention ==
    [][\A s \in Stored : AbtTransactions'[s] = NoRow =>
          accepted[s] # Never /\ today - accepted[s] > Retention]_vars

\* The tap the transaction thread has reported but not stored yet.
InFlight == IF trx.pc = "idle" THEN {} ELSE {tapped}

\* The component keeps the promise of SaleLedger, with taps for sales.
Ledger == INSTANCE SaleLedger WITH
    Sale <- Taps,
    taken <- 1 .. tapped,
    refused <- {},
    held <- Stored \cup InFlight,
    settled <- {s \in Taps : accepted[s] # Never},
    incidents <- (MaxCrashes - crashes) + (MaxDbFailures - dbFailures)

\* Refinement: a tap the validator was told of is held until the back office has accepted
\* it, but for one tap per kill or refused statement.
ImplementsLedger == Ledger!LedgerSpec

\* "Process all the pending abt transactions with abt server" (abtdbmanager.c 505): every
\* pending tap is listed for the upload at last, whatever the back office answers for others.
PendingIsSent ==
    \A s \in Taps : (AbtTransactions[s].host = "Pending") ~> (s \in Listed)
=============================================================================
