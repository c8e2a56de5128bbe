-------------------------- MODULE TransactionNumbers --------------------------
(***************************************************************************)
(* The transaction counter, which numbers the rows of the two tables and   *)
(* the messages to the host and the kernel (the STAN).  A round takes its  *)
(* number before it waits for a card; the first data exchange of the round *)
(* moves the counter on and saves it to config/app_data.json, the          *)
(* completion of an ABT tap does so once more, and the row is stored after *)
(* that.  The file is truncated and then written, and the process may be   *)
(* killed between any two steps.                                           *)
(*                                                                         *)
(* `saved` counts the saves, so that two rows can be compared by how far   *)
(* the counter moved between them; `tears` counts the starts that found an *)
(* empty file.                                                             *)
(***************************************************************************)
EXTENDS Integers, Sequences

CONSTANTS
    MAX_TXN_COUNTER,  \* the last number before the counter starts again at 1
    AbtSettings,      \* the values appConfig.enableAbt has in the rounds
    MaxRows,          \* bound: how many rows are stored
    MaxSaves,         \* bound: how often the counter is saved
    MaxCrashes        \* bound: how often the process is killed

ASSUME NumberBounds ==
    /\ MAX_TXN_COUNTER \in Nat \ {0} /\ AbtSettings \subseteq BOOLEAN
    /\ MaxRows \in Nat /\ MaxSaves \in Nat /\ MaxCrashes \in Nat

Numbers == 0 .. MAX_TXN_COUNTER
Empty == -1

VARIABLES
    transactionCounter,  \* appData.transactionCounter
    file,                \* txnCounter in config/app_data.json, or Empty
    trx,                 \* the round: where it is, its number, isWaitingForFirstEvent
    rows,                \* the rows stored, oldest first, with their number
    saved,               \* how often the counter was saved
    tears,               \* starts of the program that found an empty file
    crashes              \* kills so far

vars == <<transactionCounter, file, trx, rows, saved, tears, crashes>>

Row == [number : Numbers, start : Nat, counted : BOOLEAN, tears : Nat]

Idle == [pc |-> "idle", number |-> 0, start |-> 0, waiting |-> FALSE, back |-> "idle"]

-----------------------------------------------------------------------------
\* Mutation: the counter never starts again.
SuccessorEndless(n) == n + 1

Successor(n) == IF n + 1 > MAX_TXN_COUNTER THEN 1 ELSE n + 1

\* populateTrxDetails: the round takes the number that comes next.
BeginRound ==
    /\ trx.pc = "idle" /\ Len(rows) < MaxRows
    /\ trx' = [Idle EXCEPT !.pc = "reading", !.number = transactionCounter,
                           !.start = saved, !.waiting = TRUE]
    /\ UNCHANGED <<transactionCounter, file, rows, saved, tears, crashes>>

\* incrementTransactionCounter, which goes on with the save.
Increment(back) ==
    /\ saved < MaxSaves
    /\ transactionCounter' = Successor(transactionCounter)
    /\ trx' = [trx EXCEPT !.pc = "truncate", !.waiting = FALSE, !.back = back]
    /\ UNCHANGED <<file, rows, saved, tears, crashes>>

\* The first data exchange of the round; later ones leave the counter alone.
FirstEvent ==
    /\ trx.pc = "reading" /\ trx.waiting
    /\ Increment("reading")

\* The outcome of a card that is none of RuPay's, with or without a data exchange.
AbtCompletion ==
    /\ trx.pc = "reading" /\ TRUE \in AbtSettings
    /\ Increment("completed")

\* The row of an online transaction or of a finished sale, or the outcome of a card
\* that raised no data exchange, without ABT.
Completion ==
    /\ trx.pc = "reading"
    /\ trx.waiting => FALSE \in AbtSettings
    /\ trx' = [trx EXCEPT !.pc = "completed"]
    /\ UNCHANGED <<transactionCounter, file, rows, saved, tears, crashes>>

\* fopen(..., "w") ...
Truncate ==
    /\ trx.pc = "truncate"
    /\ file' = Empty
    /\ trx' = [trx EXCEPT !.pc = "write"]
    /\ UNCHANGED <<transactionCounter, rows, saved, tears, crashes>>

\* Mutation: the number of the round is saved, not the next one.
SavedNumberOfRound == trx.number

SavedNumber == transactionCounter

\* ... fprintf and fclose.
Write ==
    /\ trx.pc = "write"
    /\ file' = SavedNumber
    /\ saved' = saved + 1
    /\ trx' = [trx EXCEPT !.pc = trx.back]
    /\ UNCHANGED <<transactionCounter, rows, tears, crashes>>

StoreRow ==
    /\ trx.pc = "completed"
    /\ rows' = Append(rows, [number |-> trx.number, start |-> trx.start,
                             counted |-> ~trx.waiting, tears |-> tears])
    /\ trx' = Idle
    /\ UNCHANGED <<transactionCounter, file, saved, tears, crashes>>

\* No card, or a card without an outcome.
NoOutcome ==
    /\ trx.pc = "reading"
    /\ trx' = Idle
    /\ UNCHANGED <<transactionCounter, file, rows, saved, tears, crashes>>

\* loadAppDataConfig reads 0 where there is no text.
Loaded == IF file = Empty THEN 0 ELSE file

Crash ==
    /\ crashes < MaxCrashes
    /\ crashes' = crashes + 1
    /\ transactionCounter' = Loaded
    /\ tears' = IF file = Empty THEN tears + 1 ELSE tears
    /\ trx' = Idle
    /\ UNCHANGED <<file, rows, saved>>

Init ==
    /\ file \in Numbers \ {0}
    /\ transactionCounter = file
    /\ trx = Idle /\ rows = <<>>
    /\ saved = 0 /\ tears = 0 /\ crashes = 0

Next ==
    \/ BeginRound \/ FirstEvent \/ AbtCompletion \/ Completion
    \/ Truncate \/ Write \/ StoreRow \/ NoOutcome \/ Crash

Spec == Init /\ [][Next]_vars

-----------------------------------------------------------------------------
(* Properties.                                                             *)

\* Type invariant.  The counter has at most the six digits of a STAN, which
\* populateTrxDetails cuts off (feigtransaction.c 392).
TypeOK ==
    /\ transactionCounter \in Numbers /\ file \in Numbers \cup {Empty}
    /\ trx \in [pc : {"idle", "reading", "truncate", "write", "completed"},
                number : Numbers, start : Nat, waiting : BOOLEAN,
                back : {"idle", "reading", "completed"}]
    /\ rows \in Seq(Row)
    /\ saved \in Nat /\ tears \in Nat /\ crashes \in Nat

\* Two rows of rounds that moved the counter have the same number only if the counter
\* has gone all the way round between them, or a kill tore the file: not if a kill hits
\* the program between taking, saving and storing a number (feigtransaction.c 390,
\* commonutil.c 1062, config.c 1078).
NumbersFresh ==
    \A i, j \in DOMAIN rows :
       /\ i < j /\ rows[i].counted /\ rows[j].counted
       /\ rows[i].tears = rows[j].tears /\ rows[i].number = rows[j].number
       => rows[j].start - rows[i].start >= MAX_TXN_COUNTER
=============================================================================
