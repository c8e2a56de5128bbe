---------------------------- MODULE AbtTap_proofs ----------------------------
(***************************************************************************)
(* Theorems about AbtTap, for every number of taps, every batch size and   *)
(* retention period, and any number of days, kills and refused statements. *)
(***************************************************************************)
EXTENDS AbtTap, FiniteSetTheorems, TLAPS

-----------------------------------------------------------------------------
(* Facts about the queries.                                                *)

\* The table is finite, and so is every set of its rows.
LEMMA TapsFinite ==
    ASSUME NEW S \in SUBSET Taps
    PROVE  IsFiniteSet(S) /\ Cardinality(S) \in Nat
  <1>1. IsFiniteSet(Taps)
    BY FS_Interval, AbtBounds DEF Taps
  <1>2. IsFiniteSet(S)
    BY <1>1, FS_Subset
  <1> QED
    BY <1>2, FS_CardinalityType

\* A part of the table counts at most as much as the whole.
LEMMA TapsCountMonotonic ==
    ASSUME NEW T \in SUBSET Taps, NEW S \in SUBSET T
    PROVE  Cardinality(S) <= Cardinality(T)
  BY TapsFinite, FS_Subset

\* The queries return rows of the table.
LEMMA QueriesTyped ==
    /\ Stored \in SUBSET Taps /\ Unsettled \in SUBSET Taps /\ OkAndOld \in SUBSET Taps
    /\ \A status : WithStatus(status) \in SUBSET Taps
  BY DEF Stored, Unsettled, OkAndOld, WithStatus

-----------------------------------------------------------------------------
(* Type correctness.                                                       *)

\* The values of the locals between two rounds are well typed.
LEMMA LocalsTyped ==
    /\ Idle \in TrxLocals /\ Free \in HandlerLocals
    /\ Asleep \in UploadLocals /\ Resting \in CleaningLocals
  <1>1. Idle \in TrxLocals /\ Free \in HandlerLocals
    BY DEF Idle, TrxLocals, Free, HandlerLocals
  <1>2. Asleep \in UploadLocals
    <2>1. <<>> \in Seq(Taps \cup {NoTap})
      OBVIOUS
    <2> QED
      BY <2>1 DEF Asleep, UploadLocals
  <1>3. Resting \in CleaningLocals
    BY DEF Resting, CleaningLocals
  <1> QED
    BY <1>1, <1>2, <1>3

\* The states the program starts in are well typed.
LEMMA InitTyped == Init => TypeOK
  <1> SUFFICES ASSUME Init PROVE TypeOK
    OBVIOUS
  <1>1. AbtTransactions \in [Taps -> Row \cup {NoRow}]
        /\ accepted \in [Taps -> {Never} \cup 0 .. MaxDays]
    BY DEF Init
  <1>2. tapped \in 0 .. MaxTaps /\ today \in 0 .. MaxDays /\ crashes \in 0 .. MaxCrashes
        /\ dbFailures \in 0 .. MaxDbFailures
    BY AbtBounds DEF Init
  <1> QED
    BY <1>1, <1>2, LocalsTyped DEF Init, TypeOK

\* Every step of the transaction thread and of the validator keeps the types.
LEMMA TapStepTyped ==
    ASSUME TypeOK,
           TapPresented \/ TapStep \/ GateStep \/ \E status \in Statuses : AnswerTap(status)
    PROVE  TypeOK'
  <1> USE AbtBounds DEF TypeOK, tapVars, gateVars, uploadVars
  <1>1. CASE TapPresented
    <2>1. tapped + 1 \in 0 .. MaxTaps /\ tapped + 1 \in Taps
      BY <1>1 DEF TapPresented, Taps
    <2> QED
      BY <1>1, <2>1 DEF TapPresented, Idle, TrxLocals
  <1>2. CASE SeeGateOpen
    BY <1>2 DEF SeeGateOpen, TrxLocals
  <1>3. CASE ReadGateStatus
    BY <1>3 DEF ReadGateStatus, TrxLocals
  <1>4. CASE GateTimeout
    BY <1>4 DEF GateTimeout, GateAfterTimeout, TrxLocals
  <1>5. CASE StoreTap
    <2>1. trx.gate \in BOOLEAN
      BY DEF TrxLocals
    <2>2. [host |-> "Pending", gate |-> trx.gate, days |-> 0] \in Row
      BY <2>1 DEF Row
    <2> QED
      BY <1>5, <2>2, LocalsTyped DEF StoreTap
  <1>6. CASE StoreTapFails
    BY <1>6, LocalsTyped DEF StoreTapFails, Refused
  <1>7. CASE LeaveTap
    BY <1>7 DEF LeaveTap
  <1>8. CASE GateStep
    <2>1. CASE CheckPresented
      BY <2>1, LocalsTyped DEF CheckPresented, HandlerLocals
    <2>2. CASE SetGateStatus
      BY <2>2 DEF SetGateStatus, HandlerLocals
    <2>3. CASE SetGateFlag
      BY <2>3, LocalsTyped DEF SetGateFlag
    <2> QED
      BY <1>8, <2>1, <2>2, <2>3 DEF GateStep
  <1>9. ASSUME NEW status \in Statuses, AnswerTap(status)
        PROVE  TypeOK'
    <2>1. status \in BOOLEAN /\ opened' \in SUBSET Taps
      BY <1>9 DEF AnswerTap
    <2> QED
      BY <1>9, <2>1 DEF AnswerTap, NoTap, HandlerLocals
  <1> QED
    BY <1>1, <1>2, <1>3, <1>4, <1>5, <1>6, <1>7, <1>8, <1>9 DEF TapStep

\* The list the select fills.
LEMMA FillTyped ==
    ASSUME TypeOK, NEW row, NEW refused \in BOOLEAN, Fill(row, refused)
    PROVE  /\ upload' \in UploadLocals
           /\ \E list \in Lists(row) :
                /\ upload' = [pc |-> "send", pending |-> 0, nok |-> 0, list |-> list,
                              orderly |-> upload.nok <= 0 /\ ~refused, index |-> 0,
                              oks |-> {}, noks |-> {}]
                /\ list \in [1 .. totalCount -> Taps \cup {NoTap}]
                /\ totalCount \in Nat /\ Len(list) = totalCount
  <1>1. PICK list \in Lists(row) :
          upload' = [pc |-> "send", pending |-> 0, nok |-> 0, list |-> list,
                     orderly |-> upload.nok <= 0 /\ ~refused, index |-> 0,
                     oks |-> {}, noks |-> {}]
    BY DEF Fill, Asleep
  <1>2. totalCount \in Nat
    BY DEF Fill, totalCount, TypeOK, UploadLocals
  <1>3. list \in [1 .. totalCount -> Taps \cup {NoTap}]
    BY DEF Lists
  <1>4. list \in Seq(Taps \cup {NoTap}) /\ Len(list) = totalCount
    BY <1>2, <1>3
  <1>5. (upload.nok <= 0 /\ ~refused) \in BOOLEAN
    OBVIOUS
  <1>6. upload' \in UploadLocals
    BY <1>1, <1>4, <1>5 DEF UploadLocals
  <1> QED
    BY <1>1, <1>2, <1>3, <1>4, <1>6

\* A batch is a part of the list.
LEMMA BatchTyped ==
    ASSUME TypeOK
    PROVE  /\ BatchEnd \in Nat /\ Entries \subseteq 1 .. Len(upload.list)
           /\ Batch \subseteq Listed /\ Listed \subseteq Taps
           /\ upload.index \in Nat /\ Len(upload.list) \in Nat
           /\ upload.index < Len(upload.list) => upload.index < BatchEnd
  <1>1. upload.list \in Seq(Taps \cup {NoTap}) /\ upload.index \in Nat
        /\ Len(upload.list) \in Nat /\ BatchCount \in Nat \ {0}
    BY AbtConfiguration DEF TypeOK, UploadLocals
  <1>2. BatchEnd \in Nat /\ Entries \subseteq 1 .. Len(upload.list)
        /\ (upload.index < Len(upload.list) => upload.index < BatchEnd)
    BY <1>1 DEF BatchEnd, Entries
  <1>3. Listed \subseteq Taps
    <2>1. \A i \in 1 .. Len(upload.list) : upload.list[i] \in Taps \cup {NoTap}
      BY <1>1
    <2> QED
      BY <2>1 DEF Listed
  <1>4. Batch \subseteq Listed
    BY <1>2 DEF Batch, Listed
  <1> QED
    BY <1>1, <1>2, <1>3, <1>4

\* What the back office takes, it keeps.
LEMMA TakeTyped ==
    ASSUME TypeOK, NEW S, Take(S)
    PROVE  /\ accepted' \in [Taps -> {Never} \cup 0 .. MaxDays]
           /\ \A s \in Taps : accepted[s] # Never => accepted'[s] = accepted[s]
           /\ \A s \in Taps \cap S : accepted'[s] # Never
           /\ \A s \in Taps : accepted'[s] \in {accepted[s], today}
           /\ \A s \in Taps \ S : accepted'[s] = accepted[s]
  <1>1. \A s \in Taps : accepted'[s] = IF s \in S /\ accepted[s] = Never THEN today
                                       ELSE accepted[s]
    BY DEF Take
  <1>2. today \in 0 .. MaxDays /\ today # Never
    BY AbtBounds DEF TypeOK, Never
  <1>3. accepted' \in [Taps -> {Never} \cup 0 .. MaxDays]
    <2>1. \A s \in Taps : accepted[s] \in {Never} \cup 0 .. MaxDays
      BY DEF TypeOK
    <2> QED
      BY <1>2, <2>1 DEF Take
  <1> QED
    BY <1>1, <1>2, <1>3

\* What saving one answer leaves to be saved.
LEMMA AnswerTyped ==
    ASSUME TypeOK, NEW s \in Taps, NEW result, Answer(s, result)
    PROVE  /\ upload' \in UploadLocals
           /\ upload.pc = "save" /\ upload'.pc = "save"
           /\ upload'.list = upload.list /\ upload'.index = upload.index
           /\ upload'.orderly = upload.orderly
           /\ upload'.oks = (IF result = "OK" THEN upload.oks \ {s} ELSE upload.oks)
           /\ upload'.noks = (IF result = "OK" THEN upload.noks ELSE upload.noks \ {s})
           /\ s \in IF result = "OK" THEN upload.oks ELSE upload.noks
  <1> USE DEF TypeOK
  <1>1. CASE result = "OK"
    BY <1>1 DEF Answer, UploadLocals
  <1>2. CASE result # "OK"
    BY <1>2 DEF Answer, UploadLocals
  <1> QED
    BY <1>1, <1>2

\* Every step of the ABT thread leaves the other threads, the calendar and the number of
\* kills alone.
LEMMA UploadFrame ==
    ASSUME UploadStep
    PROVE  UNCHANGED <<tapped, trx, presented, isGateOpenAvailable, gateOpenStatus, handler,
                       toOpen, opened, cleaning, today, crashes>>
  BY DEF UploadStep, CountPending, CountNok, CountFails, SelectUnsettled, NothingToUpload,
         SelectFails, SelectStepFails, BatchAnswered, BatchUnanswered, SaveResponse, SaveFails,
         BatchDone, EndRound, tapVars, gateVars

\* Every step of the ABT thread keeps the types.
LEMMA UploadStepTyped == ASSUME TypeOK, UploadStep PROVE TypeOK'
  <1> SUFFICES /\ AbtTransactions' \in [Taps -> Row \cup {NoRow}]
               /\ upload' \in UploadLocals /\ stackRows' \in SUBSET Taps
               /\ accepted' \in [Taps -> {Never} \cup 0 .. MaxDays]
               /\ dbFailures' \in 0 .. MaxDbFailures
    BY UploadFrame DEF TypeOK
  <1>r. ASSUME Refused PROVE dbFailures' \in 0 .. MaxDbFailures
    BY <1>r, AbtBounds DEF TypeOK, Refused
  <1>1. CASE CountPending
    <2>1. Cardinality(WithStatus("Pending")) \in Int
      BY QueriesTyped, TapsFinite
    <2> QED
      BY <1>1, <2>1 DEF CountPending, TypeOK, UploadLocals
  <1>2. CASE CountNok
    <2>1. Cardinality(WithStatus(STATUS_NOK)) \in Int
      BY QueriesTyped, TapsFinite
    <2> QED
      BY <1>2, <2>1 DEF CountNok, TypeOK, UploadLocals
  <1>3. CASE CountFails
    <2>1. RefusedCount \subseteq Int
      BY DEF RefusedCount
    <2>2. upload' \in UploadLocals
      <3>1. PICK count \in RefusedCount :
              \/ upload' = [upload EXCEPT !.pc = "nok", !.pending = count]
              \/ upload' = [upload EXCEPT !.pc = "select", !.nok = count]
        BY <1>3 DEF CountFails
      <3>2. upload \in UploadLocals /\ count \in Int
        BY <2>1 DEF TypeOK
      <3> QED
        BY ONLY <3>1, <3>2 DEF UploadLocals
    <2>3. UNCHANGED <<AbtTransactions, stackRows, accepted>> /\ Refused
      BY <1>3 DEF CountFails
    <2> QED
      BY <1>r, <2>2, <2>3 DEF TypeOK
  <1>4. CASE SelectUnsettled
    BY <1>4, FillTyped DEF SelectUnsettled, TypeOK
  <1>5. CASE NothingToUpload
    BY <1>5, LocalsTyped DEF NothingToUpload, TypeOK
  <1>6. CASE SelectFails
    BY <1>6, <1>r, LocalsTyped DEF SelectFails, TypeOK
  <1>7. CASE SelectStepFails
    BY <1>7, <1>r, FillTyped DEF SelectStepFails, TypeOK
  <1>8. CASE BatchAnswered
    <2>1. PICK oks, noks \in SUBSET Batch :
            /\ Take(oks)
            /\ upload' = [upload EXCEPT !.pc = "save", !.index = BatchEnd, !.oks = oks,
                                        !.noks = noks]
      BY <1>8 DEF BatchAnswered
    <2>2. upload' \in UploadLocals
      BY <2>1, BatchTyped DEF TypeOK, UploadLocals
    <2> QED
      BY <1>8, <2>1, <2>2, TakeTyped DEF BatchAnswered, TypeOK
  <1>9. CASE BatchUnanswered
    <2>1. upload' \in UploadLocals
      BY <1>9, BatchTyped DEF BatchUnanswered, TypeOK, UploadLocals
    <2> QED
      BY <1>9, <2>1, TakeTyped DEF BatchUnanswered, TypeOK
  <1>10. ASSUME NEW s \in Taps, NEW result \in Rejections \cup {"OK"}, SaveResponse(s, result)
         PROVE  AbtTransactions' \in [Taps -> Row \cup {NoRow}] /\ upload' \in UploadLocals
    <2>1. SavedStatus(result) \in {"OK", "NOK", "KO"}
      BY AbtBounds DEF SavedStatus
    <2>2. AbtTransactions' \in [Taps -> Row \cup {NoRow}]
      <3>1. CASE s \in Stored
        <4>1. AbtTransactions[s] \in Row
          BY <3>1 DEF Stored, TypeOK
        <4>2. [[AbtTransactions[s] EXCEPT !.host = SavedStatus(result)] EXCEPT !.days = today]
                \in Row
          BY <4>1, <2>1 DEF Row, TypeOK
        <4>3. AbtTransactions' =
                [AbtTransactions EXCEPT ![s] =
                   [[AbtTransactions[s] EXCEPT !.host = SavedStatus(result)] EXCEPT !.days = today]]
          BY <1>10, <3>1 DEF SaveResponse, TypeOK
        <4> QED
          BY <4>2, <4>3 DEF TypeOK
      <3>2. CASE s \notin Stored
        BY <1>10, <3>2 DEF SaveResponse, TypeOK
      <3> QED
        BY <3>1, <3>2
    <2> QED
      BY <1>10, <2>2, AnswerTyped DEF SaveResponse
  <1>11. ASSUME NEW s \in Taps, NEW result \in Rejections \cup {"OK"}, SaveFails(s, result)
         PROVE  upload' \in UploadLocals /\ dbFailures' \in 0 .. MaxDbFailures
    BY <1>11, <1>r, AnswerTyped DEF SaveFails
  <1>12. CASE BatchDone
    BY <1>12 DEF BatchDone, TypeOK, UploadLocals
  <1>13. CASE EndRound
    BY <1>13, LocalsTyped, BatchTyped DEF EndRound, TypeOK
  <1>14. ASSUME NEW s \in Taps, NEW result \in Rejections \cup {"OK"},
                SaveResponse(s, result) \/ SaveFails(s, result)
         PROVE  UNCHANGED <<stackRows, accepted>>
                /\ (SaveResponse(s, result) => UNCHANGED dbFailures)
                /\ (~SaveResponse(s, result) => UNCHANGED AbtTransactions)
    BY <1>14 DEF SaveResponse, SaveFails
  <1> QED
    BY <1>1, <1>2, <1>3, <1>4, <1>5, <1>6, <1>7, <1>8, <1>9, <1>10, <1>11, <1>12, <1>13, <1>14
       DEF UploadStep, TypeOK

\* The locals of the clean-up when the ids are listed.
LEMMA SelectedOldTyped ==
    ASSUME cleaning' = [Resting EXCEPT !.pc = "delete", !.listed = OkAndOld]
    PROVE  /\ cleaning' = [pc |-> "delete", count |-> 0, refused |-> FALSE, listed |-> OkAndOld]
           /\ cleaning' \in CleaningLocals
  <1>1. cleaning' = [pc |-> "delete", count |-> 0, refused |-> FALSE, listed |-> OkAndOld]
    BY DEF Resting
  <1>2. OkAndOld \in SUBSET Taps
    BY QueriesTyped
  <1> QED
    BY ONLY <1>1, <1>2 DEF CleaningLocals

\* Every step of the house-keeping thread keeps the types.
LEMMA CleaningStepTyped == ASSUME TypeOK, CleaningStep PROVE TypeOK'
  <1> USE AbtBounds DEF TypeOK, tapVars, gateVars, uploadVars
  <1>1. CASE CountOld
    <2>1. Cardinality(OkAndOld) \in Int
      BY QueriesTyped, TapsFinite
    <2>2. cleaning' \in CleaningLocals
      BY <1>1, <2>1 DEF CountOld, Resting, CleaningLocals
    <2> QED
      BY <1>1, <2>2 DEF CountOld
  <1>2. CASE CountOldFails
    <2>1. PICK count \in RefusedCount :
            cleaning' = [pc |-> "select", count |-> count, refused |-> TRUE, listed |-> {}]
      BY <1>2 DEF CountOldFails, Resting
    <2>2. count \in Int
      BY DEF RefusedCount
    <2>3. cleaning' \in CleaningLocals
      BY <2>1, <2>2 DEF CleaningLocals
    <2> QED
      BY <1>2, <2>3 DEF CountOldFails, Refused
  <1>3. CASE SelectOld
    <2>1. cleaning' \in CleaningLocals
      BY <1>3, SelectedOldTyped DEF SelectOld
    <2> QED
      BY <1>3, <2>1 DEF SelectOld
  <1>4. CASE SelectOldFails
    BY <1>4, LocalsTyped DEF SelectOldFails, Refused
  <1>5. CASE EndCleaning
    BY <1>5, LocalsTyped DEF EndCleaning
  <1>8. CASE SelectOldStepFails
    <2>1. cleaning' \in CleaningLocals
      BY <1>8, SelectedOldTyped DEF SelectOldStepFails
    <2> QED
      BY <1>8, <2>1 DEF SelectOldStepFails, Refused
  <1>6. ASSUME NEW s \in Taps, DeleteTap(s)
        PROVE  TypeOK'
    <2>1. cleaning' \in CleaningLocals
      BY <1>6 DEF DeleteTap, NextToDelete, CleaningLocals
    <2> QED
      BY <1>6, <2>1 DEF DeleteTap
  <1>7. ASSUME NEW s \in Taps, DeleteFails(s)
        PROVE  TypeOK'
    <2>1. cleaning' \in CleaningLocals
      BY <1>7 DEF DeleteFails, NextToDelete, CleaningLocals
    <2> QED
      BY <1>7, <2>1 DEF DeleteFails, Refused
  <1> QED
    BY <1>1, <1>2, <1>3, <1>4, <1>5, <1>6, <1>7, <1>8 DEF CleaningStep

\* Type correctness of the whole component.
THEOREM AbtTypeCorrect == Safety => []TypeOK
  <1>1. ASSUME TypeOK, [Next]_vars
        PROVE  TypeOK'
    <2>1. CASE NextDay
      BY <1>1, <2>1, AbtBounds DEF NextDay, TypeOK, tapVars, gateVars, uploadVars
    <2>2. CASE Restart
      <3>1. crashes' \in 0 .. MaxCrashes
        BY <1>1, <2>2, AbtBounds DEF Restart, TypeOK
      <3>2. trx' \in TrxLocals /\ handler' \in HandlerLocals /\ upload' \in UploadLocals
            /\ cleaning' \in CleaningLocals
        BY <2>2, LocalsTyped DEF Restart
      <3>3. presented' \in BOOLEAN /\ gateOpenStatus' \in BOOLEAN
            /\ isGateOpenAvailable' \in {0, 1}
        BY <2>2 DEF Restart
      <3> QED
        BY <1>1, <2>2, <3>1, <3>2, <3>3 DEF Restart, TypeOK
    <2>3. CASE UNCHANGED vars
      BY <1>1, <2>3 DEF TypeOK, vars, tapVars, gateVars
    <2> QED
      BY <1>1, <2>1, <2>2, <2>3, TapStepTyped, UploadStepTyped, CleaningStepTyped DEF Next
  <1> QED
    BY <1>1, InitTyped, PTL DEF Safety

-----------------------------------------------------------------------------
(* The upload and the clean-up work on lists of their own, made by a count  *)
(* and a select, while taps are stored, answered and deleted.  What keeps   *)
(* them apart is that a listed id stays accepted whatever its row becomes,  *)
(* and that a pending row is written by the upload only.                    *)

\* The taps whose thread is done with them: stored or lost.
Past == 1 .. (IF trx.pc = "idle" THEN tapped ELSE tapped - 1)

\* The table has no row for the tap that is under way.
RowsArePast ==
    /\ trx.pc # "idle" => tapped \in Taps
    /\ Stored \subseteq Past

\* OK is written for what the back office has taken, on that day or later.
OkIsTaken ==
    /\ \A s \in Taps : accepted[s] <= today
    /\ \A s \in Taps : AbtTransactions[s].host = "OK" =>
          accepted[s] # Never /\ accepted[s] <= AbtTransactions[s].days
    /\ \A s \in upload.oks : accepted[s] # Never

\* What is listed for the clean-up was taken long enough ago, and is no new row.
CleanupIsTaken ==
    \A s \in cleaning.listed :
        /\ accepted[s] # Never /\ today - accepted[s] > Retention
        /\ s \in Past /\ AbtTransactions[s].host # "Pending"

\* No more rows match than the clean-up has counted.
CleanupIsCounted ==
    cleaning.pc = "select" /\ ~cleaning.refused => Cardinality(OkAndOld) <= cleaning.count

\* The pending rows that were counted are still there.
PendingIsCounted ==
    upload.pc \in {"nok", "select"} => upload.pending <= Cardinality(WithStatus("Pending"))

\* What a round still has to send: the positions of the list, and its taps.
Ahead == upload.index + 1 .. Len(upload.list)
NotOk(s) == AbtTransactions[s].host # "OK"

\* An orderly list has taps whose rows are not OK, each once, of which a tap that has an
\* answer to be saved is none; the answer is one.
RoundIsOrderly ==
    /\ upload.pc # "save" => upload.oks \cup upload.noks = {}
    /\ upload.orderly =>
         /\ \A i \in Ahead : upload.list[i] \in Taps /\ NotOk(upload.list[i])
         /\ \A i, j \in Ahead : i # j => upload.list[i] # upload.list[j]
         /\ \A s \in upload.oks \cup upload.noks :
              NotOk(s) /\ \A i \in Ahead : upload.list[i] # s
         /\ upload.oks \cap upload.noks = {}

\* What is or was listed for the upload is stored or accepted.
ListedIsKnown == \A s \in Listed \cup stackRows : s \in Stored \/ accepted[s] # Never

AbtInv ==
    /\ TypeOK /\ RowsArePast /\ OkIsTaken /\ CleanupIsTaken /\ CleanupIsCounted
    /\ PendingIsCounted /\ RoundIsOrderly /\ ListedIsKnown

\* Nothing is listed or to be saved between two rounds.
LEMMA AsleepIsOrderly ==
    ASSUME upload = Asleep
    PROVE  RoundIsOrderly /\ PendingIsCounted /\ Listed = {} /\ upload.oks = {}
  <1>1. upload.list = <<>> /\ upload.index = 0 /\ upload.pc = "sleep"
        /\ upload.oks = {} /\ upload.noks = {}
    BY DEF Asleep
  <1>2. Ahead = {} /\ Listed = {}
    BY <1>1 DEF Ahead, Listed
  <1> QED
    BY <1>1, <1>2 DEF RoundIsOrderly, PendingIsCounted

LEMMA InitAbtInv == Init => AbtInv
  <1> SUFFICES ASSUME Init PROVE AbtInv
    OBVIOUS
  <1>1. Stored = {} /\ \A s \in Taps : AbtTransactions[s].host = "none"
    BY DEF Init, Stored, NoRow
  <1>2. upload = Asleep /\ stackRows = {} /\ cleaning.listed = {} /\ cleaning.pc = "rest"
    BY DEF Init, Resting
  <1>3. RoundIsOrderly /\ PendingIsCounted /\ Listed = {} /\ upload.oks = {}
    BY <1>2, AsleepIsOrderly
  <1>4. \A s \in Taps : accepted[s] <= today
    BY DEF Init, Never
  <1>5. RowsArePast
    BY <1>1 DEF Init, RowsArePast, Idle
  <1> QED
    BY <1>1, <1>2, <1>3, <1>4, <1>5, InitTyped
       DEF AbtInv, OkIsTaken, CleanupIsTaken, CleanupIsCounted, ListedIsKnown

\* Only the insert, the update and the delete touch the table.
LEMMA SameTable ==
    ASSUME UNCHANGED AbtTransactions
    PROVE  /\ Stored' = Stored /\ WithStatus("Pending")' = WithStatus("Pending")
           /\ \A s : NotOk(s)' = NotOk(s)
           /\ today' = today => OkAndOld' = OkAndOld
  BY DEF Stored, WithStatus, OkAndOld, NotOk

\* The insert adds a pending row.
LEMMA StoreAddsTap ==
    ASSUME TypeOK, RowsArePast, StoreTap
    PROVE  /\ tapped \in Taps /\ tapped \notin Past /\ tapped \notin Stored
           /\ Stored' = Stored \cup {tapped}
           /\ WithStatus("Pending") \subseteq WithStatus("Pending")'
           /\ OkAndOld' = OkAndOld
           /\ AbtTransactions'[tapped].host = "Pending"
           /\ \A s \in Taps \ {tapped} : AbtTransactions'[s] = AbtTransactions[s]
  <1> DEFINE new == [host |-> "Pending", gate |-> trx.gate, days |-> 0]
  <1>1. tapped \in Taps /\ tapped \notin Past /\ tapped \notin Stored
    BY DEF TypeOK, RowsArePast, StoreTap, Past, Taps
  <1>2. AbtTransactions' = [AbtTransactions EXCEPT ![tapped] = new] /\ today' = today
    BY DEF StoreTap
  <1>3. new # NoRow /\ new.host = "Pending"
    BY DEF NoRow
  <1>4. \A s \in Taps : AbtTransactions'[s] = IF s = tapped THEN new ELSE AbtTransactions[s]
    BY <1>1, <1>2 DEF TypeOK
  <1> HIDE DEF new
  <1>5. Stored' = Stored \cup {tapped}
    BY <1>1, <1>3, <1>4 DEF Stored
  <1>6. WithStatus("Pending") \subseteq WithStatus("Pending")'
    BY <1>1, <1>3, <1>4, <1>5 DEF WithStatus, Stored
  <1>7. OkAndOld' = OkAndOld
    BY <1>1, <1>2, <1>3, <1>4, <1>5 DEF OkAndOld, Stored
  <1> QED
    BY <1>1, <1>3, <1>4, <1>5, <1>6, <1>7

\* The update writes the answer to the row, if it is there; other rows are left alone.
LEMMA SaveUpdatesRow ==
    ASSUME TypeOK, NEW s \in Taps, NEW result \in Rejections \cup {"OK"},
           SaveResponse(s, result)
    PROVE  /\ Stored' = Stored
           /\ OkAndOld' \subseteq OkAndOld
           /\ s \in Stored => /\ AbtTransactions'[s].host = result
                              /\ AbtTransactions'[s].days = today
           /\ s \notin Stored => AbtTransactions'[s] = AbtTransactions[s]
           /\ \A r \in Taps \ {s} : AbtTransactions'[r] = AbtTransactions[r]
           /\ result # "Pending"
  <1> DEFINE row == [AbtTransactions[s] EXCEPT !.host = SavedStatus(result), !.days = today]
  <1>1. CASE s \notin Stored
    <2>1. UNCHANGED AbtTransactions /\ today' = today
      BY <1>1 DEF SaveResponse
    <2> QED
      BY <1>1, <2>1, SameTable, AbtBounds
  <1>2. CASE s \in Stored
    <2>1. AbtTransactions' = [AbtTransactions EXCEPT ![s] = row] /\ today' = today
      BY <1>2 DEF SaveResponse
    <2>2. AbtTransactions[s] \in Row
      BY <1>2 DEF Stored, TypeOK
    <2>3. row.host = result /\ row.days = today
      BY <2>2 DEF Row, SavedStatus
    <2>4. row # NoRow /\ result # "Pending"
      BY <2>3, AbtBounds DEF NoRow
    <2>5. \A r \in Taps : AbtTransactions'[r] = IF r = s THEN row ELSE AbtTransactions[r]
      BY <2>1 DEF TypeOK
    <2> HIDE DEF row
    <2>6. Stored' = Stored
      BY <1>2, <2>4, <2>5 DEF Stored
    <2>7. ~(today - row.days > Retention)
      BY <2>3, AbtConfiguration, AbtBounds DEF TypeOK
    <2>8. OkAndOld' \subseteq OkAndOld
      BY <2>1, <2>5, <2>6, <2>7 DEF OkAndOld, Stored
    <2> QED
      BY <1>2, <2>3, <2>4, <2>5, <2>6, <2>8
  <1> QED
    BY <1>1, <1>2

\* The delete drops one row, which is not pending.
LEMMA DeleteDropsOld ==
    ASSUME TypeOK, CleanupIsTaken, NEW s \in Taps, DeleteTap(s)
    PROVE  /\ s \in cleaning.listed
           /\ Stored' = Stored \ {s}
           /\ WithStatus("Pending")' = WithStatus("Pending")
           /\ AbtTransactions'[s] = NoRow
           /\ \A r \in Taps \ {s} : AbtTransactions'[r] = AbtTransactions[r]
  <1>1. s \in cleaning.listed
    BY DEF DeleteTap, NextToDelete
  <1>2. \A r \in Taps : AbtTransactions'[r] = IF r = s THEN NoRow ELSE AbtTransactions[r]
    BY DEF DeleteTap, TypeOK
  <1>3. Stored' = Stored \ {s}
    BY <1>2 DEF Stored
  <1>4. WithStatus("Pending")' = WithStatus("Pending")
    <2>1. s \notin WithStatus("Pending")
      BY <1>1 DEF CleanupIsTaken, WithStatus
    <2> QED
      BY <1>2, <1>3, <2>1 DEF WithStatus, Stored
  <1> QED
    BY <1>1, <1>2, <1>3, <1>4

\* Rows that were counted as pending stay counted while there are no fewer of them.
LEMMA PendingStaysCounted ==
    ASSUME TypeOK, PendingIsCounted, UNCHANGED upload,
           WithStatus("Pending") \subseteq WithStatus("Pending")'
    PROVE  PendingIsCounted'
  <1>1. WithStatus("Pending")' \in SUBSET Taps
    BY DEF WithStatus, Stored
  <1>2. Cardinality(WithStatus("Pending")) \in Nat /\ Cardinality(WithStatus("Pending")') \in Nat
        /\ Cardinality(WithStatus("Pending")) <= Cardinality(WithStatus("Pending")')
    BY <1>1, QueriesTyped, TapsFinite, TapsCountMonotonic
  <1>3. upload.pending \in Int
    BY DEF TypeOK, UploadLocals
  <1> QED
    BY <1>2, <1>3 DEF PendingIsCounted

\* A step that makes no row OK leaves the round as it is.
LEMMA RoundStays ==
    ASSUME TypeOK, RoundIsOrderly, UNCHANGED upload, \A s \in Taps : NotOk(s) => NotOk(s)'
    PROVE  RoundIsOrderly'
  <1>1. Ahead' = Ahead /\ upload.oks \cup upload.noks \subseteq Taps
    BY DEF Ahead, TypeOK, UploadLocals
  <1> QED
    BY <1>1 DEF RoundIsOrderly

\* Every step of the transaction thread and of the validator leaves the others alone.
LEMMA TapFrame ==
    ASSUME TapPresented \/ TapStep \/ GateStep \/ \E status \in Statuses : AnswerTap(status)
    PROVE  /\ UNCHANGED <<upload, stackRows, accepted, cleaning, today, crashes>>
           /\ ~StoreTap => UNCHANGED AbtTransactions
  BY DEF TapPresented, TapStep, SeeGateOpen, ReadGateStatus, GateTimeout, StoreTap,
         StoreTapFails, LeaveTap, GateStep, CheckPresented, SetGateStatus, SetGateFlag,
         AnswerTap, uploadVars

\* Every step of the transaction thread and of the validator keeps the invariant.
LEMMA TapStepInv ==
    ASSUME AbtInv, TypeOK',
           TapPresented \/ TapStep \/ GateStep \/ \E status \in Statuses : AnswerTap(status)
    PROVE  AbtInv'
  <1> USE DEF AbtInv
  <1>1. UNCHANGED <<upload, stackRows, accepted, cleaning, today>>
    BY TapFrame
  <1>2. Listed' = Listed
    BY <1>1 DEF Listed
  <1>3. Listed \cup stackRows \subseteq Taps /\ cleaning.listed \subseteq Taps
    BY BatchTyped DEF TypeOK, CleaningLocals
  <1>4. CASE StoreTap
    <2>1. /\ tapped \in Taps /\ tapped \notin Past /\ tapped \notin Stored
          /\ Stored' = Stored \cup {tapped}
          /\ WithStatus("Pending") \subseteq WithStatus("Pending")'
          /\ OkAndOld' = OkAndOld
          /\ AbtTransactions'[tapped].host = "Pending"
          /\ \A s \in Taps \ {tapped} : AbtTransactions'[s] = AbtTransactions[s]
      BY <1>4, StoreAddsTap
    <2>2. trx'.pc = "idle" /\ trx.pc # "idle" /\ tapped' = tapped /\ tapped \in Nat
      BY <1>4, <2>1 DEF StoreTap, Idle, Taps
    <2>3. Past' = 1 .. tapped /\ Past = 1 .. tapped - 1 /\ Past \subseteq Past'
      BY <2>2 DEF Past
    <2>4. RowsArePast'
      <3>1. Stored \subseteq Past
        BY DEF RowsArePast
      <3>2. tapped \in 1 .. tapped
        BY <2>1 DEF Taps
      <3>3. Stored' \subseteq Past'
        BY <2>1, <2>3, <3>1, <3>2
      <3> QED
        BY <2>2, <3>3 DEF RowsArePast
    <2>5. OkIsTaken'
      BY <1>1, <2>1 DEF OkIsTaken
    <2>6. CleanupIsTaken'
      BY <1>1, <1>3, <2>1, <2>3 DEF CleanupIsTaken
    <2>7. CleanupIsCounted'
      BY <1>1, <2>1 DEF CleanupIsCounted
    <2>8. PendingIsCounted'
      BY <1>1, <2>1, PendingStaysCounted
    <2>9. RoundIsOrderly'
      <3>1. \A s \in Taps : NotOk(s) => NotOk(s)'
        BY <2>1 DEF NotOk
      <3> QED
        BY <1>1, <3>1, RoundStays
    <2>10. ListedIsKnown'
      BY <1>1, <1>2, <1>3, <2>1 DEF ListedIsKnown
    <2> QED
      BY <2>4, <2>5, <2>6, <2>7, <2>8, <2>9, <2>10
  <1>5. CASE ~StoreTap
    <2>1. UNCHANGED AbtTransactions
      BY <1>5, TapFrame
    <2>2. /\ Stored' = Stored /\ WithStatus("Pending")' = WithStatus("Pending")
          /\ OkAndOld' = OkAndOld /\ \A s : NotOk(s)' = NotOk(s)
      BY <1>1, <2>1, SameTable
    <2>3. (trx'.pc # "idle" => tapped' \in Taps) /\ Past \subseteq Past'
      BY <1>5, AbtBounds
         DEF TapPresented, TapStep, SeeGateOpen, ReadGateStatus, GateTimeout,
             StoreTapFails, LeaveTap, GateStep, CheckPresented, SetGateStatus, SetGateFlag,
             AnswerTap, Idle, Past, RowsArePast, TypeOK, TrxLocals, Taps, tapVars
    <2>4. RowsArePast'
      BY <2>2, <2>3 DEF RowsArePast
    <2>5. OkIsTaken' /\ CleanupIsTaken' /\ CleanupIsCounted' /\ ListedIsKnown'
      BY <1>1, <1>2, <2>1, <2>2, <2>3
         DEF OkIsTaken, CleanupIsTaken, CleanupIsCounted, ListedIsKnown
    <2>6. PendingIsCounted'
      BY <1>1, <2>2, PendingStaysCounted
    <2>7. RoundIsOrderly'
      BY <1>1, <2>2, RoundStays
    <2> QED
      BY <2>4, <2>5, <2>6, <2>7
  <1> QED
    BY <1>4, <1>5

\* Every step of the house-keeping thread leaves the others alone.
LEMMA CleaningFrame ==
    ASSUME CleaningStep
    PROVE  /\ UNCHANGED <<tapped, trx, presented, isGateOpenAvailable, gateOpenStatus, handler,
                          toOpen, opened, upload, stackRows, accepted, today, crashes>>
           /\ (~\E s \in Taps : DeleteTap(s)) => UNCHANGED AbtTransactions
  BY DEF CleaningStep, CountOld, CountOldFails, SelectOld, SelectOldFails, SelectOldStepFails,
         EndCleaning, DeleteTap, DeleteFails, uploadVars, tapVars, gateVars

\* Every row that is listed for the clean-up is OK, old and so taken long enough ago.
LEMMA OldIsTaken ==
    ASSUME AbtInv
    PROVE  \A s \in OkAndOld :
             /\ accepted[s] # Never /\ today - accepted[s] > Retention
             /\ s \in Past /\ AbtTransactions[s].host # "Pending"
  <1> SUFFICES ASSUME NEW s \in OkAndOld
               PROVE  /\ accepted[s] # Never /\ today - accepted[s] > Retention
                      /\ s \in Past /\ AbtTransactions[s].host # "Pending"
    OBVIOUS
  <1>1. s \in Stored /\ s \in Taps /\ AbtTransactions[s].host = "OK"
        /\ today - AbtTransactions[s].days > Retention
    BY DEF OkAndOld, Stored
  <1>2. AbtTransactions[s].days \in Int /\ accepted[s] \in Int /\ today \in Int /\ Retention \in Int
    <2>1. AbtTransactions[s] \in Row
      BY <1>1 DEF Stored, AbtInv, TypeOK
    <2>2. accepted[s] \in {Never} \cup 0 .. MaxDays
      BY <1>1 DEF AbtInv, TypeOK
    <2> QED
      BY <1>1, <2>1, <2>2, AbtBounds, AbtConfiguration DEF Row, AbtInv, TypeOK, Never
  <1>3. accepted[s] # Never /\ accepted[s] <= AbtTransactions[s].days
    BY <1>1 DEF AbtInv, OkIsTaken
  <1>4. today - accepted[s] > Retention
    BY <1>1, <1>2, <1>3
  <1> QED
    BY <1>1, <1>3, <1>4 DEF AbtInv, RowsArePast

\* Every step of the house-keeping thread keeps the invariant.
LEMMA CleaningStepInv ==
    ASSUME AbtInv, TypeOK', CleaningStep
    PROVE  AbtInv'
  <1> USE DEF AbtInv
  <1>1. UNCHANGED <<upload, stackRows, accepted, today, trx, tapped>>
    BY CleaningFrame
  <1>2. Listed' = Listed /\ Past' = Past
    BY <1>1 DEF Listed, Past
  <1>3. Listed \cup stackRows \subseteq Taps /\ cleaning.listed \subseteq Taps
    BY BatchTyped DEF TypeOK, CleaningLocals
  <1>4. ASSUME NEW s \in Taps, DeleteTap(s)
        PROVE  AbtInv'
    <2>1. /\ s \in cleaning.listed /\ Stored' = Stored \ {s}
          /\ WithStatus("Pending")' = WithStatus("Pending")
          /\ AbtTransactions'[s] = NoRow
          /\ \A r \in Taps \ {s} : AbtTransactions'[r] = AbtTransactions[r]
      BY <1>4, DeleteDropsOld
    <2>2. cleaning' = [cleaning EXCEPT !.listed = cleaning.listed \ {s}]
          /\ cleaning.pc = "delete"
      BY <1>4 DEF DeleteTap, NextToDelete
    <2>3. cleaning'.listed = cleaning.listed \ {s} /\ cleaning'.pc = "delete"
      BY <2>2 DEF TypeOK, CleaningLocals
    <2>4. CleanupIsTaken' /\ CleanupIsCounted'
      BY <1>1, <1>2, <1>3, <2>1, <2>3 DEF CleanupIsTaken, CleanupIsCounted
    <2>5. RowsArePast'
      BY <1>1, <1>2, <2>1 DEF RowsArePast
    <2>6. OkIsTaken'
      BY <1>1, <2>1 DEF OkIsTaken, NoRow
    <2>7. PendingIsCounted'
      BY <1>1, <2>1, PendingStaysCounted
    <2>8. RoundIsOrderly'
      <3>1. \A r \in Taps : NotOk(r) => NotOk(r)'
        BY <2>1 DEF NotOk, NoRow
      <3> QED
        BY <1>1, <3>1, RoundStays
    <2>9. ListedIsKnown'
      BY <1>1, <1>2, <2>1 DEF ListedIsKnown, CleanupIsTaken
    <2> QED
      BY <2>4, <2>5, <2>6, <2>7, <2>8, <2>9
  <1>5. CASE ~\E s \in Taps : DeleteTap(s)
    <2>1. UNCHANGED AbtTransactions
      BY <1>5, CleaningFrame
    <2>2. /\ Stored' = Stored /\ WithStatus("Pending")' = WithStatus("Pending")
          /\ OkAndOld' = OkAndOld /\ \A s : NotOk(s)' = NotOk(s)
      BY <1>1, <2>1, SameTable
    <2>3. RowsArePast' /\ OkIsTaken' /\ ListedIsKnown'
      BY <1>1, <1>2, <2>1, <2>2 DEF RowsArePast, OkIsTaken, ListedIsKnown
    <2>4. PendingIsCounted'
      BY <1>1, <2>2, PendingStaysCounted
    <2>5. RoundIsOrderly'
      BY <1>1, <2>2, RoundStays
    <2>6. /\ cleaning'.listed \subseteq cleaning.listed \/ cleaning'.listed = OkAndOld
          /\ cleaning'.pc = "select" =>
               cleaning'.refused \/ cleaning'.count = Cardinality(OkAndOld)
      <3>1. CASE CountOld \/ CountOldFails
        BY <3>1 DEF CountOld, CountOldFails, Resting
      <3>2. CASE SelectOld \/ SelectOldStepFails
        BY <3>2, SelectedOldTyped DEF SelectOld, SelectOldStepFails
      <3>3. CASE SelectOldFails \/ EndCleaning
        BY <3>3 DEF SelectOldFails, EndCleaning, Resting
      <3>4. ASSUME NEW s \in Taps, DeleteFails(s)
            PROVE  cleaning'.listed \subseteq cleaning.listed /\ cleaning'.pc # "select"
        BY <3>4 DEF DeleteFails, NextToDelete, TypeOK, CleaningLocals
      <3> QED
        BY <1>5, <3>1, <3>2, <3>3, <3>4 DEF CleaningStep
    <2>7. CleanupIsTaken'
      BY <1>1, <1>2, <2>1, <2>6, OldIsTaken DEF CleanupIsTaken
    <2>8. CleanupIsCounted'
      <3>1. Cardinality(OkAndOld) \in Nat
        BY QueriesTyped, TapsFinite
      <3> QED
        BY <2>2, <2>6, <3>1 DEF CleanupIsCounted
    <2> QED
      BY <2>3, <2>4, <2>5, <2>7, <2>8
  <1> QED
    BY <1>4, <1>5

\* The list has the pending rows that were counted, and when it is orderly each once.
LEMMA FillLists ==
    ASSUME AbtInv, NEW row, NEW refused \in BOOLEAN, Fill(row, refused),
           \/ row = [i \in 1 .. totalCount |-> i] /\ ~refused
           \/ refused /\ \E got \in Nat : /\ got <= Cardinality(Unsettled)
                                          /\ row \in {StartedOver(got), RefusedFrom(got)}
    PROVE  /\ upload'.pc = "send" /\ upload'.index = 0
           /\ upload'.oks = {} /\ upload'.noks = {}
           /\ Len(upload'.list) = totalCount /\ totalCount \in Nat
           /\ \A i \in 1 .. totalCount :
                upload'.list[i] \in Unsettled \cup stackRows \cup {NoTap}
           /\ \A i \in 1 .. upload.pending : i <= totalCount =>
                upload'.list[i] \in Unsettled \/ (upload'.list[i] = NoTap /\ refused)
           /\ upload'.orderly =>
                /\ \A i \in 1 .. totalCount : upload'.list[i] \in Unsettled
                /\ \A i, j \in 1 .. totalCount : i # j => upload'.list[i] # upload'.list[j]
  <1> DEFINE n == Cardinality(Unsettled)
  <1>1. PICK list \in Lists(row) :
          /\ upload' = [pc |-> "send", pending |-> 0, nok |-> 0, list |-> list,
                        orderly |-> upload.nok <= 0 /\ ~refused, index |-> 0,
                        oks |-> {}, noks |-> {}]
          /\ list \in [1 .. totalCount -> Taps \cup {NoTap}]
          /\ totalCount \in Nat /\ Len(list) = totalCount
    BY FillTyped DEF AbtInv
  <1>2. n \in Nat /\ upload.pending \in Int /\ upload.nok \in Int
        /\ totalCount = upload.pending + upload.nok
    BY QueriesTyped, TapsFinite DEF totalCount, AbtInv, TypeOK, UploadLocals
  <1>3. upload.pending <= n
    <2>1. WithStatus("Pending") \subseteq Unsettled
      BY DEF WithStatus, Unsettled
    <2>2. Cardinality(WithStatus("Pending")) <= n /\ Cardinality(WithStatus("Pending")) \in Nat
      BY <2>1, QueriesTyped, TapsFinite, TapsCountMonotonic
    <2>3. upload.pending <= Cardinality(WithStatus("Pending"))
      BY DEF Fill, AbtInv, PendingIsCounted
    <2> QED
      BY <1>2, <2>2, <2>3
  <1>4. \A i : RowAt(i) \subseteq Unsettled
    BY DEF RowAt
  <1>5. \A i \in 1 .. totalCount :
          list[i] \in IF row[i] = 0 THEN {NoTap}
                      ELSE IF row[i] <= n THEN RowAt(row[i]) ELSE stackRows \cup {NoTap}
    BY <1>1 DEF Lists
  <1>6. \A i \in 1 .. totalCount : list[i] \in Unsettled \cup stackRows \cup {NoTap}
    BY <1>4, <1>5
  <1>9. /\ upload'.pc = "send" /\ upload'.index = 0 /\ upload'.oks = {} /\ upload'.noks = {}
        /\ upload'.list = list /\ Len(list) = totalCount /\ totalCount \in Nat
        /\ upload'.orderly => upload.nok <= 0 /\ ~refused
    BY <1>1
  <1> HIDE DEF n
  <1>7. CASE row = [i \in 1 .. totalCount |-> i] /\ ~refused
    <2>1. \A i \in 1 .. totalCount : i <= n => list[i] \in RowAt(i)
      BY <1>1, <1>2, <1>5, <1>7
    <2>2. \A i \in 1 .. upload.pending : i <= totalCount => list[i] \in Unsettled
      BY <1>1, <1>2, <1>3, <1>4, <2>1
    <2>3. upload.nok <= 0 => \A i \in 1 .. totalCount : i <= n
      BY <1>1, <1>2, <1>3
    <2>4. \A i, j \in Nat : i # j => RowAt(i) \cap RowAt(j) = {}
      BY DEF RowAt
    <2>5. upload.nok <= 0 =>
            /\ \A i \in 1 .. totalCount : list[i] \in Unsettled
            /\ \A i, j \in 1 .. totalCount : i # j => list[i] # list[j]
      BY <1>1, <1>4, <2>1, <2>3, <2>4
    <2>6. \A i \in 1 .. totalCount : upload'.list[i] \in Unsettled \cup stackRows \cup {NoTap}
      BY <1>6, <1>9
    <2>7. \A i \in 1 .. upload.pending : i <= totalCount =>
            upload'.list[i] \in Unsettled \/ (upload'.list[i] = NoTap /\ refused)
      BY <1>9, <2>2
    <2>8. upload'.orderly =>
            /\ \A i \in 1 .. totalCount : upload'.list[i] \in Unsettled
            /\ \A i, j \in 1 .. totalCount : i # j => upload'.list[i] # upload'.list[j]
      BY <1>9, <2>5
    <2>9. /\ upload'.pc = "send" /\ upload'.index = 0
          /\ upload'.oks = {} /\ upload'.noks = {}
          /\ Len(upload'.list) = totalCount /\ totalCount \in Nat
      BY <1>9
    <2> QED
      BY <2>6, <2>7, <2>8, <2>9
  <1>8. CASE refused
    <2>1. PICK got \in Nat : got <= n /\ row \in {StartedOver(got), RefusedFrom(got)}
      BY <1>8 DEF n
    <2>2. \A i \in 1 .. upload.pending : i <= totalCount => row[i] \in 0 .. n
      BY <1>1, <1>2, <1>3, <2>1 DEF StartedOver, RefusedFrom
    <2>3. \A i \in 1 .. upload.pending : i <= totalCount =>
            list[i] \in Unsettled \/ list[i] = NoTap
      <3> SUFFICES ASSUME NEW i \in 1 .. upload.pending, i <= totalCount
                   PROVE  list[i] \in Unsettled \/ list[i] = NoTap
        OBVIOUS
      <3>1. i \in 1 .. totalCount /\ row[i] \in 0 .. n
        BY <1>1, <1>2, <2>2
      <3>2. row[i] <= n
        BY <1>2, <3>1
      <3> QED
        BY <1>4, <1>5, <3>1, <3>2
    <2> QED
      BY <1>6, <1>8, <1>9, <2>3
  <1> QED
    BY <1>7, <1>8

\* The two selects fill the list in one of these ways.
LEMMA SelectFills ==
    ASSUME TypeOK, SelectUnsettled \/ SelectStepFails
    PROVE  \E row, refused :
             /\ refused \in BOOLEAN /\ Fill(row, refused)
             /\ \/ row = [i \in 1 .. totalCount |-> i] /\ ~refused
                \/ refused /\ \E got \in Nat : /\ got <= Cardinality(Unsettled)
                                               /\ row \in {StartedOver(got), RefusedFrom(got)}
             /\ refused => dbFailures' > dbFailures
  <1>1. CASE SelectUnsettled
    BY <1>1 DEF SelectUnsettled
  <1>2. CASE SelectStepFails
    <2>1. Cardinality(Unsettled) \in Nat
      BY QueriesTyped, TapsFinite
    <2>2. dbFailures' > dbFailures
      BY <1>2, AbtBounds DEF SelectStepFails, Refused, TypeOK
    <2>3. PICK got \in 0 .. Cardinality(Unsettled) :
            Fill(StartedOver(got), TRUE) \/ Fill(RefusedFrom(got), TRUE)
      BY <1>2 DEF SelectStepFails
    <2>4. got \in Nat /\ got <= Cardinality(Unsettled)
      BY <2>1
    <2> QED
      BY <2>2, <2>3, <2>4
  <1> QED
    BY <1>1, <1>2

\* A new list makes an orderly round.
LEMMA SelectInv ==
    ASSUME AbtInv, SelectUnsettled \/ SelectStepFails
    PROVE  /\ RoundIsOrderly' /\ PendingIsCounted' /\ ListedIsKnown' /\ upload'.oks = {}
           /\ \A i \in 1 .. upload.pending : i <= totalCount =>
                \/ upload'.list[i] \in Unsettled
                \/ upload'.list[i] = NoTap /\ dbFailures' > dbFailures
  <1>1. PICK row, refused :
          /\ refused \in BOOLEAN /\ Fill(row, refused)
          /\ \/ row = [i \in 1 .. totalCount |-> i] /\ ~refused
             \/ refused /\ \E got \in Nat : /\ got <= Cardinality(Unsettled)
                                            /\ row \in {StartedOver(got), RefusedFrom(got)}
          /\ refused => dbFailures' > dbFailures
    BY SelectFills DEF AbtInv
  <1>2. /\ upload'.pc = "send" /\ upload'.index = 0
        /\ upload'.oks = {} /\ upload'.noks = {}
        /\ Len(upload'.list) = totalCount /\ totalCount \in Nat
        /\ \A i \in 1 .. totalCount :
             upload'.list[i] \in Unsettled \cup stackRows \cup {NoTap}
        /\ \A i \in 1 .. upload.pending : i <= totalCount =>
             upload'.list[i] \in Unsettled \/ (upload'.list[i] = NoTap /\ refused)
        /\ upload'.orderly =>
             /\ \A i \in 1 .. totalCount : upload'.list[i] \in Unsettled
             /\ \A i, j \in 1 .. totalCount : i # j => upload'.list[i] # upload'.list[j]
    BY <1>1, FillLists
  <1>3. UNCHANGED <<AbtTransactions, accepted, stackRows>>
    BY DEF SelectUnsettled, SelectStepFails
  <1>4. Ahead' = 1 .. totalCount
    BY <1>2 DEF Ahead
  <1>5. \A s \in Unsettled : s \in Taps /\ s \in Stored /\ NotOk(s)'
    BY <1>3 DEF Unsettled, Stored, NotOk
  <1>6. RoundIsOrderly' /\ PendingIsCounted'
    BY <1>2, <1>4, <1>5 DEF RoundIsOrderly, PendingIsCounted, NotOk
  <1>7. ListedIsKnown'
    <2>1. Stored' = Stored
      BY <1>3, SameTable
    <2>2. Listed' \subseteq Unsettled \cup stackRows
      BY <1>2 DEF Listed
    <2> QED
      BY <1>3, <1>5, <2>1, <2>2 DEF ListedIsKnown, AbtInv
  <1> QED
    BY <1>1, <1>2, <1>6, <1>7

\* A batch is sent: the rest of the list is ahead, what it was answered is to be saved.
LEMMA BatchInv ==
    ASSUME AbtInv, BatchAnswered \/ BatchUnanswered
    PROVE  /\ RoundIsOrderly' /\ PendingIsCounted' /\ ListedIsKnown' /\ OkIsTaken'
           /\ \A s \in Taps : accepted[s] # Never => accepted'[s] = accepted[s]
           /\ \A s \in Taps : accepted'[s] # accepted[s] => s \in Stored
  <1> USE DEF AbtInv
  <1>1. UNCHANGED <<AbtTransactions, stackRows, today>> /\ upload.pc = "send"
        /\ upload.index < Len(upload.list)
    BY DEF BatchAnswered, BatchUnanswered, InBatch
  <1>2. Stored' = Stored /\ \A s : NotOk(s)' = NotOk(s)
    BY <1>1, SameTable
  <1>3. PICK oks, noks \in SUBSET Batch, taken \in SUBSET Batch :
          /\ oks \subseteq taken /\ oks \cap noks \subseteq SentTwice
          /\ Take(taken)
          /\ upload' = [upload EXCEPT !.pc = upload'.pc, !.index = BatchEnd, !.oks = oks,
                                      !.noks = noks]
          /\ upload'.pc # "save" => oks = {} /\ noks = {}
          /\ upload'.pc \in {"send", "save"}
    <2>1. CASE BatchAnswered
      <3>1. PICK oks, noks \in SUBSET Batch :
              /\ oks \cap noks \subseteq SentTwice /\ Take(oks)
              /\ upload' = [upload EXCEPT !.pc = "save", !.index = BatchEnd, !.oks = oks,
                                          !.noks = noks]
        BY <2>1 DEF BatchAnswered
      <3>2. upload'.pc = "save"
        BY <3>1 DEF TypeOK, UploadLocals
      <3> QED
        BY <3>1, <3>2
    <2>2. CASE BatchUnanswered
      <3>1. PICK taken \in SUBSET Batch : Take(taken)
        BY <2>2 DEF BatchUnanswered
      <3>2. upload' = [upload EXCEPT !.index = BatchEnd]
        BY <2>2 DEF BatchUnanswered
      <3>3. upload.oks = {} /\ upload.noks = {} /\ upload'.pc = "send"
        BY <1>1, <3>2 DEF RoundIsOrderly, TypeOK, UploadLocals
      <3>4. upload' = [upload EXCEPT !.pc = upload'.pc, !.index = BatchEnd, !.oks = {},
                                     !.noks = {}]
        BY <1>1, <3>2, <3>3 DEF TypeOK, UploadLocals
      <3> QED
        BY <3>1, <3>3, <3>4
    <2> QED
      BY <2>1, <2>2
  <1>4. /\ upload'.list = upload.list /\ upload'.index = BatchEnd
        /\ upload'.orderly = upload.orderly /\ upload'.oks = oks /\ upload'.noks = noks
    BY <1>3 DEF TypeOK, UploadLocals
  <1>5. /\ BatchEnd \in Nat /\ Entries \subseteq 1 .. Len(upload.list)
        /\ Batch \subseteq Listed /\ Listed \subseteq Taps
        /\ upload.index \in Nat /\ Len(upload.list) \in Nat /\ upload.index < BatchEnd
    BY <1>1, BatchTyped
  <1>6. /\ \A s \in Taps : accepted[s] # Never => accepted'[s] = accepted[s]
        /\ \A s \in Taps \cap taken : accepted'[s] # Never
        /\ \A s \in Taps : accepted'[s] \in {accepted[s], today}
        /\ \A s \in Taps \ taken : accepted'[s] = accepted[s]
    BY <1>3, TakeTyped
  <1>7. Listed' = Listed
    BY <1>4 DEF Listed
  <1>8. ListedIsKnown'
    BY <1>1, <1>2, <1>5, <1>6, <1>7 DEF ListedIsKnown, TypeOK
  <1>9. OkIsTaken'
    <2>1. \A s \in oks : s \in Taps \cap taken
      BY <1>3, <1>5
    <2> QED
      BY <1>1, <1>4, <1>6, <2>1, AbtBounds DEF OkIsTaken, TypeOK
  <1>10. Ahead' \subseteq Ahead /\ Entries \subseteq Ahead /\ Entries \cap Ahead' = {}
    BY <1>4, <1>5 DEF Ahead, Entries
  <1>11. RoundIsOrderly'
    <2>1. upload'.pc # "save" => upload'.oks \cup upload'.noks = {}
      BY <1>3, <1>4
    <2>2. ASSUME upload.orderly
          PROVE  /\ \A i \in Ahead : upload.list[i] \in Taps /\ NotOk(upload.list[i])
                 /\ \A i, j \in Ahead : i # j => upload.list[i] # upload.list[j]
      BY <2>2 DEF RoundIsOrderly
    <2>3. ASSUME upload.orderly
          PROVE  /\ \A s \in Batch : NotOk(s) /\ \A i \in Ahead' : upload.list[i] # s
                 /\ SentTwice = {}
      <3>1. \A s \in Batch : \E i \in Entries : s = upload.list[i]
        BY DEF Batch
      <3>2. \A s \in Batch : NotOk(s) /\ \A i \in Ahead' : upload.list[i] # s
        BY <1>10, <2>2, <2>3, <3>1
      <3>3. SentTwice = {}
        <4> SUFFICES ASSUME NEW s \in SentTwice PROVE FALSE
          OBVIOUS
        <4>1. PICK i, j \in Entries : i < j /\ upload.list[i] = s /\ upload.list[j] = s
          BY DEF SentTwice
        <4>2. i # j /\ i \in Ahead /\ j \in Ahead
          BY <1>5, <1>10, <4>1
        <4> QED
          BY <2>2, <2>3, <4>1, <4>2
      <3> QED
        BY <3>2, <3>3
    <2>4. ASSUME upload.orderly
          PROVE  /\ \A i \in Ahead' : upload.list[i] \in Taps /\ NotOk(upload.list[i])
                 /\ \A i, j \in Ahead' : i # j => upload.list[i] # upload.list[j]
                 /\ \A s \in oks \cup noks : NotOk(s) /\ \A i \in Ahead' : upload.list[i] # s
                 /\ oks \cap noks = {}
      BY <1>3, <1>10, <2>2, <2>3, <2>4
    <2>5. \A s : NotOk(s) => AbtTransactions'[s].host # "OK"
      BY <1>1 DEF NotOk
    <2> QED
      BY <1>4, <2>1, <2>4, <2>5 DEF RoundIsOrderly, NotOk
  <1>12. PendingIsCounted'
    BY <1>3 DEF PendingIsCounted
  <1>13. \A s \in Taps : accepted'[s] # accepted[s] => s \in Stored
    BY <1>3, <1>5, <1>6 DEF ListedIsKnown
  <1> QED
    BY <1>6, <1>8, <1>9, <1>11, <1>12, <1>13

\* An answer is saved: the row is none that is ahead, and it is OK when the tap was taken.
LEMMA SaveInv ==
    ASSUME AbtInv, TypeOK', NEW s \in Taps, NEW result \in Rejections \cup {"OK"},
           SaveResponse(s, result)
    PROVE  AbtInv'
  <1> USE DEF AbtInv
  <1>1. /\ Stored' = Stored /\ OkAndOld' \subseteq OkAndOld
        /\ s \in Stored => /\ AbtTransactions'[s].host = result
                           /\ AbtTransactions'[s].days = today
        /\ s \notin Stored => AbtTransactions'[s] = AbtTransactions[s]
        /\ \A r \in Taps \ {s} : AbtTransactions'[r] = AbtTransactions[r]
        /\ result # "Pending"
    BY SaveUpdatesRow
  <1>2. UNCHANGED <<trx, tapped, accepted, cleaning, today, stackRows>>
    BY DEF SaveResponse, tapVars
  <1>3. /\ upload.pc = "save" /\ upload'.pc = "save"
        /\ upload'.list = upload.list /\ upload'.index = upload.index
        /\ upload'.orderly = upload.orderly
        /\ upload'.oks = (IF result = "OK" THEN upload.oks \ {s} ELSE upload.oks)
        /\ upload'.noks = (IF result = "OK" THEN upload.noks ELSE upload.noks \ {s})
        /\ s \in IF result = "OK" THEN upload.oks ELSE upload.noks
    <2>1. Answer(s, result)
      BY DEF SaveResponse
    <2> QED
      BY <2>1, AnswerTyped
  <1>4. Listed' = Listed /\ Past' = Past /\ Ahead' = Ahead
    BY <1>2, <1>3 DEF Listed, Past, Ahead
  <1>5. RowsArePast' /\ ListedIsKnown'
    BY <1>1, <1>2, <1>4 DEF RowsArePast, ListedIsKnown
  <1>6. OkIsTaken'
    BY <1>1, <1>2, <1>3 DEF OkIsTaken
  <1>7. CleanupIsTaken'
    BY <1>1, <1>2, <1>4 DEF CleanupIsTaken, TypeOK, CleaningLocals
  <1>8. CleanupIsCounted'
    <2>1. /\ Cardinality(OkAndOld') <= Cardinality(OkAndOld)
          /\ Cardinality(OkAndOld') \in Nat /\ Cardinality(OkAndOld) \in Nat
      BY <1>1, QueriesTyped, TapsFinite, TapsCountMonotonic
    <2>2. cleaning.count \in Int
      BY DEF TypeOK, CleaningLocals
    <2> QED
      BY <1>2, <2>1, <2>2 DEF CleanupIsCounted
  <1>9. PendingIsCounted'
    BY <1>3 DEF PendingIsCounted
  <1>10. RoundIsOrderly'
    <2>1. \A r \in Taps \ {s} : NotOk(r) => NotOk(r)'
      BY <1>1 DEF NotOk
    <2>2. upload.oks \cup upload.noks \subseteq Taps
      BY DEF TypeOK, UploadLocals
    <2>3. ASSUME upload.orderly
          PROVE  /\ \A i \in Ahead : upload.list[i] \in Taps /\ NotOk(upload.list[i])'
                 /\ \A r \in upload'.oks \cup upload'.noks :
                      NotOk(r)' /\ \A i \in Ahead : upload.list[i] # r
                 /\ upload'.oks \cap upload'.noks = {}
      <3>1. /\ \A i \in Ahead : upload.list[i] \in Taps /\ NotOk(upload.list[i])
            /\ \A r \in upload.oks \cup upload.noks :
                 NotOk(r) /\ \A i \in Ahead : upload.list[i] # r
            /\ upload.oks \cap upload.noks = {}
        BY <2>3 DEF RoundIsOrderly
      <3>2. s \in upload.oks \cup upload.noks
        BY <1>3
      <3>3. \A i \in Ahead : upload.list[i] \in Taps \ {s}
        BY <3>1, <3>2
      <3>4. upload'.oks \cup upload'.noks \subseteq (upload.oks \cup upload.noks) \ {s}
            /\ upload'.oks \cap upload'.noks = {}
        BY <1>3, <3>1
      <3>5. \A i \in Ahead : NotOk(upload.list[i])'
        <4> SUFFICES ASSUME NEW i \in Ahead PROVE AbtTransactions'[upload.list[i]].host # "OK"
          BY <1>3 DEF NotOk
        <4> QED
          BY <2>1, <3>1, <3>3 DEF NotOk
      <3>6. \A r \in upload'.oks \cup upload'.noks : r \in Taps \ {s} /\ NotOk(r)'
        BY <2>1, <2>2, <3>1, <3>4
      <3> QED
        BY <3>1, <3>3, <3>4, <3>5, <3>6
    <2>4. upload.orderly => \A i, j \in Ahead : i # j => upload.list[i] # upload.list[j]
      BY DEF RoundIsOrderly
    <2> QED
      BY <1>3, <1>4, <2>3, <2>4 DEF RoundIsOrderly, NotOk
  <1> QED
    BY <1>5, <1>6, <1>7, <1>8, <1>9, <1>10

\* A round that ends, or a restart, leaves nothing listed.
LEMMA AsleepAgain ==
    ASSUME upload' = Asleep
    PROVE  RoundIsOrderly' /\ PendingIsCounted' /\ Listed' = {} /\ upload'.oks = {}
  <1>1. upload'.list = <<>> /\ upload'.index = 0 /\ upload'.pc = "sleep"
        /\ upload'.oks = {} /\ upload'.noks = {}
    BY DEF Asleep
  <1>2. Ahead' = {} /\ Listed' = {}
    BY <1>1 DEF Ahead, Listed
  <1> QED
    BY <1>1, <1>2 DEF RoundIsOrderly, PendingIsCounted

\* The steps of a round that neither list, send nor write a row.
LEMMA RoundInv ==
    ASSUME AbtInv,
           \/ CountPending \/ CountNok \/ CountFails
           \/ NothingToUpload \/ SelectFails \/ BatchDone \/ EndRound
           \/ \E s \in Taps, result \in Rejections \cup {"OK"} : SaveFails(s, result)
    PROVE  /\ RoundIsOrderly' /\ PendingIsCounted' /\ ListedIsKnown'
           /\ upload'.oks \subseteq upload.oks
  <1> USE DEF AbtInv
  <1>1. UNCHANGED <<AbtTransactions, accepted>>
    BY DEF CountPending, CountNok, CountFails, NothingToUpload, SelectFails, BatchDone,
           EndRound, SaveFails
  <1>2. /\ Stored' = Stored /\ WithStatus("Pending")' = WithStatus("Pending")
        /\ \A s : NotOk(s)' = NotOk(s)
    BY <1>1, SameTable
  <1>3. Cardinality(WithStatus("Pending")) \in Nat /\ upload.pending \in Int
    BY QueriesTyped, TapsFinite DEF TypeOK, UploadLocals
  <1>4. CASE CountPending \/ CountNok \/ CountFails
    <2>1. /\ UNCHANGED stackRows
          /\ upload'.list = upload.list /\ upload'.index = upload.index
          /\ upload'.orderly = upload.orderly
          /\ upload'.oks = upload.oks /\ upload'.noks = upload.noks
          /\ upload.pc # "save" /\ upload'.pc \in {"nok", "select"}
      BY <1>4 DEF CountPending, CountNok, CountFails, TypeOK, UploadLocals
    <2>2. upload'.pending <= Cardinality(WithStatus("Pending"))
      <3>1. CASE CountPending
        BY <1>3, <3>1 DEF CountPending, TypeOK, UploadLocals
      <3>2. CASE CountNok
        BY <3>2 DEF CountNok, PendingIsCounted, TypeOK, UploadLocals
      <3>3. CASE CountFails
        <4>1. PICK count \in RefusedCount :
                upload' = IF upload.pc = "sleep"
                          THEN [upload EXCEPT !.pc = "nok", !.pending = count]
                          ELSE [upload EXCEPT !.pc = "select", !.nok = count]
          BY <3>3 DEF CountFails
        <4>2. upload.pc # "sleep" => upload.pc = "nok"
          BY <3>3 DEF CountFails
        <4>3. upload'.pending = (IF upload.pc = "sleep" THEN count ELSE upload.pending)
          BY <4>1 DEF TypeOK, UploadLocals
        <4>4. count <= Cardinality(WithStatus("Pending"))
          BY <1>3 DEF RefusedCount
        <4> QED
          BY <4>2, <4>3, <4>4 DEF PendingIsCounted
      <3> QED
        BY <1>4, <3>1, <3>2, <3>3
    <2>3. Ahead' = Ahead /\ Listed' = Listed
      BY <2>1 DEF Ahead, Listed
    <2>4. RoundIsOrderly'
      BY <1>2, <2>1, <2>3 DEF RoundIsOrderly
    <2> QED
      BY <1>1, <1>2, <2>1, <2>2, <2>3, <2>4 DEF PendingIsCounted, ListedIsKnown
  <1>5. CASE NothingToUpload \/ SelectFails \/ EndRound
    <2>1. upload' = Asleep /\ stackRows' \subseteq stackRows \cup Listed
      BY <1>5 DEF NothingToUpload, SelectFails, EndRound
    <2>2. RoundIsOrderly' /\ PendingIsCounted' /\ Listed' = {} /\ upload'.oks = {}
      BY <2>1, AsleepAgain
    <2> QED
      BY <1>1, <1>2, <2>1, <2>2 DEF ListedIsKnown
  <1>6. CASE BatchDone \/ \E s \in Taps, result \in Rejections \cup {"OK"} : SaveFails(s, result)
    <2>1. /\ UNCHANGED stackRows
          /\ upload'.list = upload.list /\ upload'.index = upload.index
          /\ upload'.orderly = upload.orderly
          /\ upload'.oks \subseteq upload.oks /\ upload'.noks \subseteq upload.noks
          /\ upload'.pc \in {"save", "send"}
          /\ upload'.pc # "save" => upload'.oks \cup upload'.noks = {}
      <3>1. CASE BatchDone
        BY <3>1 DEF BatchDone, TypeOK, UploadLocals
      <3>2. ASSUME NEW s \in Taps, NEW result \in Rejections \cup {"OK"}, SaveFails(s, result)
            PROVE  /\ UNCHANGED stackRows /\ upload'.pc = "save"
                   /\ upload'.list = upload.list /\ upload'.index = upload.index
                   /\ upload'.orderly = upload.orderly
                   /\ upload'.oks \subseteq upload.oks /\ upload'.noks \subseteq upload.noks
        <4>1. Answer(s, result) /\ UNCHANGED stackRows
          BY <3>2 DEF SaveFails
        <4> QED
          BY <4>1, AnswerTyped
      <3> QED
        BY <1>6, <3>1, <3>2
    <2>2. Ahead' = Ahead /\ Listed' = Listed
      BY <2>1 DEF Ahead, Listed
    <2>3. RoundIsOrderly'
      BY <1>2, <2>1, <2>2 DEF RoundIsOrderly
    <2> QED
      BY <1>1, <1>2, <2>1, <2>2, <2>3 DEF PendingIsCounted, ListedIsKnown
  <1> QED
    BY <1>4, <1>5, <1>6

\* Every step of the ABT thread keeps the invariant.
LEMMA UploadStepInv ==
    ASSUME AbtInv, TypeOK', UploadStep
    PROVE  AbtInv'
  <1> USE DEF AbtInv
  <1>1. UNCHANGED <<trx, tapped, cleaning, today>>
    BY UploadFrame
  <1>2. CASE \E s \in Taps, result \in Rejections \cup {"OK"} : SaveResponse(s, result)
    BY <1>2, SaveInv
  <1>3. CASE ~\E s \in Taps, result \in Rejections \cup {"OK"} : SaveResponse(s, result)
    <2>1. UNCHANGED AbtTransactions
      BY <1>3 DEF UploadStep, CountPending, CountNok, CountFails, SelectUnsettled,
                  NothingToUpload, SelectFails, SelectStepFails, BatchAnswered,
                  BatchUnanswered, SaveFails, BatchDone, EndRound
    <2>2. Stored' = Stored /\ OkAndOld' = OkAndOld /\ Past' = Past
      BY <1>1, <2>1, SameTable DEF Past
    <2>3. RowsArePast' /\ CleanupIsCounted'
      BY <1>1, <2>2 DEF RowsArePast, CleanupIsCounted
    <2>4. ASSUME \A s \in Taps : accepted[s] # Never => accepted'[s] = accepted[s]
          PROVE  CleanupIsTaken'
      BY <1>1, <2>1, <2>2, <2>4 DEF CleanupIsTaken, TypeOK, CleaningLocals
    <2>5. ASSUME UNCHANGED accepted, upload'.oks \subseteq upload.oks
          PROVE  OkIsTaken'
      BY <1>1, <2>1, <2>5 DEF OkIsTaken
    <2>6. CASE BatchAnswered \/ BatchUnanswered
      BY <2>3, <2>4, <2>6, BatchInv
    <2>7. CASE SelectUnsettled \/ SelectStepFails
      <3>1. UNCHANGED accepted
        BY <2>7 DEF SelectUnsettled, SelectStepFails
      <3>2. RoundIsOrderly' /\ PendingIsCounted' /\ ListedIsKnown' /\ upload'.oks = {}
        BY <2>7, SelectInv
      <3> QED
        BY <2>3, <2>4, <2>5, <3>1, <3>2
    <2>8. CASE \/ CountPending \/ CountNok \/ CountFails
               \/ NothingToUpload \/ SelectFails \/ BatchDone \/ EndRound
               \/ \E s \in Taps, result \in Rejections \cup {"OK"} : SaveFails(s, result)
      <3>1. UNCHANGED accepted
        BY <2>8 DEF CountPending, CountNok, CountFails, NothingToUpload, SelectFails,
                    BatchDone, EndRound, SaveFails
      <3>2. RoundIsOrderly' /\ PendingIsCounted' /\ ListedIsKnown'
            /\ upload'.oks \subseteq upload.oks
        BY <2>8, RoundInv
      <3> QED
        BY <2>3, <2>4, <2>5, <3>1, <3>2
    <2> QED
      BY <1>3, <2>6, <2>7, <2>8 DEF UploadStep
  <1> QED
    BY <1>2, <1>3

\* A day makes what was taken older; a restart finds the table as it was left.
LEMMA WorldStepInv ==
    ASSUME AbtInv, TypeOK', NextDay \/ Restart \/ UNCHANGED vars
    PROVE  AbtInv'
  <1> USE DEF AbtInv
  <1>1. UNCHANGED <<AbtTransactions, tapped, accepted>>
    BY DEF NextDay, Restart, vars, tapVars
  <1>2. /\ Stored' = Stored /\ WithStatus("Pending")' = WithStatus("Pending")
        /\ \A s : NotOk(s)' = NotOk(s)
        /\ today' = today => OkAndOld' = OkAndOld
    BY <1>1, SameTable
  <1>3. CASE NextDay \/ UNCHANGED vars
    <2>1. /\ UNCHANGED <<trx, upload, stackRows, cleaning>> /\ today' \in {today, today + 1}
          /\ today' # today => cleaning.pc # "select"
      BY <1>3 DEF NextDay, vars, tapVars, uploadVars
    <2>2. today \in Int /\ Retention \in Int /\ \A s \in Taps : accepted[s] \in Int
      BY AbtBounds, AbtConfiguration DEF TypeOK, Never
    <2>3. Past' = Past /\ Listed' = Listed
      BY <1>1, <2>1 DEF Past, Listed
    <2>4. RowsArePast' /\ ListedIsKnown'
      BY <1>1, <1>2, <2>1, <2>3 DEF RowsArePast, ListedIsKnown
    <2>5. OkIsTaken'
      BY <1>1, <2>1, <2>2 DEF OkIsTaken
    <2>6. CleanupIsTaken'
      <3>1. \A s \in Taps : today - accepted[s] > Retention => today' - accepted[s] > Retention
        BY <2>1, <2>2
      <3>2. cleaning.listed \subseteq Taps
        BY DEF TypeOK, CleaningLocals
      <3> QED
        BY <1>1, <2>1, <2>3, <3>1, <3>2 DEF CleanupIsTaken
    <2>7. CleanupIsCounted'
      BY <1>2, <2>1 DEF CleanupIsCounted
    <2>8. PendingIsCounted'
      BY <1>2, <2>1, PendingStaysCounted
    <2>9. RoundIsOrderly'
      BY <1>2, <2>1, RoundStays
    <2> QED
      BY <2>4, <2>5, <2>6, <2>7, <2>8, <2>9
  <1>4. CASE Restart
    <2>1. upload' = Asleep /\ stackRows' = {} /\ trx' = Idle /\ today' = today
          /\ cleaning' = Resting
      BY <1>4 DEF Restart
    <2>2. RoundIsOrderly' /\ PendingIsCounted' /\ Listed' = {} /\ upload'.oks = {}
      BY <2>1, AsleepAgain
    <2>3. trx'.pc = "idle" /\ cleaning'.listed = {} /\ cleaning'.pc = "rest"
      BY <2>1 DEF Idle, Resting
    <2>4. RowsArePast'
      <3>1. Past' = 1 .. tapped /\ Past \subseteq 1 .. tapped
        BY <1>1, <2>3 DEF Past, TypeOK
      <3> QED
        BY <1>2, <2>3, <3>1 DEF RowsArePast
    <2>5. OkIsTaken'
      BY <1>1, <2>1, <2>2 DEF OkIsTaken
    <2> QED
      BY <2>1, <2>2, <2>3, <2>4, <2>5 DEF CleanupIsTaken, CleanupIsCounted, ListedIsKnown
  <1> QED
    BY <1>3, <1>4

LEMMA NextAbtInv == ASSUME AbtInv, [Next]_vars, TypeOK' PROVE AbtInv'
  BY TapStepInv, UploadStepInv, CleaningStepInv, WorldStepInv DEF Next

\* The invariant of the three threads that share the table.
THEOREM AbtInvariant == Safety => []AbtInv
  <1>1. Init => AbtInv
    BY InitAbtInv
  <1>2. AbtInv /\ [Next]_vars /\ TypeOK' => AbtInv'
    BY NextAbtInv
  <1> QED
    BY <1>1, <1>2, AbtTypeCorrect, PTL DEF Safety

\* As many entries of the list as pending rows were counted are filled with rows, or with an
\* empty one where a step was refused, for every order of inserts, uploads and clean-ups.
THEOREM PendingRowsAreListed == Safety => PendingAreListed
  <1>1. AbtInv /\ [Next]_vars =>
          [\A i \in 1 .. upload.pending :
              upload.pc = "select" /\ upload'.pc = "send" /\ i <= totalCount =>
                \/ upload'.list[i] \in Unsettled
                \/ upload'.list[i] = NoTap /\ dbFailures' > dbFailures]_vars
    <2> SUFFICES ASSUME AbtInv, [Next]_vars, upload.pc = "select", upload'.pc = "send"
                 PROVE  \A i \in 1 .. upload.pending : i <= totalCount =>
                          \/ upload'.list[i] \in Unsettled
                          \/ upload'.list[i] = NoTap /\ dbFailures' > dbFailures
      BY Zenon
    <2>1. SelectUnsettled \/ SelectStepFails
      <3>1. upload' # upload
        OBVIOUS
      <3>2. UploadStep \/ Restart
        BY <3>1, TapFrame, CleaningFrame DEF Next, NextDay, vars, uploadVars
      <3>3. ~Restart /\ ~NothingToUpload /\ ~SelectFails /\ ~EndRound
        BY DEF Restart, NothingToUpload, SelectFails, EndRound, Asleep
      <3>4. /\ ~CountPending /\ ~CountNok /\ ~CountFails /\ ~BatchAnswered /\ ~BatchUnanswered
            /\ ~BatchDone
        BY DEF CountPending, CountNok, CountFails, BatchAnswered, BatchUnanswered, InBatch,
               BatchDone
      <3>5. ~\E s \in Taps, result \in Rejections \cup {"OK"} :
                SaveResponse(s, result) \/ SaveFails(s, result)
        BY DEF SaveResponse, SaveFails, Answer
      <3> QED
        BY <3>2, <3>3, <3>4, <3>5 DEF UploadStep
    <2> QED
      BY <2>1, SelectInv
  <1> QED
    BY <1>1, AbtInvariant, PTL DEF Safety, PendingAreListed

\* The ids to delete fit the list that was sized for them by a count of its own.
THEOREM CleanupFits == Safety => CleanupListFits
  <1>1. AbtInv /\ [Next]_vars =>
          [cleaning.pc = "select" /\ ~cleaning.refused
           /\ cleaning'.pc = "delete" /\ UNCHANGED dbFailures =>
              Cardinality(cleaning'.listed) <= cleaning.count + 1]_vars
    <2> SUFFICES ASSUME AbtInv, [Next]_vars, cleaning.pc = "select", ~cleaning.refused,
                        cleaning'.pc = "delete", UNCHANGED dbFailures
                 PROVE  Cardinality(cleaning'.listed) <= cleaning.count + 1
      BY Zenon
    <2>1. SelectOld
      <3>1. cleaning' # cleaning
        OBVIOUS
      <3>2. CleaningStep \/ Restart
        BY <3>1, TapFrame, UploadFrame DEF Next, NextDay, vars
      <3>3. ~Restart /\ ~EndCleaning /\ ~SelectOldFails
        BY DEF Restart, EndCleaning, SelectOldFails, Resting
      <3>4. ~SelectOldStepFails
        BY DEF SelectOldStepFails, Refused, AbtInv, TypeOK
      <3>5. ~CountOld /\ ~CountOldFails /\ ~\E s \in Taps : DeleteTap(s) \/ DeleteFails(s)
        BY DEF CountOld, CountOldFails, DeleteTap, DeleteFails, NextToDelete
      <3> QED
        BY <3>2, <3>3, <3>4, <3>5 DEF CleaningStep
    <2>2. cleaning'.listed = OkAndOld
      BY <2>1, SelectedOldTyped DEF SelectOld
    <2>3. Cardinality(OkAndOld) <= cleaning.count
      BY DEF AbtInv, CleanupIsCounted
    <2>4. Cardinality(OkAndOld) \in Nat /\ cleaning.count \in Int
      BY QueriesTyped, TapsFinite DEF AbtInv, TypeOK, CleaningLocals
    <2> QED
      BY <2>2, <2>3, <2>4
  <1> QED
    BY <1>1, AbtInvariant, PTL DEF Safety, CleanupListFits

-----------------------------------------------------------------------------
(* What happens to a row: it is stored as pending, gets the answers of the  *)
(* back office, and is deleted when that has long accepted it.              *)

\* Only the insert, the update and the delete write the table.
LEMMA TableWriters ==
    ASSUME [Next]_vars
    PROVE  \/ StoreTap
           \/ \E r \in Taps, result \in Rejections \cup {"OK"} : SaveResponse(r, result)
           \/ \E r \in Taps : DeleteTap(r)
           \/ UNCHANGED AbtTransactions
  <1>1. NextDay \/ Restart \/ UNCHANGED vars => UNCHANGED AbtTransactions
    BY DEF NextDay, Restart, vars
  <1>2. TapPresented \/ TapStep \/ GateStep \/ (\E status \in Statuses : AnswerTap(status))
          => StoreTap \/ UNCHANGED AbtTransactions
    BY TapFrame
  <1>3. UploadStep =>
          \/ \E r \in Taps, result \in Rejections \cup {"OK"} : SaveResponse(r, result)
          \/ UNCHANGED AbtTransactions
    BY DEF UploadStep, CountPending, CountNok, CountFails, SelectUnsettled, NothingToUpload,
           SelectFails, SelectStepFails, BatchAnswered, BatchUnanswered, SaveFails, BatchDone,
           EndRound
  <1>4. CleaningStep => (\E r \in Taps : DeleteTap(r)) \/ UNCHANGED AbtTransactions
    BY CleaningFrame
  <1> QED
    BY <1>1, <1>2, <1>3, <1>4 DEF Next

\* What the back office accepted stays accepted, whatever is answered late, in a round whose
\* list is orderly.
THEOREM AcceptedIsFinal == Safety => OkIsFinal
  <1>1. AbtInv /\ [Next]_vars =>
          [upload.orderly => \A s \in Taps : AbtTransactions[s].host = "OK" =>
              AbtTransactions'[s] \in {AbtTransactions[s], NoRow}]_vars
    <2> SUFFICES ASSUME AbtInv, [Next]_vars, upload.orderly,
                        NEW s \in Taps, AbtTransactions[s].host = "OK"
                 PROVE  AbtTransactions'[s] \in {AbtTransactions[s], NoRow}
      BY Zenon
    <2>1. s \in Stored
      BY DEF Stored, NoRow
    <2>2. CASE StoreTap
      BY <2>1, <2>2, StoreAddsTap DEF AbtInv
    <2>3. ASSUME NEW r \in Taps, NEW result \in Rejections \cup {"OK"}, SaveResponse(r, result)
          PROVE  AbtTransactions'[s] = AbtTransactions[s]
      <3>1. r \in upload.oks \cup upload.noks
        BY <2>3, AnswerTyped DEF SaveResponse, AbtInv
      <3>2. r # s
        BY <3>1 DEF AbtInv, RoundIsOrderly, NotOk
      <3> QED
        BY <2>3, <3>2, SaveUpdatesRow DEF AbtInv
    <2>4. ASSUME NEW r \in Taps, DeleteTap(r)
          PROVE  AbtTransactions'[s] \in {AbtTransactions[s], NoRow}
      BY <2>4, DeleteDropsOld DEF AbtInv
    <2> QED
      BY <2>2, <2>3, <2>4, TableWriters
  <1> QED
    BY <1>1, AbtInvariant, PTL DEF Safety, OkIsFinal

\* A tap is deleted only when the back office took it longer ago than the retention period,
\* whatever it answers a tap it is sent again.
THEOREM KeptLongEnough == Safety => KeptForRetention
  <1>1. AbtInv /\ [Next]_vars =>
          [\A s \in Stored : AbtTransactions'[s] = NoRow =>
              accepted[s] # Never /\ today - accepted[s] > Retention]_vars
    <2> SUFFICES ASSUME AbtInv, [Next]_vars, NEW s \in Stored, AbtTransactions'[s] = NoRow
                 PROVE  accepted[s] # Never /\ today - accepted[s] > Retention
      BY Zenon
    <2>1. s \in Taps /\ AbtTransactions[s] # NoRow /\ s \notin Stored'
      BY DEF Stored
    <2>2. ~StoreTap /\ AbtTransactions' # AbtTransactions
      BY <2>1, StoreAddsTap DEF AbtInv
    <2>3. ~\E r \in Taps, result \in Rejections \cup {"OK"} : SaveResponse(r, result)
      BY <2>1, SaveUpdatesRow DEF AbtInv
    <2>4. PICK r \in Taps : DeleteTap(r)
      BY <2>2, <2>3, TableWriters
    <2>5. r \in cleaning.listed /\ \A t \in Taps \ {r} : AbtTransactions'[t] = AbtTransactions[t]
      BY <2>4, DeleteDropsOld DEF AbtInv
    <2>6. s = r
      BY <2>1, <2>5
    <2> QED
      BY <2>5, <2>6 DEF AbtInv, CleanupIsTaken
  <1> QED
    BY <1>1, AbtInvariant, PTL DEF Safety, KeptForRetention
-----------------------------------------------------------------------------
(* The gate.                                                               *)

\* An open status comes from a validator that opened the gate, for a tap that was there.
GateInv ==
    /\ opened \subseteq 1 .. tapped /\ toOpen \in 0 .. tapped
    /\ handler.pc # "free" /\ handler.status => opened # {}
    /\ gateOpenStatus => opened # {}
    /\ trx.pc = "store" /\ trx.gate => opened # {}

LEMMA GateStepInv ==
    ASSUME TypeOK, GateInv, [Next]_vars
    PROVE  GateInv'
  <1> USE DEF GateInv, TypeOK
  <1>1. tapped \in Nat
    BY AbtBounds
  <1>2. CASE TapPresented
    BY <1>1, <1>2 DEF TapPresented, Idle, uploadVars
  <1>3. CASE TapStep
    <2>1. UNCHANGED <<tapped, gateVars>>
      BY <1>3 DEF TapStep, SeeGateOpen, ReadGateStatus, GateTimeout, StoreTap, StoreTapFails,
                  LeaveTap
    <2>2. trx'.pc = "store" /\ trx'.gate => opened # {}
      BY <1>3 DEF TapStep, SeeGateOpen, ReadGateStatus, GateTimeout, GateAfterTimeout,
                  StoreTap, StoreTapFails, LeaveTap, Idle, TrxLocals
    <2> QED
      BY <2>1, <2>2 DEF gateVars
  <1>4. ASSUME NEW status \in Statuses, AnswerTap(status)
        PROVE  GateInv'
    <2>1. toOpen # 0 /\ toOpen' = 0 /\ UNCHANGED <<tapVars, gateOpenStatus>>
      BY <1>4 DEF AnswerTap, NoTap
    <2>2. opened' \subseteq 1 .. tapped /\ opened \subseteq opened' /\ (status => opened' # {})
      <3>1. toOpen \in 1 .. tapped
        BY <1>1, <2>1
      <3> QED
        BY <1>4, <3>1 DEF AnswerTap
    <2>3. handler' = [pc |-> "check", status |-> status]
      BY <1>4 DEF AnswerTap
    <2>4. UNCHANGED <<tapped, trx>>
      BY <2>1 DEF tapVars
    <2>5. opened # {} => opened' # {}
      BY <2>2
    <2>6. handler'.status => opened' # {}
      BY <2>2, <2>3
    <2>7. toOpen' \in 0 .. tapped
      BY <1>1, <2>1
    <2> QED
      BY <2>1, <2>2, <2>4, <2>5, <2>6, <2>7
  <1>5. CASE GateStep
    BY <1>5 DEF GateStep, CheckPresented, SetGateStatus, SetGateFlag, Free, HandlerLocals,
                tapVars
  <1>6. CASE Restart
    BY <1>1, <1>6 DEF Restart, Idle, Free, NoTap
  <1>7. CASE UploadStep \/ CleaningStep \/ NextDay \/ UNCHANGED vars
    <2>1. UNCHANGED <<tapped, trx, gateOpenStatus, handler, toOpen, opened>>
      BY <1>7, UploadFrame, CleaningFrame DEF NextDay, vars, tapVars, gateVars
    <2> QED
      BY <2>1
  <1> QED
    BY <1>2, <1>3, <1>4, <1>5, <1>6, <1>7 DEF Next

\* A stored row has the gate status it was stored with.
LEMMA GateOfRow ==
    ASSUME TypeOK, [Next]_vars, NEW s \in Stored'
    PROVE  \/ s \in Stored /\ AbtTransactions'[s].gate = AbtTransactions[s].gate
           \/ StoreTap /\ s = tapped /\ AbtTransactions'[s].gate = trx.gate
  <1>1. s \in Taps /\ AbtTransactions'[s] # NoRow
    BY DEF Stored
  <1>2. CASE StoreTap
    <2>1. AbtTransactions'[s] = IF s = tapped
                                THEN [host |-> "Pending", gate |-> trx.gate, days |-> 0]
                                ELSE AbtTransactions[s]
      BY <1>1, <1>2 DEF StoreTap, TypeOK
    <2> QED
      BY <1>1, <1>2, <2>1 DEF Stored
  <1>3. ASSUME NEW r \in Taps, NEW result \in Rejections \cup {"OK"}, SaveResponse(r, result)
        PROVE  s \in Stored /\ AbtTransactions'[s].gate = AbtTransactions[s].gate
    <2>1. CASE r \in Stored
      <3>1. AbtTransactions[r] \in Row
        BY <2>1 DEF Stored, TypeOK
      <3>2. AbtTransactions' =
              [AbtTransactions EXCEPT ![r] =
                 [[AbtTransactions[r] EXCEPT !.host = SavedStatus(result)] EXCEPT !.days = today]]
        BY <1>3, <2>1 DEF SaveResponse
      <3>3. AbtTransactions'[r].gate = AbtTransactions[r].gate
        BY <3>1, <3>2 DEF TypeOK, Row
      <3>4. s # r => AbtTransactions'[s] = AbtTransactions[s]
        BY <1>1, <3>2 DEF TypeOK
      <3> QED
        BY <1>1, <2>1, <3>3, <3>4 DEF Stored
    <2>2. CASE r \notin Stored
      BY <1>1, <1>3, <2>2 DEF SaveResponse, Stored
    <2> QED
      BY <2>1, <2>2
  <1>4. ASSUME NEW r \in Taps, DeleteTap(r)
        PROVE  s \in Stored /\ AbtTransactions'[s].gate = AbtTransactions[s].gate
    <2>1. AbtTransactions'[s] = AbtTransactions[s]
      BY <1>1, <1>4 DEF DeleteTap, TypeOK
    <2> QED
      BY <1>1, <2>1 DEF Stored
  <1>5. CASE UNCHANGED AbtTransactions
    BY <1>5 DEF Stored
  <1> QED
    BY <1>2, <1>3, <1>4, <1>5, TableWriters

\* A tap recorded with an open gate had a validator that opened it, for this tap or one
\* before; silence is never taken for an opening (abtmanager.c 80).
OpenNeedsAnswer ==
    \A s \in Stored : AbtTransactions[s].gate => \E r \in opened : r <= s

\* No tap is recorded as open unless a validator answered open, for this tap or one
\* before it.
THEOREM OpeningWasAnswered == Safety => []OpenNeedsAnswer
  <1>1. Init => GateInv /\ OpenNeedsAnswer
    BY DEF Init, GateInv, OpenNeedsAnswer, Stored, Idle, Free, NoTap
  <1>2. ASSUME TypeOK, GateInv, OpenNeedsAnswer, [Next]_vars
        PROVE  OpenNeedsAnswer'
    <2>1. opened \subseteq opened'
      BY <1>2, UploadFrame, CleaningFrame
         DEF Next, TapPresented, TapStep, SeeGateOpen, ReadGateStatus, GateTimeout,
             StoreTap, StoreTapFails, LeaveTap, AnswerTap, GateStep, CheckPresented,
             SetGateStatus, SetGateFlag, NextDay, Restart, vars, gateVars
    <2>2. ASSUME NEW s \in Stored', AbtTransactions'[s].gate
          PROVE  \E r \in opened' : r <= s
      <3>1. CASE s \in Stored /\ AbtTransactions[s].gate
        BY <1>2, <2>1, <3>1 DEF OpenNeedsAnswer
      <3>2. CASE StoreTap /\ s = tapped /\ trx.gate
        <4>1. opened # {} /\ opened \subseteq 1 .. tapped
          BY <1>2, <3>2 DEF GateInv, StoreTap
        <4>2. PICK r \in opened : r \in 1 .. tapped
          BY <4>1
        <4>3. r <= s
          BY <3>2, <4>2
        <4> QED
          BY <2>1, <4>3
      <3> QED
        BY <1>2, <2>2, <3>1, <3>2, GateOfRow
    <2> QED
      BY <2>2 DEF OpenNeedsAnswer
  <1>3. TypeOK /\ GateInv /\ OpenNeedsAnswer /\ [Next]_vars => GateInv' /\ OpenNeedsAnswer'
    BY <1>2, GateStepInv
  <1> QED
    BY <1>1, <1>3, AbtTypeCorrect, PTL DEF Safety

-----------------------------------------------------------------------------
(* AbtTap implements SaleLedger.                                           *)

\* What the ledger sees of a state: the taps that are held, and the incidents left.
Held == Stored \cup InFlight
IncidentsLeft == (MaxCrashes - crashes) + (MaxDbFailures - dbFailures)

\* The bounds, as the steps of the ledger need them.
LEMMA LedgerBounds ==
    ASSUME AbtInv
    PROVE  /\ tapped \in Nat /\ tapped <= MaxTaps /\ MaxTaps \in Nat \ {0}
           /\ crashes \in Nat /\ crashes <= MaxCrashes /\ MaxCrashes \in Nat
           /\ dbFailures \in Nat /\ dbFailures <= MaxDbFailures /\ MaxDbFailures \in Nat
           /\ 1 \in Taps
           /\ Stored \subseteq 1 .. tapped
           /\ InFlight \subseteq (1 .. tapped) \ Stored
           /\ 1 .. tapped \subseteq Taps
  <1>1. /\ tapped \in Nat /\ tapped <= MaxTaps /\ MaxTaps \in Nat \ {0}
        /\ crashes \in Nat /\ crashes <= MaxCrashes /\ MaxCrashes \in Nat
        /\ dbFailures \in Nat /\ dbFailures <= MaxDbFailures /\ MaxDbFailures \in Nat
    BY AbtBounds DEF AbtInv, TypeOK
  <1>2. 1 \in Taps /\ 1 .. tapped \subseteq Taps
    BY <1>1 DEF Taps
  <1>3. Stored \subseteq 1 .. tapped /\ InFlight \subseteq (1 .. tapped) \ Stored
    BY <1>1 DEF AbtInv, RowsArePast, Past, InFlight, Taps
  <1> QED
    BY <1>1, <1>2, <1>3

\* A step the ledger does not see.
LEMMA LedgerStutters ==
    ASSUME UNCHANGED <<tapped, accepted, crashes, dbFailures>>, Held' = Held
    PROVE  UNCHANGED Ledger!ledgerVars
  BY DEF Ledger!ledgerVars, Held

\* An incident forgets at most one tap.
LEMMA LedgerForgets ==
    ASSUME UNCHANGED <<tapped, accepted>>, IncidentsLeft > 0,
           IncidentsLeft' = IncidentsLeft - 1,
           NEW s \in Taps, Held' \in {Held, Held \ {s}}
    PROVE  Ledger!LedgerNext
  <1>1. Ledger!Incident(s)
    BY DEF Ledger!Incident, Held, IncidentsLeft
  <1> QED
    BY <1>1 DEF Ledger!LedgerNext

\* A tap that is reported is taken; one that is stored stays held.
LEMMA TapStepLedger ==
    ASSUME AbtInv,
           TapPresented \/ TapStep \/ GateStep \/ \E status \in Statuses : AnswerTap(status)
    PROVE  [Ledger!LedgerNext]_Ledger!ledgerVars
  <1> USE DEF AbtInv
  <1>1. UNCHANGED <<accepted, crashes>>
    BY TapFrame
  <1>2. CASE TapPresented
    <2>1. /\ tapped' = tapped + 1 /\ trx.pc = "idle" /\ trx'.pc = "wait"
          /\ UNCHANGED <<AbtTransactions, dbFailures>> /\ tapped < MaxTaps
      BY <1>2 DEF TapPresented, Idle
    <2>2. tapped + 1 \in Taps /\ tapped + 1 \notin 1 .. tapped
          /\ 1 .. tapped + 1 = (1 .. tapped) \cup {tapped + 1}
      BY <2>1, LedgerBounds DEF Taps
    <2>3. Stored' = Stored /\ InFlight = {} /\ InFlight' = {tapped + 1}
      BY <2>1, SameTable DEF InFlight
    <2>4. Ledger!Take(tapped + 1)
      BY <1>1, <2>1, <2>2, <2>3 DEF Ledger!Take
    <2> QED
      BY <2>2, <2>4 DEF Ledger!LedgerNext
  <1>3. CASE StoreTap
    <2>1. Stored' = Stored \cup {tapped}
      BY <1>3, StoreAddsTap
    <2>2. InFlight = {tapped} /\ InFlight' = {} /\ UNCHANGED <<tapped, dbFailures>>
      BY <1>3 DEF StoreTap, InFlight, Idle
    <2> QED
      BY <1>1, <2>1, <2>2, LedgerStutters DEF Held
  <1>4. CASE StoreTapFails
    <2>1. /\ InFlight = {tapped} /\ InFlight' = {} /\ UNCHANGED <<AbtTransactions, tapped>>
          /\ dbFailures' = dbFailures + 1 /\ dbFailures < MaxDbFailures
      BY <1>4 DEF StoreTapFails, InFlight, Idle, Refused
    <2>2. tapped \in Taps /\ Held' = Held \ {tapped}
      BY <2>1, SameTable, LedgerBounds DEF Held, Taps
    <2>3. IncidentsLeft > 0 /\ IncidentsLeft' = IncidentsLeft - 1
      BY <1>1, <2>1, LedgerBounds DEF IncidentsLeft
    <2> QED
      BY <1>1, <2>1, <2>2, <2>3, LedgerForgets
  <1>5. CASE ~TapPresented /\ ~StoreTap /\ ~StoreTapFails
    <2>1. UNCHANGED <<AbtTransactions, tapped, dbFailures>>
          /\ (trx'.pc = "idle" <=> trx.pc = "idle")
      BY <1>5 DEF TapStep, SeeGateOpen, ReadGateStatus, GateTimeout, LeaveTap, GateStep,
                  CheckPresented, SetGateStatus, SetGateFlag, AnswerTap, TypeOK, TrxLocals,
                  tapVars
    <2>2. Held' = Held
      BY <2>1, SameTable DEF Held, InFlight
    <2> QED
      BY <1>1, <2>1, <2>2, LedgerStutters
  <1> QED
    BY <1>2, <1>3, <1>4, <1>5

\* A batch settles taps that are held; the answers change nothing the ledger sees.
LEMMA UploadStepLedger ==
    ASSUME AbtInv, UploadStep
    PROVE  [Ledger!LedgerNext]_Ledger!ledgerVars
  <1> USE DEF AbtInv
  <1>1. UNCHANGED <<trx, tapped, crashes>>
    BY UploadFrame
  <1>2. CASE BatchAnswered \/ BatchUnanswered
    <2> DEFINE settled == {s \in Taps : accepted[s] # Never}
    <2>1. \A s \in Taps : /\ accepted[s] # Never => accepted'[s] = accepted[s]
                          /\ accepted'[s] # accepted[s] => s \in Stored
      BY <1>2, BatchInv
    <2>2. PICK S \in SUBSET Stored : settled' = settled \cup S
      <3>1. settled' = settled \cup {s \in Stored : accepted'[s] # accepted[s]}
        BY <2>1 DEF Stored
      <3> QED
        BY <3>1
    <2>3. UNCHANGED <<AbtTransactions, dbFailures>>
      BY <1>2 DEF BatchAnswered, BatchUnanswered
    <2>4. Stored' = Stored /\ InFlight' = InFlight
      BY <1>1, <2>3, SameTable DEF InFlight
    <2>5. S \subseteq 1 .. tapped /\ S \in SUBSET Taps
      BY LedgerBounds
    <2>6. Ledger!Settle(S)
      BY <1>1, <2>2, <2>3, <2>4, <2>5 DEF Ledger!Settle
    <2> QED
      BY <2>5, <2>6 DEF Ledger!LedgerNext
  <1>3. ASSUME NEW s \in Taps, NEW result \in Rejections \cup {"OK"}, SaveResponse(s, result)
        PROVE  UNCHANGED Ledger!ledgerVars
    <2>1. Stored' = Stored
      BY <1>3, SaveUpdatesRow
    <2>2. UNCHANGED <<accepted, dbFailures>>
      BY <1>3 DEF SaveResponse
    <2>3. Held' = Held
      BY <1>1, <2>1 DEF Held, InFlight
    <2> QED
      BY <1>1, <2>2, <2>3, LedgerStutters
  <1>4. CASE \/ CountFails \/ SelectFails \/ SelectStepFails
             \/ \E s \in Taps, result \in Rejections \cup {"OK"} : SaveFails(s, result)
    <2>1. /\ UNCHANGED <<AbtTransactions, accepted>>
          /\ dbFailures' = dbFailures + 1 /\ dbFailures < MaxDbFailures
      BY <1>4 DEF CountFails, SelectFails, SelectStepFails, SaveFails, Refused
    <2>2. Held' = Held
      BY <1>1, <2>1, SameTable DEF Held, InFlight
    <2>3. IncidentsLeft > 0 /\ IncidentsLeft' = IncidentsLeft - 1 /\ 1 \in Taps
      BY <1>1, <2>1, LedgerBounds DEF IncidentsLeft
    <2> QED
      BY <1>1, <2>1, <2>2, <2>3, LedgerForgets
  <1>5. CASE CountPending \/ CountNok \/ SelectUnsettled \/ NothingToUpload \/ BatchDone \/ EndRound
    <2>1. UNCHANGED <<AbtTransactions, accepted, dbFailures>>
      BY <1>5 DEF CountPending, CountNok, SelectUnsettled, NothingToUpload, BatchDone, EndRound
    <2>2. Held' = Held
      BY <1>1, <2>1, SameTable DEF Held, InFlight
    <2> QED
      BY <1>1, <2>1, <2>2, LedgerStutters
  <1> QED
    BY <1>2, <1>3, <1>4, <1>5 DEF UploadStep

\* A delete releases a tap that is settled.
LEMMA CleaningStepLedger ==
    ASSUME AbtInv, CleaningStep
    PROVE  [Ledger!LedgerNext]_Ledger!ledgerVars
  <1> USE DEF AbtInv
  <1>1. UNCHANGED <<trx, tapped, crashes, accepted>>
    BY CleaningFrame
  <1>2. ASSUME NEW s \in Taps, DeleteTap(s)
        PROVE  [Ledger!LedgerNext]_Ledger!ledgerVars
    <2>1. s \in cleaning.listed /\ Stored' = Stored \ {s} /\ InFlight' = InFlight
      BY <1>1, <1>2, DeleteDropsOld DEF InFlight
    <2>2. accepted[s] # Never /\ s \in Past
      BY <2>1 DEF CleanupIsTaken
    <2>3. UNCHANGED dbFailures
      BY <1>2 DEF DeleteTap
    <2>4. CASE s \in Stored
      <3>1. s \notin InFlight
        BY <2>4, LedgerBounds
      <3>2. Ledger!Release(s)
        BY <1>1, <2>1, <2>2, <2>3, <2>4, <3>1 DEF Ledger!Release
      <3> QED
        BY <3>2 DEF Ledger!LedgerNext
    <2>5. CASE s \notin Stored
      BY <1>1, <2>1, <2>3, <2>5, LedgerStutters DEF Held
    <2> QED
      BY <2>4, <2>5
  <1>3. CASE \/ CountOldFails \/ SelectOldFails \/ SelectOldStepFails
             \/ \E s \in Taps : DeleteFails(s)
    <2>1. /\ UNCHANGED AbtTransactions
          /\ dbFailures' = dbFailures + 1 /\ dbFailures < MaxDbFailures
      BY <1>3 DEF CountOldFails, SelectOldFails, SelectOldStepFails, DeleteFails, Refused
    <2>2. Held' = Held
      BY <1>1, <2>1, SameTable DEF Held, InFlight
    <2>3. IncidentsLeft > 0 /\ IncidentsLeft' = IncidentsLeft - 1 /\ 1 \in Taps
      BY <1>1, <2>1, LedgerBounds DEF IncidentsLeft
    <2> QED
      BY <1>1, <2>1, <2>2, <2>3, LedgerForgets
  <1>4. CASE CountOld \/ SelectOld \/ EndCleaning
    <2>1. UNCHANGED <<AbtTransactions, dbFailures>>
      BY <1>4 DEF CountOld, SelectOld, EndCleaning
    <2>2. Held' = Held
      BY <1>1, <2>1, SameTable DEF Held, InFlight
    <2> QED
      BY <1>1, <2>1, <2>2, LedgerStutters
  <1> QED
    BY <1>2, <1>3, <1>4 DEF CleaningStep

\* A kill forgets the tap that is under way, a day nothing.
LEMMA WorldStepLedger ==
    ASSUME AbtInv, NextDay \/ Restart \/ UNCHANGED vars
    PROVE  [Ledger!LedgerNext]_Ledger!ledgerVars
  <1> USE DEF AbtInv
  <1>1. UNCHANGED <<AbtTransactions, tapped, accepted, dbFailures>>
    BY DEF NextDay, Restart, vars, tapVars
  <1>2. Stored' = Stored
    BY <1>1, SameTable
  <1>3. CASE Restart
    <2>1. crashes' = crashes + 1 /\ crashes < MaxCrashes /\ InFlight' = {}
      BY <1>3 DEF Restart, Idle, InFlight
    <2>2. IncidentsLeft > 0 /\ IncidentsLeft' = IncidentsLeft - 1 /\ 1 \in Taps
      BY <1>1, <2>1, LedgerBounds DEF IncidentsLeft
    <2>3. CASE trx.pc = "idle"
      <3>1. Held' = Held
        BY <1>2, <2>1, <2>3 DEF Held, InFlight
      <3> QED
        BY <1>1, <2>2, <3>1, LedgerForgets
    <2>4. CASE trx.pc # "idle"
      <3>1. tapped \in Taps /\ Held' = Held \ {tapped}
        BY <1>2, <2>1, <2>4, LedgerBounds DEF Held, InFlight
      <3> QED
        BY <1>1, <2>2, <3>1, LedgerForgets
    <2> QED
      BY <2>3, <2>4
  <1>4. CASE NextDay \/ UNCHANGED vars
    <2>1. UNCHANGED <<trx, crashes>>
      BY <1>4 DEF NextDay, vars, tapVars
    <2>2. Held' = Held
      BY <1>1, <1>2, <2>1 DEF Held, InFlight
    <2> QED
      BY <1>1, <2>1, <2>2, LedgerStutters
  <1> QED
    BY <1>3, <1>4

\* A tap the validator was told of is held until the back office has it, but for one tap
\* per kill or refused statement: every step is a step of the ledger or none.
THEOREM AbtImplementsLedger == Safety => ImplementsLedger
  <1>1. Init => Ledger!LedgerInit
    <2> SUFFICES ASSUME Init PROVE Ledger!LedgerInit
      OBVIOUS
    <2>1. /\ Stored = {} /\ InFlight = {} /\ 1 .. tapped = {}
          /\ {s \in Taps : accepted[s] # Never} = {}
      BY DEF Init, Stored, InFlight, Idle
    <2>2. (MaxCrashes - crashes) + (MaxDbFailures - dbFailures) \in Nat
      BY AbtBounds DEF Init
    <2> QED
      BY <2>1, <2>2 DEF Init, Ledger!LedgerInit
  <1>2. AbtInv /\ [Next]_vars => [Ledger!LedgerNext]_Ledger!ledgerVars
    BY TapStepLedger, UploadStepLedger, CleaningStepLedger, WorldStepLedger DEF Next
  <1> QED
    BY <1>1, <1>2, AbtInvariant, PTL
       DEF Safety, ImplementsLedger, Ledger!LedgerSpec
=============================================================================
