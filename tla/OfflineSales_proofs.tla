------------------------- MODULE OfflineSales_proofs -------------------------
(***************************************************************************)
(* Theorems about OfflineSales, for every number of sales, every pair of   *)
(* limits, every fetch size and any number of crashes.                     *)
(***************************************************************************)
EXTENDS OfflineSales, FiniteSetTheorems, TLAPS

-----------------------------------------------------------------------------
(* Facts about the queries.                                                *)

\* The table is finite, and so is every set of its rows.
LEMMA RowsFinite ==
    ASSUME NEW S \in SUBSET Sales
    PROVE  IsFiniteSet(S) /\ Cardinality(S) \in Nat
  <1>1. IsFiniteSet(Sales)
    BY FS_Interval, BoundsAssumption DEF Sales
  <1>2. IsFiniteSet(S)
    BY <1>1, FS_Subset
  <1> QED
    BY <1>2, FS_CardinalityType

\* The count the program reads from the table is a natural number.
LEMMA PendingCounted == PendingRows \in SUBSET Sales /\ Cardinality(PendingRows) \in Nat
  <1>1. PendingRows \in SUBSET Sales
    BY DEF PendingRows
  <1> QED
    BY <1>1, RowsFinite

\* A select returns rows of the table, at most as many as asked for.
LEMMA FirstAreRows ==
    ASSUME NEW S \in SUBSET Sales, NEW k \in Nat, NEW B \in First(S, k)
    PROVE  /\ B \in SUBSET S
           /\ Cardinality(B) \in Nat
           /\ k <= Cardinality(S) => Cardinality(B) = k
  <1>1. B \in SUBSET S /\ Cardinality(B) = IF k < Cardinality(S) THEN k ELSE Cardinality(S)
    BY DEF First
  <1>2. Cardinality(S) \in Nat
    BY RowsFinite
  <1> QED
    BY <1>1, <1>2

-----------------------------------------------------------------------------
(* Type correctness.                                                       *)

\* The states the program starts in are well typed.
LEMMA InitTypeOK == Init => TypeOK
  BY BoundsAssumption DEF Init, TypeOK, Row, NoRow, HostLocals, Asleep, NoSale

\* Every step of the transaction thread keeps the types.
LEMMA SaleStepTypeOK == TypeOK /\ SaleStep => TypeOK'
  <1> SUFFICES ASSUME TypeOK, SaleStep PROVE TypeOK'
    OBVIOUS
  <1> USE BoundsAssumption DEF TypeOK, saleVars, limitVars, hostVars, fetchVars
  <1>1. CASE StartReading
    BY <1>1 DEF StartReading
  <1>2. CASE EndWithoutRecord
    BY <1>2 DEF EndWithoutRecord
  <1>3. CASE CountSale
    BY <1>3 DEF CountSale, StatusAfterCount
  <1>4. CASE StoreSale
    BY <1>4 DEF StoreSale, NewRow, Row
  <1>5. CASE StoreSaleFails
    BY <1>5 DEF StoreSaleFails
  <1>6. ASSUME NEW status \in {"Success", "Failure"}, ReportSale(status)
        PROVE  TypeOK'
    <2>1. made + 1 \in 0 .. MaxSales /\ made + 1 \in Sales
      BY <1>6 DEF ReportSale, Sales
    <2>2. approved' \in SUBSET Sales
      BY <1>6, <2>1 DEF ReportSale
    <2> QED
      BY <1>6, <2>1, <2>2 DEF ReportSale
  <1> QED
    BY <1>1, <1>2, <1>3, <1>4, <1>5, <1>6 DEF SaleStep

\* Every step of the host thread keeps the types.
LEMMA HostStepTypeOK == TypeOK /\ HostStep => TypeOK'
  <1> SUFFICES ASSUME TypeOK, HostStep PROVE TypeOK'
    OBVIOUS
  <1> USE DEF TypeOK, HostLocals, saleVars, limitVars, hostVars, fetchVars
  <1>1. CASE CountPending
    BY <1>1, PendingCounted DEF CountPending
  <1>2. CASE SelectPending
    <2>1. PICK B \in First(PendingRows, host.count) :
            host' = [host EXCEPT !.pc = "send", !.listed = B, !.batch = B,
                                 !.spare = host.count - Cardinality(B)]
      BY <1>2 DEF SelectPending
    <2>2. B \in SUBSET Sales /\ Cardinality(B) \in Nat
      BY FirstAreRows, PendingCounted
    <2>3. host.count - Cardinality(B) \in Int
      BY <2>2
    <2>4. host' \in HostLocals
      BY <2>1, <2>2, <2>3
    <2> QED
      BY <1>2, <2>4 DEF SelectPending
  <1>3. CASE ApplyHostAnswer
    BY <1>3 DEF ApplyHostAnswer, StatusAfterHostSuccess
  <1>4. CASE UpdateHostResponse
    <2>1. HostStatusOf(host.code) \in {"Pending", "Success"}
      BY DEF HostStatusOf
    <2>2. Transactions' \in [Sales -> Row \cup {NoRow}]
      <3>1. CASE host.cur \in Stored
        <4>1. Transactions[host.cur] \in Row
          BY <3>1 DEF Stored
        <4>2. [Transactions[host.cur] EXCEPT !.host = HostStatusOf(host.code)] \in Row
          BY <4>1, <2>1 DEF Row
        <4> QED
          BY <1>4, <3>1, <4>2 DEF UpdateHostResponse, Stored
      <3>2. CASE host.cur \notin Stored
        BY <1>4, <3>2 DEF UpdateHostResponse
      <3> QED
        BY <3>1, <3>2
    <2> QED
      BY <1>4, <2>2 DEF UpdateHostResponse
  <1>5. CASE EndRound
    BY <1>5 DEF EndRound, Asleep
  <1>6. ASSUME NEW s \in Sales, NEW code \in HostCodes, SendOfflineSale(s, code)
        PROVE  TypeOK'
    BY <1>6 DEF SendOfflineSale
  <1>7. ASSUME NEW s \in Sales \cup {NoSale}, NEW code \in HostCodes, SendUninitialised(s, code)
        PROVE  TypeOK'
    <2>1. s \in Sales \/ ~HostPosts(code)
      BY <1>7 DEF SendUninitialised, HostPosts
    <2>2. posted' \in SUBSET Sales
      BY <1>7, <2>1 DEF SendUninitialised
    <2>3. host.spare - 1 \in Int
      OBVIOUS
    <2>4. host' \in HostLocals
      BY <1>7, <2>3 DEF SendUninitialised
    <2> QED
      BY <1>7, <2>2, <2>4 DEF SendUninitialised
  <1>8. CASE SelectFails
    BY <1>8 DEF SelectFails, Asleep
  <1>9. CASE UpdateFails
    <2>1. host' \in HostLocals
      BY <1>9 DEF UpdateFails
    <2>2. dbFailures' \in Nat /\ drift' \in Int
      BY <1>9 DEF UpdateFails
    <2> QED
      BY <1>9, <2>1, <2>2 DEF UpdateFails
  <1> QED
    BY <1>1, <1>2, <1>3, <1>4, <1>5, <1>6, <1>7, <1>8, <1>9 DEF HostStep

\* Every step of the data channel keeps the types.
LEMMA FetchStepTypeOK == TypeOK /\ FetchStep => TypeOK'
  <1> SUFFICES ASSUME TypeOK, FetchStep PROVE TypeOK'
    OBVIOUS
  <1> USE DEF TypeOK, saleVars, limitVars, hostVars, fetchVars
  <1>1. ASSUME NEW mode \in FetchModes, FetchAuth(mode)
        PROVE  TypeOK'
    <2>1. Matching(mode) \in SUBSET Sales
      BY DEF Matching, Stored
    <2>2. fetchTransactionIdList' \in SUBSET Sales
      BY <1>1, <2>1 DEF FetchAuth, First
    <2> QED
      BY <1>1, <2>2 DEF FetchAuth
  <1>2. CASE FetchAck
    BY <1>2 DEF FetchAck
  <1>3. CASE DeleteFails
    BY <1>3 DEF DeleteFails
  <1>4. ASSUME NEW s \in Sales, DeleteFetched(s)
        PROVE  TypeOK'
    BY <1>4 DEF DeleteFetched
  <1> QED
    BY <1>1, <1>2, <1>3, <1>4 DEF FetchStep

\* The program restarts in a well-typed state.
LEMMA RestartTypeOK == TypeOK /\ Restart => TypeOK'
  BY PendingCounted
     DEF TypeOK, Restart, HostLocals, Asleep, NoSale, StatusAtStart

\* Type correctness of the whole component.
THEOREM TypeCorrect == Safety => []TypeOK
  <1>1. TypeOK /\ [Next]_vars => TypeOK'
    <2> SUFFICES ASSUME TypeOK, [Next]_vars PROVE TypeOK'
      OBVIOUS
    <2>1. CASE UNCHANGED vars
      BY <2>1 DEF TypeOK, vars, saleVars, limitVars, hostVars, fetchVars
    <2> QED
      BY <2>1, SaleStepTypeOK, HostStepTypeOK, FetchStepTypeOK, RestartTypeOK DEF Next
  <1> QED
    BY <1>1, InitTypeOK, PTL DEF Safety

-----------------------------------------------------------------------------
(* The limit.                                                              *)

\* The two thresholds are consistent, so each of the three places that write the
\* status leaves it on the right side of both.
LEMMA LimitStep ==
    ASSUME TypeOK, DeviceStatusFollowsCount, [Next]_vars
    PROVE  DeviceStatusFollowsCount'
  <1> USE LimitsAssumption DEF DeviceStatusFollowsCount
  <1>1. CASE CountSale
    BY <1>1 DEF CountSale, StatusAfterCount, TypeOK, limitVars
  <1>2. CASE ApplyHostAnswer
    BY <1>2 DEF ApplyHostAnswer, StatusAfterHostSuccess, TypeOK, limitVars
  <1>3. CASE Restart
    BY <1>3, PendingCounted DEF Restart, StatusAtStart
  <1>4. CASE UNCHANGED limitVars
    BY <1>4 DEF limitVars
  <1>5. SaleStep => CountSale \/ UNCHANGED limitVars
    BY DEF SaleStep, StartReading, EndWithoutRecord, StoreSale, StoreSaleFails, ReportSale
  <1>6. HostStep => ApplyHostAnswer \/ UNCHANGED limitVars
    BY DEF HostStep, CountPending, SelectPending, SelectFails, UpdateHostResponse,
           UpdateFails, EndRound, SendOfflineSale, SendUninitialised
  <1>7. FetchStep => UNCHANGED limitVars
    BY DEF FetchStep, FetchAuth, FetchAck, DeleteFails, DeleteFetched
  <1> QED
    BY <1>1, <1>2, <1>3, <1>4, <1>5, <1>6, <1>7 DEF Next, vars

\* For every pair of limits with MinRequired <= MaxOffline + 1, every number of
\* sales and whatever the client fetches and deletes: above the maximum the device
\* is offline, below the minimum it is online.
THEOREM LimitEnforced == Safety => []DeviceStatusFollowsCount
  <1>1. Init => DeviceStatusFollowsCount
    BY LimitsAssumption DEF Init, DeviceStatusFollowsCount
  <1>2. TypeOK /\ DeviceStatusFollowsCount /\ [Next]_vars => DeviceStatusFollowsCount'
    BY LimitStep
  <1> QED
    BY <1>1, <1>2, TypeCorrect, PTL DEF Safety

-----------------------------------------------------------------------------
(* The count and the table.  CountInSync is not inductive: it needs to know *)
(* that the host thread's answer concerns a row that is still pending, that *)
(* the client's deletes do not, and that a new row is not in the table yet. *)

\* The sales whose thread is done with them: stored, lost, or declined.
Past == 1 .. (IF trx.pc \in {"count", "store"} THEN made - 1 ELSE made)

\* The table has no row for the sale that is being recorded.
RowsArePast ==
    /\ trx.pc \in {"count", "store"} => made \in Sales
    /\ Stored \subseteq Past

\* The client holds ids of rows that are no longer pending, and none of a sale to
\* come.
FetchedAreDone == fetchTransactionIdList \cup deleting \subseteq Past \ PendingRows

\* What the host thread still has to send is pending, and each row once; no row has
\* gone between the count and the select, so no entry of the list is uninitialised.
RoundIsPending ==
    /\ host.spare = 0
    /\ host.batch \subseteq PendingRows
    /\ host.pc = "select" => host.count <= Cardinality(PendingRows)
    /\ host.pc \in {"answer", "update"} => host.cur \in PendingRows \ host.batch

SyncInv == TypeOK /\ RowsArePast /\ FetchedAreDone /\ RoundIsPending /\ CountInSync

\* The client never asks for the rows that are still pending.
FetchesNoPending == "Pending" \notin FetchModes

LEMMA InitSync == Init => SyncInv
  <1> SUFFICES ASSUME Init PROVE SyncInv
    OBVIOUS
  <1>1. Stored = {} /\ PendingRows = {}
    BY DEF Init, Stored, PendingRows, NoRow
  <1>2. Cardinality(PendingRows) = 0
    BY <1>1, FS_EmptySet
  <1>3. RowsArePast /\ FetchedAreDone /\ RoundIsPending
    BY <1>1 DEF Init, RowsArePast, FetchedAreDone, RoundIsPending, Asleep
  <1>4. CountInSync
    BY <1>2 DEF Init, CountInSync, CountedEarly, LoweredEarly, Asleep
  <1> QED
    BY <1>3, <1>4, InitTypeOK DEF SyncInv

\* A pending row is a stored one.
LEMMA PendingStored == PendingRows \subseteq Stored
  BY DEF PendingRows, Stored, NoRow

\* Only the insert, the update and the delete touch the table.
LEMMA SameTable ==
    ASSUME UNCHANGED Transactions
    PROVE  Stored' = Stored /\ PendingRows' = PendingRows
  BY DEF Stored, PendingRows

\* The insert adds the sale to the pending rows if it was approved.
LEMMA StoreAddsRow ==
    ASSUME TypeOK, RowsArePast, StoreSale
    PROVE  /\ Stored' = Stored \cup {made}
           /\ PendingRows' = IF trx.status = "Success" THEN PendingRows \cup {made}
                             ELSE PendingRows
           /\ made \in Sales \ Stored
  <1>1. made \in Sales \ Stored
    BY DEF TypeOK, RowsArePast, StoreSale, Past
  <1>2. Transactions' = [Transactions EXCEPT ![made] = NewRow(trx.status)]
    BY DEF StoreSale
  <1>3. NewRow(trx.status) # NoRow
    BY DEF NewRow, NoRow, TypeOK
  <1>4. NewRow(trx.status) = [txn |-> "Success", host |-> "Pending"]
           <=> trx.status = "Success"
    BY DEF NewRow, TypeOK
  <1>5. Stored' = Stored \cup {made}
    BY <1>1, <1>2, <1>3 DEF Stored, TypeOK
  <1>6. made \notin PendingRows
    BY <1>1, PendingStored
  <1>7. CASE trx.status = "Success"
    <2>1. PendingRows' = PendingRows \cup {made}
      BY <1>1, <1>2, <1>4, <1>7 DEF PendingRows, TypeOK
    <2> QED
      BY <1>1, <1>5, <1>7, <2>1
  <1>8. CASE trx.status # "Success"
    <2>1. PendingRows' = PendingRows
      BY <1>1, <1>2, <1>4, <1>6, <1>8 DEF PendingRows, TypeOK
    <2> QED
      BY <1>1, <1>5, <1>8, <2>1
  <1> QED
    BY <1>7, <1>8

\* The host's answer takes its row off the pending ones if it was accepted.
LEMMA UpdateDropsRow ==
    ASSUME TypeOK, RoundIsPending, UpdateHostResponse
    PROVE  /\ Stored' = Stored
           /\ PendingRows' = IF host.code = "00" THEN PendingRows \ {host.cur}
                             ELSE PendingRows
  <1>1. host.cur \in PendingRows /\ host.cur \in Stored /\ host.cur \in Sales
    BY PendingStored DEF RoundIsPending, UpdateHostResponse, PendingRows
  <1>2. Transactions[host.cur] = [txn |-> "Success", host |-> "Pending"]
    BY <1>1 DEF PendingRows
  <1>3. Transactions' = [Transactions EXCEPT ![host.cur] =
                           [txn |-> "Success", host |-> HostStatusOf(host.code)]]
    <2>1. Transactions' = [Transactions EXCEPT ![host.cur].host = HostStatusOf(host.code)]
      BY <1>1 DEF UpdateHostResponse
    <2>2. [Transactions[host.cur] EXCEPT !.host = HostStatusOf(host.code)]
            = [txn |-> "Success", host |-> HostStatusOf(host.code)]
      BY <1>2
    <2> QED
      BY <2>1, <2>2
  <1>4. Stored' = Stored
    BY <1>1, <1>3 DEF Stored, NoRow, TypeOK
  <1>5. CASE host.code = "00"
    <2>1. HostStatusOf(host.code) = "Success"
      BY <1>5 DEF HostStatusOf
    <2>2. PendingRows' = PendingRows \ {host.cur}
      BY <1>1, <1>3, <2>1 DEF PendingRows, TypeOK
    <2> QED
      BY <1>4, <1>5, <2>2
  <1>6. CASE host.code # "00"
    <2>1. HostStatusOf(host.code) = "Pending"
      BY <1>6 DEF HostStatusOf
    <2>2. PendingRows' = PendingRows
      BY <1>1, <1>2, <1>3, <2>1 DEF PendingRows, TypeOK
    <2> QED
      BY <1>4, <1>6, <2>2
  <1> QED
    BY <1>5, <1>6

\* A delete of a row that is not pending leaves the pending ones alone.
LEMMA DeleteKeepsPending ==
    ASSUME TypeOK, FetchedAreDone, NEW s \in Sales, DeleteFetched(s)
    PROVE  Stored' \subseteq Stored /\ PendingRows' = PendingRows
  <1>1. s \notin PendingRows
    BY DEF FetchedAreDone, DeleteFetched
  <1>2. Transactions' = [Transactions EXCEPT ![s] = NoRow]
    BY DEF DeleteFetched
  <1>3. Stored' \subseteq Stored
    BY <1>2 DEF Stored, TypeOK
  <1>4. NoRow # [txn |-> "Success", host |-> "Pending"]
    BY DEF NoRow
  <1>5. PendingRows' = PendingRows
    BY <1>1, <1>2, <1>4 DEF PendingRows, TypeOK
  <1> QED
    BY <1>3, <1>5


\* Every step of the transaction thread keeps the count and the table together.
LEMMA SaleStepSync ==
    ASSUME SyncInv, SaleStep
    PROVE  RowsArePast' /\ FetchedAreDone' /\ RoundIsPending' /\ CountInSync'
  <1> USE DEF SyncInv
  <1>1. CASE StoreSale
    <2>1. Stored' = Stored \cup {made} /\ made \in Sales \ Stored
      BY <1>1, StoreAddsRow
    <2>2. made \in Nat /\ Past = 1 .. made - 1 /\ Past' = 1 .. made
      BY <1>1, <2>1 DEF StoreSale, Past, Sales
    <2>3. RowsArePast'
      <3>1. trx'.pc = "idle"
        BY <1>1 DEF StoreSale, TypeOK
      <3>2. Stored \subseteq 1 .. made - 1
        BY <2>2 DEF RowsArePast
      <3>3. Stored' \subseteq 1 .. made
        BY <2>1, <2>2, <3>2 DEF Sales
      <3> QED
        BY <2>2, <3>1, <3>3 DEF RowsArePast
    <2>4. made \notin Past /\ Past \subseteq Past'
      BY <2>2
    <2>5. PendingRows \subseteq PendingRows' /\ PendingRows' \subseteq PendingRows \cup {made}
      BY <1>1, StoreAddsRow
    <2>6. UNCHANGED <<limitVars, host, fetchVars, drift>>
      BY <1>1 DEF StoreSale, hostVars
    <2>7. FetchedAreDone'
      BY <2>4, <2>5, <2>6 DEF FetchedAreDone, fetchVars
    <2>8. PendingRows' \in SUBSET Sales
      BY <2>1, <2>5 DEF PendingRows
    <2>9. Cardinality(PendingRows)' = Cardinality(PendingRows)
                                        + IF trx.status = "Success" THEN 1 ELSE 0
      <3>1. made \notin PendingRows
        BY <2>1, PendingStored
      <3> QED
        BY <1>1, <3>1, StoreAddsRow, PendingCounted, RowsFinite, FS_AddElement
    <2>10. RoundIsPending'
      <3>1. Cardinality(PendingRows) <= Cardinality(PendingRows)' /\ host.count \in Nat
        BY <2>9, PendingCounted DEF TypeOK, HostLocals
      <3>2. host'.pc = "select" => host'.count <= Cardinality(PendingRows)'
        BY <2>6, <2>9, <3>1, PendingCounted DEF RoundIsPending
      <3> QED
        BY <2>5, <2>6, <3>2 DEF RoundIsPending
    <2>11. CountInSync'
      BY <1>1, <2>6, <2>9, PendingCounted
         DEF CountInSync, CountedEarly, LoweredEarly, limitVars, StoreSale, TypeOK
    <2> QED
      BY <2>3, <2>7, <2>10, <2>11
  <1>2. CASE ~StoreSale
    <2>1. UNCHANGED <<Transactions, host, fetchVars>>
      BY <1>2 DEF SaleStep, StartReading, EndWithoutRecord, CountSale, StoreSaleFails,
                  ReportSale, hostVars
    <2>2. Stored' = Stored /\ PendingRows' = PendingRows
      BY <2>1, SameTable
    <2>3. Past \subseteq Past' /\ (trx'.pc \in {"count", "store"} => made' \in Sales)
      BY <1>2, BoundsAssumption
         DEF SaleStep, StartReading, EndWithoutRecord, CountSale, StoreSaleFails,
             ReportSale, Past, RowsArePast, TypeOK, Sales
    <2>4. RowsArePast' /\ FetchedAreDone' /\ RoundIsPending'
      BY <2>1, <2>2, <2>3 DEF RowsArePast, FetchedAreDone, RoundIsPending, fetchVars
    <2>5. CountInSync'
      <3>1. LoweredEarly' = LoweredEarly /\ Cardinality(PendingRows)' = Cardinality(PendingRows)
        BY <2>1, <2>2 DEF LoweredEarly
      <3>2. activePendingTxnCount' - CountedEarly' - drift'
              = activePendingTxnCount - CountedEarly - drift
        BY <1>2 DEF SaleStep, StartReading, EndWithoutRecord, CountSale, StoreSaleFails,
                    ReportSale, IsCounted, CountedEarly, limitVars, TypeOK
      <3>3. LoweredEarly \in Int /\ CountedEarly \in Int /\ CountedEarly' \in Int
            /\ activePendingTxnCount' \in Int /\ drift' \in Int
        BY SaleStepTypeOK DEF LoweredEarly, CountedEarly, TypeOK
      <3> QED
        BY <3>1, <3>2, <3>3, PendingCounted DEF CountInSync, TypeOK
    <2> QED
      BY <2>4, <2>5
  <1> QED
    BY <1>1, <1>2

\* The host thread's select reads as many rows as it counted.
LEMMA SelectFillsList ==
    ASSUME SyncInv, SelectPending
    PROVE  RoundIsPending' /\ host'.pc = "send"
  <1> USE DEF SyncInv
  <1>1. PICK B \in First(PendingRows, host.count) :
          host' = [host EXCEPT !.pc = "send", !.listed = B, !.batch = B,
                               !.spare = host.count - Cardinality(B)]
    BY DEF SelectPending
  <1>2. host \in HostLocals /\ host.count \in Nat /\ host.count <= Cardinality(PendingRows)
    BY DEF SelectPending, RoundIsPending, TypeOK, HostLocals
  <1>3. B \subseteq PendingRows /\ Cardinality(B) = host.count
    BY <1>2, FirstAreRows, PendingCounted
  <1>4. host'.pc = "send" /\ host'.batch = B /\ host'.spare = 0
    BY <1>1, <1>2, <1>3 DEF HostLocals
  <1>5. PendingRows' = PendingRows
    BY SameTable DEF SelectPending
  <1> QED
    BY <1>3, <1>4, <1>5 DEF RoundIsPending

\* The host thread sends a row of its list that is pending: none is uninitialised.
LEMMA SendsPendingRow ==
    ASSUME SyncInv, HostStep, host'.pc = "answer"
    PROVE  /\ host'.cur \in host.batch
           /\ host' = [host EXCEPT !.pc = "answer", !.batch = host.batch \ {host'.cur},
                                   !.cur = host'.cur, !.code = host'.code]
           /\ host.pc = "send"
           /\ UNCHANGED <<Transactions, trx, made, limitVars, fetchVars, drift>>
  <1> USE DEF SyncInv
  <1>1. host \in HostLocals /\ host.spare = 0
    BY DEF TypeOK, RoundIsPending
  <1>2. ~CountPending /\ ~ApplyHostAnswer /\ ~UpdateHostResponse /\ ~UpdateFails
        /\ ~EndRound /\ ~SelectFails
    <2>1. ~CountPending
      BY <1>1 DEF CountPending, HostLocals
    <2>2. ~ApplyHostAnswer
      BY <1>1 DEF ApplyHostAnswer, HostLocals
    <2>3. ~UpdateHostResponse
      BY <1>1 DEF UpdateHostResponse, HostLocals
    <2>4. ~UpdateFails
      BY <1>1 DEF UpdateFails, HostLocals
    <2>5. ~EndRound /\ ~SelectFails
      BY DEF EndRound, SelectFails, Asleep
    <2> QED
      BY <2>1, <2>2, <2>3, <2>4, <2>5
  <1>3. ~SelectPending
    BY SelectFillsList
  <1>4. \A s \in Sales \cup {NoSale}, code \in HostCodes : ~SendUninitialised(s, code)
    BY <1>1 DEF SendUninitialised
  <1>5. PICK s \in Sales, code \in HostCodes : SendOfflineSale(s, code)
    BY <1>2, <1>3, <1>4 DEF HostStep
  <1> QED
    BY <1>1, <1>5 DEF SendOfflineSale, HostLocals, saleVars

\* Every step of the host thread keeps the count and the table together.
LEMMA HostStepSync ==
    ASSUME SyncInv, HostStep
    PROVE  RowsArePast' /\ FetchedAreDone' /\ RoundIsPending' /\ CountInSync'
  <1> USE DEF SyncInv
  <1>1. UNCHANGED <<trx, made, fetchVars>> /\ Past' = Past
    BY DEF HostStep, CountPending, SelectPending, SelectFails, ApplyHostAnswer,
           UpdateHostResponse, UpdateFails, EndRound, SendOfflineSale, SendUninitialised,
           saleVars, Past
  <1>2. CountedEarly' = CountedEarly /\ CountedEarly \in Int
    BY <1>1 DEF CountedEarly
  <1>3. host \in HostLocals /\ activePendingTxnCount \in Int /\ drift \in Int
    BY DEF TypeOK
  <1>4. CASE UpdateHostResponse
    <2>1. Stored' = Stored /\ PendingRows' = IF host.code = "00" THEN PendingRows \ {host.cur}
                                             ELSE PendingRows
      BY <1>4, UpdateDropsRow
    <2>2. RowsArePast' /\ FetchedAreDone'
      BY <1>1, <2>1 DEF RowsArePast, FetchedAreDone, fetchVars
    <2>3. host' = [host EXCEPT !.pc = "send", !.cur = NoSale, !.code = "none"]
      BY <1>4 DEF UpdateHostResponse
    <2>4. host'.pc = "send" /\ host'.batch = host.batch /\ host'.spare = host.spare
      BY <1>3, <2>3 DEF HostLocals
    <2>5. host.cur \in PendingRows /\ host.cur \notin host.batch
      BY <1>4 DEF UpdateHostResponse, RoundIsPending
    <2>6. RoundIsPending'
      BY <2>1, <2>4, <2>5 DEF RoundIsPending
    <2>7. Cardinality(PendingRows)' = Cardinality(PendingRows) - LoweredEarly
      BY <1>4, <2>1, <2>5, PendingCounted, RowsFinite, FS_RemoveElement
         DEF LoweredEarly, UpdateHostResponse
    <2>8. LoweredEarly' = 0 /\ LoweredEarly \in Int
      BY <2>4 DEF LoweredEarly
    <2>9. CountInSync'
      BY <1>1, <1>2, <1>3, <1>4, <2>7, <2>8, PendingCounted
         DEF CountInSync, UpdateHostResponse, limitVars
    <2> QED
      BY <2>2, <2>6, <2>9
  <1>5. CASE ~UpdateHostResponse
    <2>1. Stored' = Stored /\ PendingRows' = PendingRows
      BY <1>5, SameTable
         DEF HostStep, CountPending, SelectPending, SelectFails, ApplyHostAnswer, UpdateFails,
             EndRound, SendOfflineSale, SendUninitialised
    <2>2. RowsArePast' /\ FetchedAreDone'
      BY <1>1, <2>1 DEF RowsArePast, FetchedAreDone, fetchVars
    <2>3. CASE CountPending
      <3>1. host' = [host EXCEPT !.pc = "select", !.count = Cardinality(PendingRows)]
        BY <2>3 DEF CountPending
      <3>2. host'.pc = "select" /\ host'.batch = host.batch /\ host'.spare = host.spare
            /\ host'.count = Cardinality(PendingRows)
        BY <1>3, <3>1 DEF HostLocals
      <3>3. RoundIsPending'
        BY <2>1, <3>2, PendingCounted DEF RoundIsPending
      <3>4. CountInSync'
        BY <1>1, <1>2, <2>1, <2>3, <3>2
           DEF CountInSync, CountPending, limitVars, LoweredEarly
      <3> QED
        BY <2>2, <3>3, <3>4
    <2>4. CASE SelectPending
      <3>1. RoundIsPending' /\ host'.pc = "send"
        BY <2>4, SelectFillsList
      <3>2. CountInSync'
        BY <1>1, <1>2, <2>1, <2>4, <3>1
           DEF CountInSync, SelectPending, limitVars, LoweredEarly
      <3> QED
        BY <2>2, <3>1, <3>2
    <2>5. CASE ApplyHostAnswer
      <3>1. host' = [host EXCEPT !.pc = "update"] /\ host.pc = "answer"
        BY <2>5 DEF ApplyHostAnswer
      <3>2. host'.pc = "update" /\ host'.batch = host.batch /\ host'.spare = host.spare
            /\ host'.cur = host.cur /\ host'.code = host.code
        BY <1>3, <3>1 DEF HostLocals
      <3>3. RoundIsPending'
        BY <2>1, <3>1, <3>2 DEF RoundIsPending
      <3>4. LoweredEarly = 0 /\ LoweredEarly' = IF host.code = "00" THEN 1 ELSE 0
        BY <3>1, <3>2 DEF LoweredEarly
      <3>5. activePendingTxnCount' = activePendingTxnCount - LoweredEarly'
        BY <1>3, <2>5, <3>4 DEF ApplyHostAnswer, limitVars
      <3>6. CountInSync'
        BY <1>1, <1>2, <1>3, <2>1, <2>5, <3>4, <3>5, PendingCounted
           DEF CountInSync, ApplyHostAnswer
      <3> QED
        BY <2>2, <3>3, <3>6
    <2>6. CASE EndRound
      <3>1. host'.pc = "sleep" /\ host'.batch = {} /\ host'.spare = 0 /\ host.pc = "send"
        BY <2>6 DEF EndRound, Asleep
      <3>2. RoundIsPending'
        BY <3>1 DEF RoundIsPending
      <3>3. CountInSync'
        BY <1>1, <1>2, <2>1, <2>6, <3>1
           DEF CountInSync, EndRound, limitVars, LoweredEarly
      <3> QED
        BY <2>2, <3>2, <3>3
    <2>7. CASE host'.pc = "answer"
      <3>1. /\ host'.cur \in host.batch
            /\ host' = [host EXCEPT !.pc = "answer", !.batch = host.batch \ {host'.cur},
                                    !.cur = host'.cur, !.code = host'.code]
            /\ host.pc = "send" /\ UNCHANGED <<limitVars, drift>>
        BY <2>7, SendsPendingRow
      <3>2. host'.batch = host.batch \ {host'.cur} /\ host'.spare = host.spare
        BY <1>3, <3>1 DEF HostLocals
      <3>3. RoundIsPending'
        BY <2>1, <2>7, <3>1, <3>2 DEF RoundIsPending
      <3>4. CountInSync'
        BY <1>1, <1>2, <2>1, <2>7, <3>1 DEF CountInSync, limitVars, LoweredEarly
      <3> QED
        BY <2>2, <3>3, <3>4
    <2>8. (\E s \in Sales, code \in HostCodes : SendOfflineSale(s, code))
            \/ (\E s \in Sales \cup {NoSale}, code \in HostCodes : SendUninitialised(s, code))
          => host'.pc = "answer"
      BY <1>3 DEF SendOfflineSale, SendUninitialised, HostLocals
    <2>9. CASE SelectFails
      <3>1. host'.pc = "sleep" /\ host'.batch = {} /\ host'.spare = 0 /\ host.pc = "select"
        BY <2>9 DEF SelectFails, Asleep
      <3>2. RoundIsPending'
        BY <3>1 DEF RoundIsPending
      <3>3. CountInSync'
        BY <1>2, <2>1, <2>9, <3>1 DEF CountInSync, SelectFails, limitVars, LoweredEarly
      <3> QED
        BY <2>2, <3>2, <3>3
    <2>10. CASE UpdateFails
      <3>1. host' = [host EXCEPT !.pc = "send", !.cur = NoSale, !.code = "none"]
        BY <2>10 DEF UpdateFails
      <3>2. host'.pc = "send" /\ host'.batch = host.batch /\ host'.spare = host.spare
        BY <1>3, <3>1 DEF HostLocals
      <3>3. RoundIsPending'
        BY <2>1, <3>2 DEF RoundIsPending
      <3>4. LoweredEarly' = 0 /\ LoweredEarly \in Int /\ drift' = drift - LoweredEarly
        BY <1>3, <2>10, <3>2 DEF UpdateFails, LoweredEarly
      <3>5. activePendingTxnCount' = activePendingTxnCount
        BY <2>10 DEF UpdateFails, limitVars
      <3>6. CountInSync'
        BY <1>2, <1>3, <2>1, <3>4, <3>5, PendingCounted DEF CountInSync
      <3> QED
        BY <2>2, <3>3, <3>6
    <2> QED
      BY <1>5, <2>3, <2>4, <2>5, <2>6, <2>7, <2>8, <2>9, <2>10 DEF HostStep
  <1> QED
    BY <1>4, <1>5

\* The client's fetches and deletes touch neither the pending rows nor the count.
LEMMA FetchStepSync ==
    ASSUME SyncInv, FetchesNoPending, FetchStep
    PROVE  RowsArePast' /\ FetchedAreDone' /\ RoundIsPending' /\ CountInSync'
  <1> USE DEF SyncInv
  <1>1. UNCHANGED <<trx, made, host, limitVars, drift>>
    BY DEF FetchStep, FetchAuth, FetchAck, DeleteFails, DeleteFetched, saleVars, hostVars
  <1>2. Past' = Past /\ CountedEarly' = CountedEarly /\ LoweredEarly' = LoweredEarly
    BY <1>1 DEF Past, CountedEarly, LoweredEarly
  <1>3. Stored' \subseteq Stored /\ PendingRows' = PendingRows
    BY DeleteKeepsPending, SameTable
       DEF FetchStep, FetchAuth, FetchAck, DeleteFails
  <1>4. RowsArePast' /\ RoundIsPending' /\ CountInSync'
    BY <1>1, <1>2, <1>3 DEF RowsArePast, RoundIsPending, CountInSync, limitVars
  <1>5. FetchedAreDone'
    <2>1. ASSUME NEW mode \in FetchModes, FetchAuth(mode)
          PROVE  FetchedAreDone'
      <3>1. mode \in {"Success", "Failure"}
        BY ModesAssumption DEF FetchesNoPending
      <3>2. Matching(mode) \subseteq Stored \ PendingRows
        BY <3>1 DEF Matching, PendingRows
      <3>3. fetchTransactionIdList' \subseteq Matching(mode) /\ deleting' = {}
        BY <2>1 DEF FetchAuth, First
      <3> QED
        BY <1>2, <1>3, <3>2, <3>3 DEF FetchedAreDone, RowsArePast
    <2>2. CASE FetchAck
      BY <1>2, <1>3, <2>2 DEF FetchAck, FetchedAreDone
    <2>3. CASE DeleteFails
      BY <1>2, <1>3, <2>3 DEF DeleteFails, FetchedAreDone
    <2>4. ASSUME NEW s \in Sales, DeleteFetched(s)
          PROVE  FetchedAreDone'
      BY <1>2, <1>3, <2>4 DEF DeleteFetched, FetchedAreDone
    <2> QED
      BY <2>1, <2>2, <2>3, <2>4 DEF FetchStep
  <1> QED
    BY <1>4, <1>5

\* A restart counts the table again.
LEMMA RestartSync ==
    ASSUME SyncInv, Restart
    PROVE  RowsArePast' /\ FetchedAreDone' /\ RoundIsPending' /\ CountInSync'
  <1> USE DEF SyncInv
  <1>1. trx'.pc = "idle" /\ made' = made /\ made \in Nat
    BY BoundsAssumption DEF Restart, TypeOK
  <1>2. Stored' = Stored /\ PendingRows' = PendingRows
    BY SameTable DEF Restart
  <1>3. Past \subseteq Past'
    BY <1>1 DEF Past
  <1>4. RowsArePast' /\ FetchedAreDone'
    BY <1>1, <1>2, <1>3 DEF RowsArePast, FetchedAreDone, Restart
  <1>5. host'.pc = "sleep" /\ host'.batch = {} /\ host'.spare = 0
    BY DEF Restart, Asleep
  <1>6. RoundIsPending'
    BY <1>5 DEF RoundIsPending
  <1>7. activePendingTxnCount' = Cardinality(PendingRows) /\ drift' = 0
    BY DEF Restart
  <1>8. CountedEarly' = 0 /\ LoweredEarly' = 0
    BY <1>1, <1>5 DEF CountedEarly, LoweredEarly
  <1>9. CountInSync'
    BY <1>2, <1>7, <1>8, PendingCounted DEF CountInSync
  <1> QED
    BY <1>4, <1>6, <1>9

LEMMA SyncStep ==
    ASSUME SyncInv, FetchesNoPending, [Next]_vars
    PROVE  SyncInv'
  <1>1. CASE UNCHANGED vars
    BY <1>1, SameTable
       DEF SyncInv, vars, saleVars, limitVars, hostVars, fetchVars, TypeOK, RowsArePast,
           Past, FetchedAreDone, RoundIsPending, CountInSync, CountedEarly, LoweredEarly
  <1>2. CASE Next
    <2>1. TypeOK'
      BY <1>2, SaleStepTypeOK, HostStepTypeOK, FetchStepTypeOK, RestartTypeOK
         DEF Next, SyncInv
    <2> QED
      BY <1>2, <2>1, SaleStepSync, HostStepSync, FetchStepSync, RestartSync
         DEF Next, SyncInv
  <1> QED
    BY <1>1, <1>2

\* The inductive invariant holds for every client that does not ask for pending rows.
THEOREM SyncInvariant ==
    ASSUME FetchesNoPending
    PROVE  Safety => []SyncInv
  <1>1. SyncInv /\ [Next]_vars => SyncInv'
    BY SyncStep
  <1> QED
    BY <1>1, InitSync, PTL DEF Safety

\* The count by which the device decides to go offline never drifts from the table:
\* at most the sale being stored and the row being updated are between them, and
\* the sales whose insert failed.
THEOREM CountNeverDrifts ==
    ASSUME FetchesNoPending
    PROVE  Safety => []CountInSync
  <1>1. SyncInv => CountInSync
    BY DEF SyncInv
  <1> QED
    BY <1>1, SyncInvariant, PTL

\* A row whose acceptance is recorded never leaves for the host again.
THEOREM AcceptedStaysAccepted ==
    ASSUME FetchesNoPending
    PROVE  Safety => AcceptedNotResent
  <1>1. ASSUME SyncInv, Next, NEW s \in Sales, Sends(s)
        PROVE  Transactions[s].host # "Success"
    <2>1. HostStep
      <3>1. host'.pc # host.pc /\ host'.pc # "sleep"
        BY <1>1 DEF Sends
      <3> QED
        BY <1>1, <3>1
           DEF Next, Restart, Asleep, SaleStep, StartReading, EndWithoutRecord, CountSale,
               StoreSale, StoreSaleFails, ReportSale, FetchStep, FetchAuth, FetchAck,
               DeleteFails, DeleteFetched, hostVars
    <2>2. s \in PendingRows
      BY <1>1, <2>1, SendsPendingRow DEF Sends, SyncInv, RoundIsPending
    <2> QED
      BY <2>2 DEF PendingRows
  <1>2. SyncInv /\ [Next]_vars
          => [\A s \in Sales : Sends(s) => Transactions[s].host # "Success"]_vars
    BY <1>1
  <1> QED
    BY <1>2, SyncInvariant, PTL DEF Safety, AcceptedNotResent

-----------------------------------------------------------------------------
(* The backlog.  Between the test of DEVICE_STATUS and the count the bound *)
(* has room for one more sale: the host thread only makes the backlog      *)
(* smaller, and a single thread makes sales.                               *)

Backlog == PendingRows \ posted

Room == IF trx.pc \in {"reading", "count"} \/ CountedEarly = 1 THEN 1 ELSE 0

BacklogInv ==
    /\ drift + dbFailures >= 0
    /\ host.pc \in {"answer", "update"} /\ host.code = "00" => host.cur \in posted
    /\ Cardinality(Backlog) + Room <= MaxOffline + 1 + dbFailures

LEMMA BacklogFinite ==
    /\ Backlog \in SUBSET Sales /\ Cardinality(Backlog) \in Nat
    /\ IsFiniteSet(Backlog)
  <1>1. Backlog \in SUBSET Sales
    BY DEF Backlog, PendingRows
  <1> QED
    BY <1>1, RowsFinite

\* While the device is online the host still has to post at most as many sales as
\* the limit allows: the count covers them.
LEMMA OnlineLeavesRoom ==
    ASSUME SyncInv, BacklogInv, DeviceStatusFollowsCount, DEVICE_STATUS = "ONLINE",
           trx.pc = "idle"
    PROVE  Cardinality(Backlog) <= MaxOffline + dbFailures
  <1> USE DEF SyncInv
  <1>1. activePendingTxnCount \in Int /\ activePendingTxnCount <= MaxOffline
    BY LimitsAssumption DEF DeviceStatusFollowsCount, TypeOK
  <1>2. CountedEarly = 0
    BY DEF CountedEarly
  <1> DEFINE Done == PendingRows \cap posted
  <1>3. /\ Done \in SUBSET Sales /\ Cardinality(Done) \in Nat /\ IsFiniteSet(Done)
        /\ IsFiniteSet(PendingRows)
    BY PendingCounted, RowsFinite
  <1>4. Cardinality(Backlog) = Cardinality(PendingRows) - Cardinality(Done)
    BY <1>3, FS_Difference DEF Backlog
  <1>5. LoweredEarly \in Nat /\ LoweredEarly <= Cardinality(Done)
    <2>1. CASE LoweredEarly = 0
      BY <1>3, <2>1
    <2>2. CASE LoweredEarly # 0
      <3>1. LoweredEarly = 1 /\ host.pc = "update" /\ host.code = "00"
        BY <2>2 DEF LoweredEarly
      <3>2. host.cur \in Done
        BY <3>1 DEF BacklogInv, RoundIsPending
      <3>3. Cardinality(Done) # 0
        BY <1>3, <3>2, FS_EmptySet
      <3> QED
        BY <1>3, <3>1, <3>3
    <2> QED
      BY <2>1, <2>2
  <1>6. drift \in Int /\ dbFailures \in Nat /\ drift + dbFailures >= 0
    BY DEF TypeOK, BacklogInv
  <1>7. activePendingTxnCount = Cardinality(PendingRows) - LoweredEarly + drift
    BY <1>2, <1>5, <1>6, PendingCounted DEF CountInSync
  <1>8. Cardinality(PendingRows) \in Nat /\ MaxOffline \in Nat
    BY PendingCounted, LimitsAssumption
  <1> HIDE DEF Done
  <1> QED
    BY <1>1, <1>3, <1>4, <1>5, <1>6, <1>7, <1>8

\* Every step of the transaction thread keeps the bound.
LEMMA SaleStepBacklog ==
    ASSUME SyncInv, BacklogInv, DeviceStatusFollowsCount, SaleStep
    PROVE  BacklogInv'
  <1> USE DEF SyncInv
  <1>1. drift' + dbFailures' >= 0 /\ dbFailures' \in Nat /\ dbFailures <= dbFailures'
    BY DEF BacklogInv, TypeOK, SaleStep, StartReading, EndWithoutRecord, CountSale,
           StoreSale, StoreSaleFails, ReportSale
  <1>2. UNCHANGED hostVars
    BY DEF SaleStep, StartReading, EndWithoutRecord, CountSale, StoreSale,
           StoreSaleFails, ReportSale
  <1>3. Cardinality(Backlog)' + Room' <= MaxOffline + 1 + dbFailures'
    <2>1. CASE StoreSale
      <3>1. trx'.pc = "idle" /\ dbFailures' = dbFailures /\ Room' = 0
        BY <2>1 DEF StoreSale, TypeOK, Room, CountedEarly
      <3>2. CASE trx.status = "Success"
        <4>1. Room = 1
          BY <2>1, <3>2 DEF StoreSale, Room, CountedEarly
        <4>2. Backlog' \subseteq Backlog \cup {made}
          BY <1>2, <2>1, StoreAddsRow DEF Backlog, hostVars
        <4>3. made \in Sales
          BY <2>1, StoreAddsRow
        <4>4. Cardinality(Backlog)' <= Cardinality(Backlog) + 1
          <5>1. IsFiniteSet(Backlog \cup {made})
                /\ Cardinality(Backlog \cup {made}) \in Nat
                /\ Cardinality(Backlog \cup {made}) <= Cardinality(Backlog) + 1
            BY BacklogFinite, FS_AddElement, <4>3, RowsFinite
          <5>2. Cardinality(Backlog') <= Cardinality(Backlog \cup {made})
            BY <4>2, <5>1, FS_Subset
          <5>3. Cardinality(Backlog') \in Nat
            BY <4>2, <4>3, BacklogFinite, RowsFinite
          <5> QED
            BY <5>1, <5>2, <5>3, BacklogFinite
        <4>5. Cardinality(Backlog') \in Nat
          BY <4>2, <4>3, BacklogFinite, RowsFinite
        <4> QED
          BY <3>1, <4>1, <4>4, <4>5, BacklogFinite, LimitsAssumption DEF BacklogInv, TypeOK
      <3>3. CASE trx.status # "Success"
        <4>1. Backlog' = Backlog
          BY <1>2, <2>1, <3>3, StoreAddsRow DEF Backlog, hostVars
        <4> QED
          BY <3>1, <4>1, BacklogFinite, LimitsAssumption DEF BacklogInv, TypeOK, Room
      <3> QED
        BY <3>2, <3>3
    <2>2. CASE ~StoreSale
      <3>1. Backlog' = Backlog
        BY <1>2, <2>2, SameTable
           DEF SaleStep, StartReading, EndWithoutRecord, CountSale, StoreSaleFails,
               ReportSale, Backlog, hostVars
      <3>2. CASE StartReading
        <4>1. Cardinality(Backlog) <= MaxOffline + dbFailures
          BY <3>2, OnlineLeavesRoom DEF StartReading, MayStart
        <4>2. Room' = 1 /\ dbFailures' = dbFailures
          BY <3>2 DEF StartReading, Room, TypeOK, saleVars
        <4> QED
          BY <3>1, <4>1, <4>2, BacklogFinite, LimitsAssumption DEF TypeOK
      <3>3. CASE ~StartReading
        <4>1. Room \in {0, 1} /\ Room' \in {0, 1} /\ Room' <= Room
          BY <2>2, <3>3 DEF SaleStep, EndWithoutRecord, CountSale, StoreSaleFails,
                            ReportSale, Room, CountedEarly, TypeOK
        <4> QED
          BY <1>1, <3>1, <4>1, BacklogFinite, LimitsAssumption DEF BacklogInv, TypeOK
      <3> QED
        BY <3>2, <3>3
    <2> QED
      BY <2>1, <2>2
  <1> QED
    BY <1>1, <1>2, <1>3 DEF BacklogInv, hostVars

\* A step that adds no pending row and takes none off the posted ones leaves the
\* backlog as it is or makes it smaller.
LEMMA BacklogShrinks ==
    ASSUME SyncInv, BacklogInv, TypeOK', Room' <= Room, Room \in {0, 1}, Room' \in {0, 1},
           PendingRows' \subseteq PendingRows, posted \subseteq posted',
           dbFailures <= dbFailures'
    PROVE  Cardinality(Backlog)' + Room' <= MaxOffline + 1 + dbFailures'
  <1>1. Backlog' \subseteq Backlog
    BY DEF Backlog
  <1>2. Cardinality(Backlog') \in Nat /\ Cardinality(Backlog') <= Cardinality(Backlog)
    BY <1>1, BacklogFinite, FS_Subset, RowsFinite
  <1> QED
    BY <1>2, BacklogFinite, LimitsAssumption DEF BacklogInv, SyncInv, TypeOK

\* Every step of the host thread keeps the bound.
LEMMA HostStepBacklog ==
    ASSUME SyncInv, BacklogInv, HostStep
    PROVE  BacklogInv'
  <1> USE DEF SyncInv
  <1>1. TypeOK' /\ host \in HostLocals
    BY HostStepTypeOK DEF TypeOK
  <1>2. UNCHANGED trx /\ posted \subseteq posted'
    BY DEF HostStep, CountPending, SelectPending, SelectFails, ApplyHostAnswer,
           UpdateHostResponse, UpdateFails, EndRound, SendOfflineSale, SendUninitialised,
           saleVars
  <1>3. Room' = Room /\ Room \in {0, 1}
    BY <1>2 DEF Room, CountedEarly
  <1>4. PendingRows' \subseteq PendingRows
    BY UpdateDropsRow, SameTable
       DEF HostStep, CountPending, SelectPending, SelectFails, ApplyHostAnswer, UpdateFails,
           EndRound, SendOfflineSale, SendUninitialised
  <1>5. drift' + dbFailures' >= 0 /\ dbFailures <= dbFailures'
    <2>1. drift \in Int /\ dbFailures \in Nat /\ drift + dbFailures >= 0
      BY DEF TypeOK, BacklogInv
    <2>2. SelectFails \/ UpdateFails
            => dbFailures' = dbFailures + 1 /\ drift' \in {drift, drift - 1}
      BY DEF SelectFails, UpdateFails
    <2>3. ~SelectFails /\ ~UpdateFails => UNCHANGED <<dbFailures, drift>>
      BY DEF HostStep, CountPending, SelectPending, ApplyHostAnswer, UpdateHostResponse,
             EndRound, SendOfflineSale, SendUninitialised, saleVars
    <2> QED
      BY <2>1, <2>2, <2>3
  <1>6. host'.pc \in {"answer", "update"} /\ host'.code = "00" => host'.cur \in posted'
    <2>1. CASE ApplyHostAnswer
      BY <1>1, <2>1 DEF ApplyHostAnswer, BacklogInv, HostLocals
    <2>2. ASSUME NEW s \in Sales, NEW code \in HostCodes, SendOfflineSale(s, code)
          PROVE  host'.code = "00" => host'.cur \in posted'
      BY <1>1, <2>2 DEF SendOfflineSale, HostPosts, HostLocals
    <2>3. ASSUME NEW s \in Sales \cup {NoSale}, NEW code \in HostCodes,
                 SendUninitialised(s, code)
          PROVE  FALSE
      BY <2>3 DEF SendUninitialised, RoundIsPending
    <2>4. CountPending \/ SelectPending \/ UpdateHostResponse \/ UpdateFails
            => host'.pc \notin {"answer", "update"}
      BY <1>1 DEF CountPending, SelectPending, UpdateHostResponse, UpdateFails, HostLocals
    <2>5. EndRound \/ SelectFails => host'.pc = "sleep"
      BY DEF EndRound, SelectFails, Asleep
    <2> QED
      BY <2>1, <2>2, <2>3, <2>4, <2>5 DEF HostStep
  <1>7. Cardinality(Backlog)' + Room' <= MaxOffline + 1 + dbFailures'
    BY <1>1, <1>2, <1>3, <1>4, <1>5, BacklogShrinks
  <1> QED
    BY <1>5, <1>6, <1>7 DEF BacklogInv

\* Neither the client's fetches and deletes nor a restart make the backlog larger.
LEMMA FetchStepBacklog ==
    ASSUME SyncInv, BacklogInv, FetchStep
    PROVE  BacklogInv'
  <1> USE DEF SyncInv
  <1>1. UNCHANGED <<trx, hostVars, dbFailures, drift>>
    BY DEF FetchStep, FetchAuth, FetchAck, DeleteFails, DeleteFetched, saleVars
  <1>2. PendingRows' = PendingRows
    BY DeleteKeepsPending, SameTable DEF FetchStep, FetchAuth, FetchAck, DeleteFails
  <1>3. Backlog' = Backlog /\ Room' = Room
    BY <1>1, <1>2 DEF Backlog, Room, CountedEarly, hostVars
  <1> QED
    BY <1>1, <1>3 DEF BacklogInv, hostVars

LEMMA RestartBacklog ==
    ASSUME SyncInv, BacklogInv, Restart
    PROVE  BacklogInv'
  <1> USE DEF SyncInv
  <1>1. TypeOK' /\ UNCHANGED <<posted, dbFailures>> /\ drift' = 0 /\ host'.pc = "sleep"
    BY RestartTypeOK DEF Restart, Asleep
  <1>2. PendingRows' = PendingRows
    BY SameTable DEF Restart
  <1>3. Room' = 0 /\ Room \in {0, 1}
    BY DEF Room, CountedEarly, Restart
  <1>4. dbFailures \in Nat
    BY DEF TypeOK
  <1>5. Cardinality(Backlog)' + Room' <= MaxOffline + 1 + dbFailures'
    BY <1>1, <1>2, <1>3, <1>4, BacklogShrinks
  <1> QED
    BY <1>1, <1>4, <1>5 DEF BacklogInv

LEMMA InitBacklog == Init => BacklogInv
  <1> SUFFICES ASSUME Init PROVE BacklogInv
    OBVIOUS
  <1>1. Backlog = {}
    BY DEF Init, Backlog, PendingRows, NoRow
  <1>2. Cardinality(Backlog) = 0
    BY <1>1, FS_EmptySet
  <1>3. Room = 0
    BY DEF Init, Room, CountedEarly
  <1> QED
    BY <1>2, <1>3, LimitsAssumption DEF Init, BacklogInv, Asleep

LEMMA BacklogStep ==
    ASSUME SyncInv, DeviceStatusFollowsCount, BacklogInv, [Next]_vars
    PROVE  BacklogInv'
  <1>1. CASE UNCHANGED vars
    <2>1. UNCHANGED <<Transactions, trx, host, posted, dbFailures, drift>>
      BY <1>1 DEF vars, saleVars, hostVars
    <2>2. Backlog' = Backlog /\ Room' = Room
      BY <2>1, SameTable DEF Backlog, Room, CountedEarly
    <2> QED
      BY <2>1, <2>2 DEF BacklogInv
  <1>2. CASE Next
    BY <1>2, SaleStepBacklog, HostStepBacklog, FetchStepBacklog, RestartBacklog DEF Next
  <1> QED
    BY <1>1, <1>2

\* For every client that does not ask for pending rows: the sales the host has not
\* posted never exceed the limit by more than one, and one for each statement the
\* database refused, although the test, the count and the insert of a sale are
\* three steps and a kill may come between them.
THEOREM BacklogStaysBounded ==
    ASSUME FetchesNoPending
    PROVE  Safety => []BacklogBounded
  <1>1. SyncInv /\ DeviceStatusFollowsCount /\ BacklogInv /\ [Next]_vars => BacklogInv'
    BY BacklogStep
  <1>2. SyncInv /\ BacklogInv => BacklogBounded
    <2>1. Room \in {0, 1}
      BY DEF Room
    <2> QED
      BY <2>1, BacklogFinite, LimitsAssumption
         DEF BacklogInv, BacklogBounded, Backlog, SyncInv, TypeOK
  <1> QED
    BY <1>1, <1>2, InitBacklog, SyncInvariant, LimitEnforced, PTL DEF Safety
=============================================================================
