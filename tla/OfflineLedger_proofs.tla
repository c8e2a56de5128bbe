------------------------- MODULE OfflineLedger_proofs -------------------------
(***************************************************************************)
(* What happens to an approved sale, for every number of sales and every   *)
(* bound on the incidents: no more sales are forgotten than there were     *)
(* incidents, only approved sales are posted, and OfflineSales implements  *)
(* SaleLedger.  And what happens to the rows: OfflineSales does to them    *)
(* what FetchChannels takes the rest of the program to do.                 *)
(***************************************************************************)
EXTENDS OfflineSales_proofs

-----------------------------------------------------------------------------
(* Forgotten sales.  A sale leaves the device's keeping in three ways: the *)
(* failed insert and the kill, which are counted, and the delete, which    *)
(* hands the row over.                                                     *)

\* One more sale is at most one more.
LEMMA OneMore ==
    ASSUME NEW S \in SUBSET Sales, NEW T \in SUBSET Sales, NEW s \in Sales,
           T \subseteq S \cup {s}
    PROVE  Cardinality(T) <= Cardinality(S) + 1
  <1>1. S \cup {s} \in SUBSET Sales
    OBVIOUS
  <1>2. Cardinality(T) <= Cardinality(S \cup {s})
    BY <1>1, RowsFinite, FS_Subset
  <1>3. Cardinality(S \cup {s}) = IF s \in S THEN Cardinality(S) ELSE Cardinality(S) + 1
    BY RowsFinite, FS_AddElement
  <1>4. Cardinality(S) \in Nat /\ Cardinality(T) \in Nat
    BY RowsFinite
  <1> QED
    BY <1>2, <1>3, <1>4

\* A set that does not grow has no more elements.
LEMMA NoMore ==
    ASSUME NEW S \in SUBSET Sales, NEW T \in SUBSET Sales, T \subseteq S
    PROVE  Cardinality(T) <= Cardinality(S)
  BY RowsFinite, FS_Subset

\* The steps of the transaction thread: only a failed insert forgets a sale.
LEMMA SaleStepLoss ==
    ASSUME TypeOK, RowsArePast, LossBounded, SaleStep
    PROVE  LossBounded'
  <1> DEFINE F == Forgotten
  <1>1. F \in SUBSET Sales /\ Cardinality(F) \in Nat
    BY RowsFinite DEF Forgotten, TypeOK
  <1>2. UNCHANGED <<posted, handedOver, crashes>>
    BY DEF SaleStep, StartReading, EndWithoutRecord, CountSale, StoreSale, StoreSaleFails,
           ReportSale, hostVars, fetchVars
  <1>3. CASE StoreSaleFails
    <2>1. /\ Stored' = Stored /\ approved' = approved /\ InFlight = {made}
          /\ dbFailures' = dbFailures + 1
      BY <1>3, SameTable DEF StoreSaleFails, InFlight
    <2>2. Forgotten' \subseteq F \cup {made}
      BY <1>2, <2>1 DEF Forgotten
    <2>3. made \in Sales /\ Forgotten' \in SUBSET Sales
      BY <1>2, <1>3, <2>1, <2>2 DEF RowsArePast, StoreSaleFails, Forgotten, TypeOK
    <2>4. Cardinality(Forgotten') <= Cardinality(F) + 1
      BY <1>1, <2>2, <2>3, OneMore
    <2>5. Cardinality(Forgotten') \in Nat
      BY <2>3, RowsFinite
    <2> QED
      BY <1>1, <1>2, <2>1, <2>4, <2>5 DEF LossBounded, TypeOK
  <1>4. CASE ~StoreSaleFails
    <2>1. dbFailures' = dbFailures
      BY <1>4 DEF SaleStep, StartReading, EndWithoutRecord, CountSale, StoreSale, ReportSale
    <2>2. Forgotten' \subseteq F
      <3>1. CASE StoreSale
        <4>1. Stored' = Stored \cup {made} /\ InFlight = {made} /\ approved' = approved
          BY <3>1, StoreAddsRow DEF InFlight, StoreSale
        <4> QED
          BY <1>2, <4>1 DEF Forgotten
      <3>2. CASE ~StoreSale
        <4>1. Stored' = Stored /\ InFlight \subseteq InFlight'
          BY <1>4, <3>2, SameTable
             DEF SaleStep, StartReading, EndWithoutRecord, CountSale, ReportSale, InFlight,
                 TypeOK
        <4>2. approved' \subseteq approved \cup InFlight'
          BY <1>4, <3>2
             DEF SaleStep, StartReading, EndWithoutRecord, CountSale, ReportSale, InFlight
        <4> QED
          BY <1>2, <4>1, <4>2 DEF Forgotten
      <3> QED
        BY <3>1, <3>2
    <2>3. Cardinality(Forgotten') <= Cardinality(F) /\ Cardinality(Forgotten') \in Nat
      BY <1>1, <2>2, NoMore, RowsFinite
    <2> QED
      BY <1>1, <1>2, <2>1, <2>3 DEF LossBounded, TypeOK
  <1> QED
    BY <1>3, <1>4

\* The update keeps every row.
LEMMA UpdateKeepsRows == TypeOK /\ UpdateHostResponse => Stored' = Stored
  <1> SUFFICES ASSUME TypeOK, UpdateHostResponse PROVE Stored' = Stored
    OBVIOUS
  <1>1. CASE host.cur \in Stored
    <2>1. host.cur \in Sales /\ Transactions[host.cur] \in Row
      BY <1>1 DEF Stored, TypeOK
    <2>2. HostStatusOf(host.code) \in {"Pending", "Success"}
      BY DEF HostStatusOf
    <2>3. [Transactions[host.cur] EXCEPT !.host = HostStatusOf(host.code)] # NoRow
      BY <2>1, <2>2 DEF Row, NoRow
    <2> QED
      BY <1>1, <2>1, <2>3 DEF UpdateHostResponse, Stored, TypeOK
  <1>2. CASE host.cur \notin Stored
    BY <1>2, SameTable DEF UpdateHostResponse
  <1> QED
    BY <1>1, <1>2

\* The steps of the host thread forget nothing.
LEMMA HostStepLoss ==
    ASSUME TypeOK, LossBounded, HostStep
    PROVE  LossBounded'
  <1>1. UNCHANGED <<trx, made, approved, handedOver, crashes>> /\ posted \subseteq posted'
    BY DEF HostStep, CountPending, SelectPending, SelectFails, ApplyHostAnswer,
           UpdateHostResponse, UpdateFails, EndRound, SendOfflineSale, SendUninitialised,
           saleVars, fetchVars
  <1>2. Stored' = Stored
    BY SameTable, UpdateKeepsRows
       DEF HostStep, CountPending, SelectPending, SelectFails, ApplyHostAnswer, UpdateFails,
           EndRound, SendOfflineSale, SendUninitialised
  <1>3. dbFailures <= dbFailures' /\ dbFailures' \in Nat
    <2>1. dbFailures' \in {dbFailures, dbFailures + 1}
      BY DEF HostStep, CountPending, SelectPending, SelectFails, ApplyHostAnswer,
             UpdateHostResponse, UpdateFails, EndRound, SendOfflineSale, SendUninitialised,
             saleVars
    <2> QED
      BY <2>1 DEF TypeOK
  <1>4. Forgotten' \subseteq Forgotten /\ Forgotten \in SUBSET Sales
    BY <1>1, <1>2 DEF Forgotten, InFlight, TypeOK
  <1>5. /\ Cardinality(Forgotten') <= Cardinality(Forgotten)
        /\ Cardinality(Forgotten') \in Nat /\ Cardinality(Forgotten) \in Nat
    BY <1>4, NoMore, RowsFinite
  <1> QED
    BY <1>1, <1>3, <1>5 DEF LossBounded, TypeOK

\* The delete of a row hands it over.
LEMMA DeleteHandsOver ==
    ASSUME TypeOK, NEW s \in Sales, DeleteFetched(s)
    PROVE  Stored' = Stored \ {s} /\ handedOver' = handedOver \cup {s}
  BY DEF DeleteFetched, Stored, TypeOK

\* The steps of the data channel hand over what they remove.
LEMMA FetchStepLoss ==
    ASSUME TypeOK, LossBounded, FetchStep
    PROVE  LossBounded'
  <1>1. UNCHANGED <<trx, made, approved, posted, crashes, dbFailures>>
    BY DEF FetchStep, FetchAuth, FetchAck, DeleteFails, DeleteFetched, saleVars, hostVars
  <1>2. Stored \cup handedOver \subseteq Stored' \cup handedOver'
    <2>1. ASSUME NEW s \in Sales, DeleteFetched(s)
          PROVE  Stored \cup handedOver \subseteq Stored' \cup handedOver'
      BY <2>1, DeleteHandsOver
    <2>2. CASE UNCHANGED <<Transactions, handedOver>>
      BY <2>2, SameTable
    <2> QED
      BY <2>1, <2>2 DEF FetchStep, FetchAuth, FetchAck, DeleteFails
  <1>3. Forgotten' \subseteq Forgotten /\ Forgotten \in SUBSET Sales
    BY <1>1, <1>2 DEF Forgotten, InFlight, TypeOK
  <1>4. /\ Cardinality(Forgotten') <= Cardinality(Forgotten)
        /\ Cardinality(Forgotten') \in Nat /\ Cardinality(Forgotten) \in Nat
    BY <1>3, NoMore, RowsFinite
  <1> QED
    BY <1>1, <1>4 DEF LossBounded, TypeOK

\* A kill forgets at most the sale that was reported and not yet stored.
LEMMA RestartLoss ==
    ASSUME TypeOK, RowsArePast, LossBounded, Restart
    PROVE  LossBounded'
  <1>1. /\ UNCHANGED <<approved, posted, handedOver, dbFailures>> /\ Stored' = Stored
        /\ crashes' = crashes + 1
    BY SameTable DEF Restart
  <1>2. Forgotten \in SUBSET Sales /\ Forgotten' \in SUBSET Sales
    BY <1>1 DEF Forgotten, TypeOK
  <1>3. /\ Cardinality(Forgotten) \in Nat /\ Cardinality(Forgotten') \in Nat
        /\ Cardinality(Forgotten') <= Cardinality(Forgotten) + 1
    <2>1. CASE InFlight = {}
      <3>1. Forgotten' \subseteq Forgotten
        BY <1>1, <2>1 DEF Forgotten
      <3> QED
        BY <1>2, <3>1, NoMore, RowsFinite
    <2>2. CASE InFlight # {}
      <3>1. made \in Sales /\ Forgotten' \subseteq Forgotten \cup {made}
        BY <1>1, <2>2 DEF InFlight, Forgotten, RowsArePast
      <3> QED
        BY <1>2, <3>1, OneMore, RowsFinite
    <2> QED
      BY <2>1, <2>2
  <1> QED
    BY <1>1, <1>3 DEF LossBounded, TypeOK

\* The table has no row for the sale that is being recorded, whatever the client
\* fetches and deletes.
LEMMA RowsStayPast == TypeOK /\ RowsArePast /\ [Next]_vars => RowsArePast'
  <1> SUFFICES ASSUME TypeOK, RowsArePast, [Next]_vars PROVE RowsArePast'
    OBVIOUS
  <1> USE DEF RowsArePast
  <1>0. made \in 0 .. MaxSales /\ MaxSales \in Nat
    BY BoundsAssumption DEF TypeOK
  <1>1. CASE SaleStep
    <2>1. CASE StoreSale
      <3>1. made' = made /\ trx'.pc = "idle" /\ made \in Sales
        BY <2>1 DEF StoreSale, TypeOK
      <3>2. Stored' = Stored \cup {made} /\ Stored \subseteq 1 .. made - 1
        BY <2>1, StoreAddsRow DEF StoreSale, Past
      <3> QED
        BY <1>0, <3>1, <3>2 DEF Past, Sales
    <2>2. CASE \E status \in {"Success", "Failure"} : ReportSale(status)
      <3>1. /\ made' = made + 1 /\ made < MaxSales /\ trx'.pc = "count"
            /\ trx.pc = "reading" /\ Stored' = Stored
        BY <2>2, SameTable DEF ReportSale
      <3>2. made' - 1 = made
        BY <1>0, <3>1
      <3>3. Past' = 1 .. made /\ Past = 1 .. made /\ made' \in Sales
        BY <1>0, <3>1, <3>2 DEF Past, Sales
      <3> QED
        BY <3>1, <3>3
    <2>3. CASE StoreSaleFails
      <3>1. made' = made /\ trx'.pc = "idle" /\ Stored' = Stored /\ Past = 1 .. made - 1
        BY <2>3, SameTable DEF StoreSaleFails, Past, TypeOK
      <3> QED
        BY <1>0, <3>1 DEF Past
    <2>4. CASE StartReading \/ EndWithoutRecord \/ CountSale
      <3>1. Past' = Past /\ Stored' = Stored /\ made' = made
        BY <2>4, SameTable DEF StartReading, EndWithoutRecord, CountSale, Past, TypeOK
      <3>2. trx'.pc \in {"count", "store"} => trx.pc \in {"count", "store"}
        BY <2>4 DEF StartReading, EndWithoutRecord, CountSale, TypeOK
      <3> QED
        BY <3>1, <3>2
    <2> QED
      BY <1>1, <2>1, <2>2, <2>3, <2>4 DEF SaleStep
  <1>2. CASE HostStep \/ FetchStep \/ UNCHANGED vars
    <2>1. UNCHANGED <<trx, made>>
      BY <1>2
         DEF HostStep, CountPending, SelectPending, SelectFails, ApplyHostAnswer,
             UpdateHostResponse, UpdateFails, EndRound, SendOfflineSale, SendUninitialised,
             FetchStep, FetchAuth, FetchAck, DeleteFails, DeleteFetched, saleVars, vars
    <2>2. CASE HostStep \/ UNCHANGED vars
      <3>1. Stored' = Stored
        BY <2>2, SameTable, UpdateKeepsRows
           DEF HostStep, CountPending, SelectPending, SelectFails, ApplyHostAnswer,
               UpdateFails, EndRound, SendOfflineSale, SendUninitialised, vars
      <3> QED
        BY <2>1, <3>1 DEF Past
    <2>3. CASE FetchStep
      <3>1. Stored' \subseteq Stored
        BY <2>3, SameTable, DeleteHandsOver DEF FetchStep, FetchAuth, FetchAck, DeleteFails
      <3> QED
        BY <2>1, <3>1 DEF Past
    <2> QED
      BY <1>2, <2>2, <2>3
  <1>3. CASE Restart
    <2>1. made' = made /\ trx'.pc = "idle" /\ Stored' = Stored
      BY <1>3, SameTable DEF Restart
    <2>2. Past \subseteq 1 .. made /\ Past' = 1 .. made
      BY <1>0, <2>1 DEF Past
    <2> QED
      BY <2>1, <2>2
  <1> QED
    BY <1>1, <1>2, <1>3 DEF Next

\* The program and its kills never forget more approved sales than there were kills
\* and refused statements, whatever modes the client fetches with.
THEOREM LossStaysBounded == Safety => []LossBounded
  <1>1. Init => RowsArePast /\ LossBounded
    <2> SUFFICES ASSUME Init PROVE RowsArePast /\ LossBounded
      OBVIOUS
    <2>1. Stored = {} /\ Forgotten = {} /\ trx.pc = "idle"
      BY DEF Init, Stored, Forgotten
    <2> QED
      BY <2>1, FS_EmptySet DEF Init, RowsArePast, LossBounded
  <1>2. TypeOK /\ RowsArePast /\ LossBounded /\ [Next]_vars => LossBounded'
    <2> SUFFICES ASSUME TypeOK, RowsArePast, LossBounded, [Next]_vars PROVE LossBounded'
      OBVIOUS
    <2>1. CASE UNCHANGED vars
      BY <2>1, SameTable DEF LossBounded, Forgotten, InFlight, vars, saleVars, hostVars, fetchVars
    <2> QED
      BY <2>1, SaleStepLoss, HostStepLoss, FetchStepLoss, RestartLoss DEF Next
  <1> QED
    BY <1>1, <1>2, RowsStayPast, TypeCorrect, PTL DEF Safety

-----------------------------------------------------------------------------
(* Only approved sales are posted, whatever the client fetches: the list,  *)
(* what earlier rounds left of it, and the rows that are pending are all   *)
(* approved sales.                                                         *)

ApprovedInv ==
    /\ Stored \cup approved \subseteq 1 .. made
    /\ posted \cup host.batch \cup host.listed \cup stackRows \subseteq approved
    /\ \A s \in Stored : Transactions[s].txn = "Success" <=> s \in approved
    /\ trx.pc \in {"count", "store"} => (trx.status = "Success" <=> made \in approved)

LEMMA SaleStepApproved ==
    ASSUME TypeOK, RowsArePast, ApprovedInv, SaleStep
    PROVE  ApprovedInv'
  <1> USE DEF ApprovedInv
  <1>0. made \in Nat
    BY BoundsAssumption DEF TypeOK
  <1>1. UNCHANGED <<host, stackRows, posted>>
    BY DEF SaleStep, StartReading, EndWithoutRecord, CountSale, StoreSale, StoreSaleFails,
           ReportSale, hostVars
  <1>2. CASE StoreSale
    <2>1. Stored' = Stored \cup {made} /\ made \in Sales \ Stored
      BY <1>2, StoreAddsRow
    <2>2. /\ Transactions' = [Transactions EXCEPT ![made] = NewRow(trx.status)]
          /\ UNCHANGED <<made, approved>> /\ trx'.pc = "idle" /\ trx.pc = "store"
      BY <1>2 DEF StoreSale, TypeOK
    <2>3. Transactions'[made].txn = trx.status
      BY <2>1, <2>2 DEF NewRow, TypeOK
    <2>4. \A s \in Stored : Transactions'[s] = Transactions[s]
      BY <2>1, <2>2 DEF Stored, TypeOK
    <2>5. Stored' \subseteq 1 .. made
      BY <1>0, <2>1 DEF Sales
    <2> QED
      BY <1>1, <2>1, <2>2, <2>3, <2>4, <2>5
  <1>3. ASSUME NEW status \in {"Success", "Failure"}, ReportSale(status)
        PROVE  ApprovedInv'
    <2>1. /\ made' = made + 1 /\ trx' = [pc |-> "count", status |-> status]
          /\ Transactions' = Transactions /\ Stored' = Stored
          /\ approved' = IF status = "Success" THEN approved \cup {made + 1} ELSE approved
      BY <1>3, SameTable DEF ReportSale
    <2>2. 1 .. made \subseteq 1 .. made' /\ made' \in 1 .. made' /\ made + 1 \notin 1 .. made
      BY <1>0, <2>1
    <2>3. \A s \in Stored : s \in approved' <=> s \in approved
      BY <2>1, <2>2
    <2> QED
      BY <1>1, <2>1, <2>2, <2>3
  <1>4. CASE StartReading \/ EndWithoutRecord \/ CountSale \/ StoreSaleFails
    <2>1. Transactions' = Transactions /\ Stored' = Stored /\ UNCHANGED <<made, approved>>
      BY <1>4, SameTable DEF StartReading, EndWithoutRecord, CountSale, StoreSaleFails
    <2>2. trx'.pc \in {"count", "store"} => trx.pc \in {"count", "store"} /\ trx'.status = trx.status
      BY <1>4 DEF StartReading, EndWithoutRecord, CountSale, StoreSaleFails, TypeOK
    <2> QED
      BY <1>1, <2>1, <2>2
  <1> QED
    BY <1>2, <1>3, <1>4 DEF SaleStep

LEMMA HostStepApproved ==
    ASSUME TypeOK, ApprovedInv, HostStep
    PROVE  ApprovedInv'
  <1> USE DEF ApprovedInv
  <1>1. UNCHANGED <<trx, made, approved>>
    BY DEF HostStep, CountPending, SelectPending, SelectFails, ApplyHostAnswer,
           UpdateHostResponse, UpdateFails, EndRound, SendOfflineSale, SendUninitialised,
           saleVars
  <1>2. Stored' = Stored /\ \A s \in Stored : Transactions'[s].txn = Transactions[s].txn
    <2>1. CASE UpdateHostResponse
      <3>1. Stored' = Stored
        BY <2>1, UpdateKeepsRows
      <3>2. ASSUME NEW s \in Stored
            PROVE  Transactions'[s].txn = Transactions[s].txn
        <4>1. CASE host.cur \in Stored
          <5>1. host.cur \in Sales /\ Transactions[host.cur] \in Row
            BY <4>1 DEF Stored, TypeOK
          <5>2. [Transactions[host.cur] EXCEPT !.host = HostStatusOf(host.code)].txn
                  = Transactions[host.cur].txn
            BY <5>1 DEF Row
          <5> QED
            BY <2>1, <4>1, <5>1, <5>2 DEF UpdateHostResponse, Stored, TypeOK
        <4>2. CASE host.cur \notin Stored
          BY <2>1, <4>2 DEF UpdateHostResponse
        <4> QED
          BY <4>1, <4>2
      <3> QED
        BY <3>1, <3>2
    <2>2. CASE Transactions' = Transactions
      BY <2>2, SameTable
    <2> QED
      BY <2>1, <2>2
         DEF HostStep, CountPending, SelectPending, SelectFails, ApplyHostAnswer,
             UpdateFails, EndRound, SendOfflineSale, SendUninitialised
  <1>3. PendingRows \subseteq approved
    BY PendingStored DEF PendingRows
  <1>4. posted' \cup host'.batch \cup host'.listed \cup stackRows' \subseteq approved
    <2>1. CASE SelectPending
      <3>1. PICK batch \in First(PendingRows, host.count) :
              host' = [host EXCEPT !.pc = "send", !.listed = batch, !.batch = batch,
                                   !.spare = host.count - Cardinality(batch)]
        BY <2>1 DEF SelectPending
      <3>2. host'.batch \subseteq approved /\ host'.listed \subseteq approved
        BY <1>3, <3>1 DEF First, TypeOK, HostLocals
      <3> QED
        BY <2>1, <3>2 DEF SelectPending
    <2>2. CASE CountPending \/ ApplyHostAnswer \/ UpdateHostResponse \/ UpdateFails
      BY <2>2 DEF CountPending, ApplyHostAnswer, UpdateHostResponse, UpdateFails, TypeOK,
                  HostLocals, hostVars
    <2>3. CASE SelectFails \/ EndRound
      BY <2>3 DEF SelectFails, EndRound, Asleep
    <2>4. ASSUME NEW s \in Sales, NEW code \in HostCodes, SendOfflineSale(s, code)
          PROVE  posted' \cup host'.batch \cup host'.listed \cup stackRows' \subseteq approved
      BY <2>4 DEF SendOfflineSale, TypeOK, HostLocals
    <2>5. ASSUME NEW s \in Sales \cup {NoSale}, NEW code \in HostCodes,
                 SendUninitialised(s, code)
          PROVE  posted' \cup host'.batch \cup host'.listed \cup stackRows' \subseteq approved
      <3>1. posted' \subseteq posted \cup stackRows
        BY <2>5 DEF SendUninitialised, HostPosts
      <3>2. UNCHANGED stackRows /\ host'.batch = host.batch /\ host'.listed = host.listed
        BY <2>5 DEF SendUninitialised, TypeOK, HostLocals
      <3> QED
        BY <3>1, <3>2
    <2> QED
      BY <2>1, <2>2, <2>3, <2>4, <2>5 DEF HostStep
  <1> QED
    BY <1>1, <1>2, <1>4

LEMMA FetchStepApproved ==
    ASSUME TypeOK, ApprovedInv, FetchStep
    PROVE  ApprovedInv'
  <1> USE DEF ApprovedInv
  <1>1. UNCHANGED <<trx, made, approved, host, stackRows, posted>>
    BY DEF FetchStep, FetchAuth, FetchAck, DeleteFails, DeleteFetched, saleVars, hostVars
  <1>2. ASSUME NEW s \in Sales, DeleteFetched(s)
        PROVE  ApprovedInv'
    <2>1. Stored' = Stored \ {s}
      BY <1>2, DeleteHandsOver
    <2>2. \A r \in Stored' : Transactions'[r] = Transactions[r]
      BY <1>2, <2>1 DEF DeleteFetched, Stored, TypeOK
    <2> QED
      BY <1>1, <2>1, <2>2
  <1>3. CASE UNCHANGED Transactions
    BY <1>1, <1>3, SameTable
  <1> QED
    BY <1>2, <1>3 DEF FetchStep, FetchAuth, FetchAck, DeleteFails

LEMMA ApprovedStep ==
    ASSUME TypeOK, RowsArePast, ApprovedInv, [Next]_vars
    PROVE  ApprovedInv'
  <1>1. CASE Restart
    <2>1. /\ UNCHANGED <<Transactions, made, approved, posted>> /\ Stored' = Stored
          /\ trx'.pc = "idle" /\ stackRows' = {} /\ host'.batch = {} /\ host'.listed = {}
      BY <1>1, SameTable DEF Restart, Asleep
    <2> QED
      BY <2>1 DEF ApprovedInv
  <1>2. CASE UNCHANGED vars
    BY <1>2, SameTable DEF ApprovedInv, vars, saleVars, hostVars
  <1> QED
    BY <1>1, <1>2, SaleStepApproved, HostStepApproved, FetchStepApproved DEF Next

LEMMA ApprovedInit == Init => RowsArePast /\ ApprovedInv
  <1> SUFFICES ASSUME Init PROVE RowsArePast /\ ApprovedInv
    OBVIOUS
  <1>1. Stored = {}
    BY DEF Init, Stored
  <1> QED
    BY <1>1 DEF Init, RowsArePast, ApprovedInv, Asleep

\* A declined sale is never posted: not from the table, and not from the copies of an
\* earlier round that an entry of the list the select did not fill still holds.
THEOREM DeclinedNeverPosted == Safety => []OnlyApprovedPosted
  <1>1. ApprovedInv => OnlyApprovedPosted
    BY DEF ApprovedInv, OnlyApprovedPosted
  <1> QED
    BY <1>1, ApprovedInit, ApprovedStep, RowsStayPast, TypeCorrect, PTL DEF Safety

-----------------------------------------------------------------------------
(* OfflineSales implements SaleLedger, for a client that does not fetch    *)
(* pending rows: a row it deletes is then posted or declined.              *)

PostedInv ==
    /\ Stored \cap approved \subseteq PendingRows \cup posted
    /\ host.pc \in {"answer", "update"} /\ host.code = "00" => host.cur \in posted

LEMMA SaleStepPosted ==
    ASSUME SyncInv, ApprovedInv, PostedInv, SaleStep
    PROVE  PostedInv'
  <1> USE DEF SyncInv, PostedInv
  <1>1. UNCHANGED <<host, posted>>
    BY DEF SaleStep, StartReading, EndWithoutRecord, CountSale, StoreSale, StoreSaleFails,
           ReportSale, hostVars
  <1>2. Stored' \cap approved' \subseteq PendingRows' \cup posted'
    <2>1. CASE StoreSale
      <3>1. /\ Stored' = Stored \cup {made} /\ approved' = approved
            /\ made \in approved => PendingRows' = PendingRows \cup {made}
            /\ PendingRows \subseteq PendingRows'
        BY <2>1, StoreAddsRow DEF StoreSale, ApprovedInv
      <3> QED
        BY <1>1, <3>1
    <2>2. CASE \E status \in {"Success", "Failure"} : ReportSale(status)
      <3>1. /\ Stored' = Stored /\ PendingRows' = PendingRows
            /\ approved' \subseteq approved \cup {made + 1}
        BY <2>2, SameTable DEF ReportSale
      <3>2. made + 1 \notin Stored
        BY BoundsAssumption DEF ApprovedInv, TypeOK
      <3> QED
        BY <1>1, <3>1, <3>2
    <2>3. CASE StartReading \/ EndWithoutRecord \/ CountSale \/ StoreSaleFails
      <3>1. Stored' = Stored /\ PendingRows' = PendingRows /\ approved' = approved
        BY <2>3, SameTable DEF StartReading, EndWithoutRecord, CountSale, StoreSaleFails
      <3> QED
        BY <1>1, <3>1
    <2> QED
      BY <2>1, <2>2, <2>3 DEF SaleStep
  <1> QED
    BY <1>1, <1>2

\* With no uninitialised entry in the list, a sale is sent from the list only.
LEMMA NothingUninitialised ==
    ASSUME SyncInv, NEW s, NEW code, SendUninitialised(s, code)
    PROVE  FALSE
  BY DEF SyncInv, RoundIsPending, SendUninitialised

LEMMA HostStepPosted ==
    ASSUME SyncInv, PostedInv, HostStep
    PROVE  PostedInv'
  <1> USE DEF SyncInv, PostedInv
  <1>1. approved' = approved
    BY DEF HostStep, CountPending, SelectPending, SelectFails, ApplyHostAnswer,
           UpdateHostResponse, UpdateFails, EndRound, SendOfflineSale, SendUninitialised,
           saleVars
  <1>2. CASE UpdateHostResponse
    <2>1. /\ Stored' = Stored /\ posted' = posted /\ host'.pc = "send"
          /\ PendingRows \subseteq PendingRows' \cup posted
      BY <1>2, UpdateDropsRow DEF UpdateHostResponse, TypeOK, HostLocals
    <2> QED
      BY <1>1, <2>1
  <1>3. CASE ApplyHostAnswer
    BY <1>1, <1>3, SameTable DEF ApplyHostAnswer, TypeOK, HostLocals
  <1>4. ASSUME NEW s \in Sales, NEW code \in HostCodes, SendOfflineSale(s, code)
        PROVE  PostedInv'
    <2>1. host'.cur = s /\ host'.code = code /\ posted \subseteq posted'
          /\ (code = "00" => s \in posted')
      BY <1>4 DEF SendOfflineSale, HostPosts, TypeOK, HostLocals
    <2>2. Stored' = Stored /\ PendingRows' = PendingRows
      BY <1>4, SameTable DEF SendOfflineSale
    <2> QED
      BY <1>1, <2>1, <2>2
  <1>5. CASE CountPending \/ SelectPending \/ SelectFails \/ UpdateFails \/ EndRound
    <2>1. host'.pc \notin {"answer", "update"}
      <3>1. CASE SelectPending
        <4>1. PICK batch \in First(PendingRows, host.count) :
                host' = [host EXCEPT !.pc = "send", !.listed = batch, !.batch = batch,
                                     !.spare = host.count - Cardinality(batch)]
          BY <3>1 DEF SelectPending
        <4> QED
          BY <4>1 DEF TypeOK, HostLocals
      <3>2. CASE CountPending \/ UpdateFails
        BY <3>2 DEF CountPending, UpdateFails, TypeOK, HostLocals
      <3>3. CASE SelectFails \/ EndRound
        BY <3>3 DEF SelectFails, EndRound, Asleep
      <3> QED
        BY <1>5, <3>1, <3>2, <3>3
    <2>2. Stored' = Stored /\ PendingRows' = PendingRows /\ posted' = posted
      BY <1>5, SameTable DEF CountPending, SelectPending, SelectFails, UpdateFails, EndRound
    <2> QED
      BY <1>1, <2>1, <2>2
  <1> QED
    BY <1>2, <1>3, <1>4, <1>5, NothingUninitialised DEF HostStep

LEMMA PostedStep ==
    ASSUME SyncInv, ApprovedInv, PostedInv, [Next]_vars
    PROVE  PostedInv'
  <1>1. CASE FetchStep
    <2>1. UNCHANGED <<approved, host, posted>>
      BY <1>1 DEF FetchStep, FetchAuth, FetchAck, DeleteFails, DeleteFetched, saleVars, hostVars
    <2>2. Stored' \subseteq Stored /\ PendingRows' = PendingRows
      BY <1>1, DeleteKeepsPending, SameTable
         DEF SyncInv, FetchStep, FetchAuth, FetchAck, DeleteFails
    <2> QED
      BY <2>1, <2>2 DEF PostedInv
  <1>2. CASE Restart
    BY <1>2, SameTable DEF PostedInv, Restart, Asleep
  <1>3. CASE UNCHANGED vars
    BY <1>3, SameTable DEF PostedInv, vars, saleVars, hostVars
  <1> QED
    BY <1>1, <1>2, <1>3, SaleStepPosted, HostStepPosted DEF Next

\* What the ledger sees of a state.
Held == Stored \cup InFlight
Declined == (1 .. made) \ approved
IncidentsLeft == (MaxCrashes - crashes) + (MaxDbFailures - dbFailures)

\* The incidents never exceed their bounds.
IncidentsBounded == crashes <= MaxCrashes /\ dbFailures <= MaxDbFailures

LedgerInv == SyncInv /\ ApprovedInv /\ PostedInv /\ IncidentsBounded

LEMMA IncidentsStep == TypeOK /\ IncidentsBounded /\ [Next]_vars => IncidentsBounded'
  <1> SUFFICES ASSUME TypeOK, IncidentsBounded, [Next]_vars PROVE IncidentsBounded'
    OBVIOUS
  <1>1. dbFailures' = dbFailures \/ (dbFailures' = dbFailures + 1 /\ dbFailures < MaxDbFailures)
    BY DEF Next, SaleStep, StartReading, EndWithoutRecord, CountSale, StoreSale,
           StoreSaleFails, ReportSale, HostStep, CountPending, SelectPending, SelectFails,
           ApplyHostAnswer, UpdateHostResponse, UpdateFails, EndRound, SendOfflineSale,
           SendUninitialised, FetchStep, FetchAuth, FetchAck, DeleteFails, DeleteFetched,
           Restart, saleVars, vars
  <1>2. crashes' = crashes \/ (crashes' = crashes + 1 /\ crashes < MaxCrashes)
    BY DEF Next, SaleStep, StartReading, EndWithoutRecord, CountSale, StoreSale,
           StoreSaleFails, ReportSale, HostStep, CountPending, SelectPending, SelectFails,
           ApplyHostAnswer, UpdateHostResponse, UpdateFails, EndRound, SendOfflineSale,
           SendUninitialised, FetchStep, FetchAuth, FetchAck, DeleteFails, DeleteFetched,
           Restart, vars
  <1> QED
    BY <1>1, <1>2, BoundsAssumption DEF IncidentsBounded, TypeOK

\* A step the ledger does not see.
LEMMA LedgerStutters ==
    ASSUME UNCHANGED <<made, approved, posted, crashes, dbFailures>>, Held' = Held
    PROVE  UNCHANGED Ledger!ledgerVars
  BY DEF Ledger!ledgerVars, Held

\* An incident forgets at most one sale.
LEMMA LedgerForgets ==
    ASSUME LedgerInv, UNCHANGED <<made, approved, posted>>,
           \/ crashes' = crashes + 1 /\ crashes < MaxCrashes /\ dbFailures' = dbFailures
           \/ dbFailures' = dbFailures + 1 /\ dbFailures < MaxDbFailures /\ crashes' = crashes,
           NEW s \in Sales, Held' \in {Held, Held \ {s}}
    PROVE  Ledger!LedgerNext
  <1>1. IncidentsLeft > 0 /\ IncidentsLeft' = IncidentsLeft - 1
    BY BoundsAssumption DEF LedgerInv, SyncInv, TypeOK, IncidentsBounded, IncidentsLeft
  <1>2. Ledger!Incident(s)
    BY <1>1 DEF Ledger!Incident, Held, IncidentsLeft
  <1> QED
    BY <1>2 DEF Ledger!LedgerNext

\* A reported sale is taken or declined; the failed insert is an incident.
LEMMA SaleStepLedger ==
    ASSUME LedgerInv, SaleStep
    PROVE  [Ledger!LedgerNext]_Ledger!ledgerVars
  <1> USE DEF LedgerInv, SyncInv
  <1>0. made \in Nat /\ made <= MaxSales /\ MaxSales \in Nat
    BY BoundsAssumption DEF TypeOK
  <1>1. UNCHANGED <<posted, crashes>>
    BY DEF SaleStep, StartReading, EndWithoutRecord, CountSale, StoreSale, StoreSaleFails,
           ReportSale, hostVars
  <1>2. ASSUME NEW status \in {"Success", "Failure"}, ReportSale(status)
        PROVE  Ledger!LedgerNext
    <2>1. /\ made' = made + 1 /\ made + 1 \in Sales /\ dbFailures' = dbFailures
          /\ approved' = IF status = "Success" THEN approved \cup {made + 1} ELSE approved
          /\ Stored' = Stored /\ InFlight = {} /\ InFlight' = {made + 1}
      BY <1>0, <1>2, SameTable DEF ReportSale, InFlight, Sales
    <2>2. Held' = Held \cup {made + 1}
      BY <2>1 DEF Held
    <2>3. 1 .. made' = (1 .. made) \cup {made + 1} /\ made + 1 \notin 1 .. made
      BY <1>0, <2>1
    <2>4. made + 1 \notin approved \cup Declined
      BY <2>3 DEF ApprovedInv, Declined
    <2>5. CASE status = "Success"
      <3>1. approved' = approved \cup {made + 1} /\ Declined' = Declined
        BY <2>1, <2>3, <2>5 DEF Declined
      <3>2. Ledger!Take(made + 1)
        BY <1>1, <2>1, <2>2, <2>4, <3>1 DEF Ledger!Take, Held, Declined
      <3> QED
        BY <2>1, <3>2 DEF Ledger!LedgerNext
    <2>6. CASE status = "Failure"
      <3>1. approved' = approved /\ Declined' = Declined \cup {made + 1}
        BY <2>1, <2>3, <2>4, <2>6 DEF Declined
      <3>2. Ledger!Refuse(made + 1)
        BY <1>1, <2>1, <2>2, <2>4, <3>1 DEF Ledger!Refuse, Held, Declined
      <3> QED
        BY <2>1, <3>2 DEF Ledger!LedgerNext
    <2> QED
      BY <2>5, <2>6
  <1>3. CASE StoreSale
    <2>1. Stored' = Stored \cup {made} /\ InFlight = {made} /\ InFlight' = {}
          /\ UNCHANGED <<made, approved, dbFailures>>
      BY <1>3, StoreAddsRow DEF StoreSale, InFlight, TypeOK
    <2>2. Held' = Held
      BY <2>1 DEF Held
    <2> QED
      BY <1>1, <2>1, <2>2, LedgerStutters
  <1>4. CASE StoreSaleFails
    <2>1. /\ Stored' = Stored /\ InFlight = {made} /\ InFlight' = {} /\ made \in Sales
          /\ UNCHANGED <<made, approved>>
          /\ dbFailures' = dbFailures + 1 /\ dbFailures < MaxDbFailures
      BY <1>4, SameTable DEF StoreSaleFails, InFlight, RowsArePast, TypeOK
    <2>2. made \notin Stored
      BY <1>0, <1>4 DEF RowsArePast, Past, StoreSaleFails
    <2>3. Held' = Held \ {made}
      BY <2>1, <2>2 DEF Held
    <2> QED
      BY <1>1, <2>1, <2>3, LedgerForgets
  <1>5. CASE StartReading \/ EndWithoutRecord \/ CountSale
    <2>1. Stored' = Stored /\ InFlight' = InFlight /\ UNCHANGED <<made, approved, dbFailures>>
      BY <1>5, SameTable DEF StartReading, EndWithoutRecord, CountSale, InFlight, TypeOK
    <2> QED
      BY <1>1, <2>1, LedgerStutters DEF Held
  <1> QED
    BY <1>2, <1>3, <1>4, <1>5 DEF SaleStep

\* The host settles a sale that is held; a refused statement is an incident that forgets
\* nothing.
LEMMA HostStepLedger ==
    ASSUME LedgerInv, HostStep
    PROVE  [Ledger!LedgerNext]_Ledger!ledgerVars
  <1> USE DEF LedgerInv, SyncInv
  <1>1. UNCHANGED <<trx, made, approved, crashes>>
    BY DEF HostStep, CountPending, SelectPending, SelectFails, ApplyHostAnswer,
           UpdateHostResponse, UpdateFails, EndRound, SendOfflineSale, SendUninitialised,
           saleVars
  <1>2. Stored' = Stored
    BY SameTable, UpdateKeepsRows
       DEF HostStep, CountPending, SelectPending, SelectFails, ApplyHostAnswer, UpdateFails,
           EndRound, SendOfflineSale, SendUninitialised
  <1>3. Held' = Held
    BY <1>1, <1>2 DEF Held, InFlight
  <1>4. ASSUME NEW s \in Sales, NEW code \in HostCodes, SendOfflineSale(s, code)
        PROVE  [Ledger!LedgerNext]_Ledger!ledgerVars
    <2>1. s \in Stored /\ s \in approved /\ dbFailures' = dbFailures
      BY <1>4, PendingStored DEF SendOfflineSale, RoundIsPending, ApprovedInv, saleVars
    <2>2. CASE HostPosts(code)
      <3>1. Ledger!Settle({s})
        BY <1>1, <1>3, <1>4, <2>1, <2>2 DEF Ledger!Settle, SendOfflineSale, Held
      <3> QED
        BY <3>1 DEF Ledger!LedgerNext
    <2>3. CASE ~HostPosts(code)
      BY <1>1, <1>3, <1>4, <2>1, <2>3, LedgerStutters DEF SendOfflineSale
    <2> QED
      BY <2>2, <2>3
  <1>5. CASE SelectFails \/ UpdateFails
    <2>1. 1 \in Sales
      BY BoundsAssumption DEF Sales
    <2>2. posted' = posted /\ dbFailures' = dbFailures + 1 /\ dbFailures < MaxDbFailures
      BY <1>5 DEF SelectFails, UpdateFails
    <2> QED
      BY <1>1, <1>3, <2>1, <2>2, LedgerForgets
  <1>6. CASE CountPending \/ SelectPending \/ ApplyHostAnswer \/ UpdateHostResponse \/ EndRound
    <2>1. posted' = posted /\ dbFailures' = dbFailures
      BY <1>6 DEF CountPending, SelectPending, ApplyHostAnswer, UpdateHostResponse, EndRound,
                  saleVars
    <2> QED
      BY <1>1, <1>3, <2>1, LedgerStutters
  <1> QED
    BY <1>4, <1>5, <1>6, NothingUninitialised DEF HostStep

\* A delete releases a sale that is posted or was declined.
LEMMA FetchStepLedger ==
    ASSUME LedgerInv, FetchStep
    PROVE  [Ledger!LedgerNext]_Ledger!ledgerVars
  <1> USE DEF LedgerInv, SyncInv
  <1>1. UNCHANGED <<trx, made, approved, posted, crashes, dbFailures>>
    BY DEF FetchStep, FetchAuth, FetchAck, DeleteFails, DeleteFetched, saleVars, hostVars
  <1>2. InFlight' = InFlight
    BY <1>1 DEF InFlight
  <1>3. ASSUME NEW s \in Sales, DeleteFetched(s)
        PROVE  [Ledger!LedgerNext]_Ledger!ledgerVars
    <2>1. Stored' = Stored \ {s}
      BY <1>3, DeleteHandsOver
    <2>2. s \in Past \ PendingRows
      BY <1>3 DEF FetchedAreDone, DeleteFetched
    <2>3. s \notin InFlight /\ s \in 1 .. made
      <3>1. made \in Nat
        BY BoundsAssumption DEF TypeOK
      <3> QED
        BY <2>2, <3>1 DEF Past, InFlight
    <2>4. CASE s \in Stored
      <3>1. s \in posted \/ s \in Declined
        BY <2>2, <2>3, <2>4 DEF PostedInv, Declined
      <3>2. s \in Held /\ Held' = Held \ {s}
        BY <1>2, <2>1, <2>3, <2>4 DEF Held
      <3>3. Ledger!Release(s)
        BY <1>1, <3>1, <3>2 DEF Ledger!Release, Held, Declined
      <3> QED
        BY <3>3 DEF Ledger!LedgerNext
    <2>5. CASE s \notin Stored
      <3>1. Held' = Held
        BY <1>2, <2>1, <2>5 DEF Held
      <3> QED
        BY <1>1, <3>1, LedgerStutters
    <2> QED
      BY <2>4, <2>5
  <1>4. CASE UNCHANGED Transactions
    <2>1. Held' = Held
      BY <1>2, <1>4, SameTable DEF Held
    <2> QED
      BY <1>1, <2>1, LedgerStutters
  <1> QED
    BY <1>3, <1>4 DEF FetchStep, FetchAuth, FetchAck, DeleteFails

\* A kill forgets the sale that is under way.
LEMMA RestartLedger ==
    ASSUME LedgerInv, Restart
    PROVE  Ledger!LedgerNext
  <1> USE DEF LedgerInv, SyncInv
  <1>1. /\ UNCHANGED <<made, approved, posted, dbFailures>> /\ Stored' = Stored
        /\ crashes' = crashes + 1 /\ crashes < MaxCrashes /\ InFlight' = {}
    BY SameTable DEF Restart, InFlight
  <1>2. CASE InFlight = {}
    <2>1. 1 \in Sales /\ Held' = Held
      BY <1>1, <1>2, BoundsAssumption DEF Sales, Held
    <2> QED
      BY <1>1, <2>1, LedgerForgets
  <1>3. CASE InFlight # {}
    <2>1. made \in Sales \ Stored /\ InFlight = {made}
      <3>1. made \in Nat
        BY BoundsAssumption DEF TypeOK
      <3> QED
        BY <1>3, <3>1 DEF InFlight, RowsArePast, Past
    <2>2. Held' = Held \ {made}
      BY <1>1, <2>1 DEF Held
    <2> QED
      BY <1>1, <2>1, <2>2, LedgerForgets
  <1> QED
    BY <1>2, <1>3

\* An approved sale is held until the host has posted it, but for one sale per kill or
\* refused statement, and only approved sales are posted: every step is a step of the
\* ledger or none, for a client that does not fetch pending rows.
THEOREM OfflineImplementsLedger ==
    ASSUME FetchesNoPending
    PROVE  Safety => ImplementsLedger
  <1>1. Init => ApprovedInv /\ PostedInv /\ IncidentsBounded /\ Ledger!LedgerInit
    <2> SUFFICES ASSUME Init
        PROVE  ApprovedInv /\ PostedInv /\ IncidentsBounded /\ Ledger!LedgerInit
      OBVIOUS
    <2>1. Stored = {} /\ InFlight = {} /\ 1 .. made = {}
      BY DEF Init, Stored, InFlight
    <2>2. PostedInv
      BY <2>1 DEF Init, PostedInv, Asleep
    <2>3. IncidentsBounded /\ (MaxCrashes - crashes) + (MaxDbFailures - dbFailures) \in Nat
      BY BoundsAssumption DEF Init, IncidentsBounded
    <2>4. Ledger!LedgerInit
      BY <2>1, <2>3 DEF Init, Ledger!LedgerInit
    <2> QED
      BY <2>2, <2>3, <2>4, ApprovedInit
  <1>2. SyncInv => TypeOK /\ RowsArePast
    BY DEF SyncInv
  <1>3. LedgerInv /\ [Next]_vars => [Ledger!LedgerNext]_Ledger!ledgerVars
    <2> SUFFICES ASSUME LedgerInv, [Next]_vars
        PROVE  [Ledger!LedgerNext]_Ledger!ledgerVars
      OBVIOUS
    <2>1. CASE UNCHANGED vars
      <3>1. Held' = Held /\ UNCHANGED <<made, approved, posted, crashes, dbFailures>>
        BY <2>1, SameTable DEF Held, InFlight, vars, saleVars, hostVars
      <3> QED
        BY <3>1, LedgerStutters
    <2> QED
      BY <2>1, SaleStepLedger, HostStepLedger, FetchStepLedger, RestartLedger DEF Next
  <1>4. SyncInv /\ ApprovedInv /\ PostedInv /\ IncidentsBounded <=> LedgerInv
    BY DEF LedgerInv
  <1> QED
    BY <1>1, <1>2, <1>3, <1>4, SyncInvariant, FetchesNoPending, ApprovedStep, PostedStep,
       IncidentsStep, PTL
       DEF Safety, ImplementsLedger, Ledger!LedgerSpec

\* The incidents that may still come, and the sales that are lost, out of those allowed.
LossWithin(allowed) == Cardinality(Ledger!Lost) + IncidentsLeft <= allowed

\* What the promise comes to, whoever keeps it: of the approved sales that are not settled
\* no more are lost than there were incidents, and only approved ones are settled.
THEOREM LossOfLedger ==
    ASSUME NEW CONSTANT allowed \in Nat
    PROVE  Ledger!LedgerSpec /\ LossWithin(allowed)
             => [](LossWithin(allowed) /\ posted \subseteq approved)
  <1> DEFINE PriceInv ==
                /\ approved \in SUBSET Sales /\ IncidentsLeft \in Nat
                /\ posted \subseteq approved /\ LossWithin(allowed)
  <1>1. Ledger!LedgerInit /\ LossWithin(allowed) => PriceInv
    BY DEF Ledger!LedgerInit, IncidentsLeft
  <1>2. PriceInv /\ [Ledger!LedgerNext]_Ledger!ledgerVars => PriceInv'
    <2> SUFFICES ASSUME PriceInv, [Ledger!LedgerNext]_Ledger!ledgerVars PROVE PriceInv'
      OBVIOUS
    <2>1. Ledger!Lost \in SUBSET Sales
      BY DEF Ledger!Lost
    <2>2. ASSUME IncidentsLeft' = IncidentsLeft, Ledger!Lost' \subseteq Ledger!Lost
          PROVE  LossWithin(allowed)'
      <3>1. /\ Cardinality(Ledger!Lost') <= Cardinality(Ledger!Lost)
            /\ Cardinality(Ledger!Lost) \in Nat /\ Cardinality(Ledger!Lost') \in Nat
        BY <2>1, <2>2, NoMore, RowsFinite
      <3> QED
        BY <2>2, <3>1 DEF LossWithin
    <2>3. ASSUME NEW s \in Sales, Ledger!Take(s) \/ Ledger!Refuse(s) \/ Ledger!Release(s)
          PROVE  PriceInv'
      <3>1. Ledger!Lost' \subseteq Ledger!Lost /\ IncidentsLeft' = IncidentsLeft
        BY <2>3 DEF Ledger!Lost, Ledger!Take, Ledger!Refuse, Ledger!Release, IncidentsLeft
      <3> QED
        BY <2>2, <2>3, <3>1 DEF Ledger!Take, Ledger!Refuse, Ledger!Release, IncidentsLeft
    <2>4. ASSUME NEW S \in SUBSET Sales, Ledger!Settle(S)
          PROVE  PriceInv'
      <3>1. Ledger!Lost' \subseteq Ledger!Lost /\ IncidentsLeft' = IncidentsLeft
        BY <2>4 DEF Ledger!Lost, Ledger!Settle, IncidentsLeft
      <3> QED
        BY <2>2, <2>4, <3>1 DEF Ledger!Settle, IncidentsLeft
    <2>5. ASSUME NEW s \in Sales, Ledger!Incident(s)
          PROVE  PriceInv'
      <3>1. /\ Ledger!Lost' \subseteq Ledger!Lost \cup {s}
            /\ IncidentsLeft > 0 /\ IncidentsLeft' = IncidentsLeft - 1
        BY <2>5 DEF Ledger!Lost, Ledger!Incident, IncidentsLeft
      <3>2. Ledger!Lost' \in SUBSET Sales
        BY <2>1, <3>1
      <3>3. /\ Cardinality(Ledger!Lost') <= Cardinality(Ledger!Lost) + 1
            /\ Cardinality(Ledger!Lost) \in Nat /\ Cardinality(Ledger!Lost') \in Nat
        BY <2>1, <3>1, <3>2, OneMore, RowsFinite
      <3> QED
        BY <2>5, <3>1, <3>3 DEF LossWithin, Ledger!Incident, IncidentsLeft
    <2>6. CASE UNCHANGED Ledger!ledgerVars
      <3>1. Ledger!Lost' = Ledger!Lost /\ IncidentsLeft' = IncidentsLeft
        BY <2>6 DEF Ledger!Lost, Ledger!ledgerVars, IncidentsLeft
      <3> QED
        BY <2>2, <2>6, <3>1 DEF Ledger!ledgerVars, IncidentsLeft
    <2> QED
      BY <2>3, <2>4, <2>5, <2>6 DEF Ledger!LedgerNext
  <1>3. PriceInv => LossWithin(allowed) /\ posted \subseteq approved
    OBVIOUS
  <1> QED
    BY <1>1, <1>2, <1>3, PTL DEF Ledger!LedgerSpec

-----------------------------------------------------------------------------
(* What the data channel sees.  FetchChannels takes the steps of           *)
(* TransactionRows for the threads that make and send sales; these are the *)
(* steps this module takes.                                                *)

Table == INSTANCE TransactionRows

RowSeen(row) == [online |-> FALSE, txn |-> row.txn, host |-> row.host]

\* The list of the host thread names rows that are settled or gone only when the client
\* deletes pending ones.
StaleEntries == ~FetchesNoPending

RowStep(s) ==
    \/ Transactions[s] = NoRow /\ RowSeen(Transactions'[s]) \in Table!NewRows
    \/ RowSeen(Transactions'[s]) \in Table!Changes(RowSeen(Transactions[s]), StaleEntries)
    \/ DeleteFetched(s)

\* One row at a time is made, changed or deleted, and only as TransactionRows says.
OfflineRowsAsAssumed ==
    [][\/ UNCHANGED Transactions
       \/ \E s \in Sales : /\ \A r \in Sales \ {s} : Transactions'[r] = Transactions[r]
                           /\ RowStep(s)]_vars

\* The row an answer goes to was approved, and an approved row takes an answer.
AnswerInv ==
    /\ host.pc \in {"answer", "update"} => host.cur \in approved \cup {NoSale}
    /\ \A s \in Stored : Transactions[s].host = "NA" => Transactions[s].txn = "Failure"

LEMMA AnswerInvStays ==
    ASSUME AnswerInv, UNCHANGED <<Transactions, host>>, approved \subseteq approved'
    PROVE  AnswerInv'
  <1>1. Stored' = Stored
    BY SameTable
  <1> QED
    BY <1>1 DEF AnswerInv

LEMMA SaleStepAnswer ==
    ASSUME TypeOK, RowsArePast, AnswerInv, SaleStep
    PROVE  AnswerInv'
  <1>1. host' = host /\ approved \subseteq approved'
    BY DEF SaleStep, StartReading, EndWithoutRecord, CountSale, StoreSale, StoreSaleFails,
           ReportSale, hostVars
  <1>2. CASE UNCHANGED Transactions
    BY <1>1, <1>2, AnswerInvStays
  <1>3. CASE StoreSale
    <2>1. /\ Stored' = Stored \cup {made} /\ made \in Sales \ Stored
          /\ Transactions' = [Transactions EXCEPT ![made] = NewRow(trx.status)]
      BY <1>3, StoreAddsRow DEF StoreSale
    <2>2. /\ Transactions'[made] = NewRow(trx.status)
          /\ \A s \in Stored : Transactions'[s] = Transactions[s]
      BY <2>1 DEF Stored, TypeOK
    <2>3. NewRow(trx.status).host = "NA" => NewRow(trx.status).txn = "Failure"
      BY DEF NewRow, TypeOK
    <2> QED
      BY <1>1, <2>1, <2>2, <2>3 DEF AnswerInv
  <1> QED
    BY <1>2, <1>3
       DEF SaleStep, StartReading, EndWithoutRecord, CountSale, StoreSaleFails, ReportSale

\* What the host's answer does to its row, and to no other.
LEMMA UpdateChangesRow ==
    ASSUME TypeOK, UpdateHostResponse, host.cur \in Stored
    PROVE  /\ host.cur \in Sales /\ Transactions[host.cur] \in Row
           /\ Transactions'[host.cur]
                = [txn |-> Transactions[host.cur].txn, host |-> HostStatusOf(host.code)]
           /\ \A r \in Sales \ {host.cur} : Transactions'[r] = Transactions[r]
  <1>1. host.cur \in Sales /\ Transactions[host.cur] \in Row
    BY DEF Stored, TypeOK
  <1>2. [Transactions[host.cur] EXCEPT !.host = HostStatusOf(host.code)]
          = [txn |-> Transactions[host.cur].txn, host |-> HostStatusOf(host.code)]
    BY <1>1 DEF Row
  <1> QED
    BY <1>1, <1>2 DEF UpdateHostResponse, TypeOK

LEMMA HostStepAnswer ==
    ASSUME TypeOK, ApprovedInv, AnswerInv, HostStep
    PROVE  AnswerInv'
  <1>1. approved' = approved
    BY DEF HostStep, CountPending, SelectPending, SelectFails, ApplyHostAnswer,
           UpdateHostResponse, UpdateFails, EndRound, SendOfflineSale, SendUninitialised,
           saleVars
  <1>2. host'.pc \in {"answer", "update"} => host'.cur \in approved \cup {NoSale}
    <2>0. CASE SelectPending
      BY <2>0 DEF SelectPending, TypeOK, HostLocals
    <2>1. CASE CountPending \/ UpdateHostResponse \/ UpdateFails
      BY <2>1 DEF CountPending, UpdateHostResponse, UpdateFails, TypeOK, HostLocals
    <2>5. CASE SelectFails \/ EndRound
      BY <2>5 DEF SelectFails, EndRound, Asleep
    <2>2. CASE ApplyHostAnswer
      BY <2>2 DEF ApplyHostAnswer, AnswerInv, TypeOK, HostLocals
    <2>3. ASSUME NEW s \in Sales, NEW code \in HostCodes, SendOfflineSale(s, code)
          PROVE  host'.cur \in approved
      BY <2>3 DEF SendOfflineSale, ApprovedInv, TypeOK, HostLocals
    <2>4. ASSUME NEW s \in Sales \cup {NoSale}, NEW code \in HostCodes,
                 SendUninitialised(s, code)
          PROVE  host'.cur \in approved \cup {NoSale}
      BY <2>4 DEF SendUninitialised, ApprovedInv, TypeOK, HostLocals
    <2> QED
      BY <2>0, <2>1, <2>2, <2>3, <2>4, <2>5 DEF HostStep
  <1>3. \A s \in Stored' : Transactions'[s].host = "NA" => Transactions'[s].txn = "Failure"
    <2>1. CASE UNCHANGED Transactions
      BY <2>1, SameTable DEF AnswerInv
    <2>2. CASE UpdateHostResponse /\ host.cur \in Stored
      <3>1. Stored' = Stored /\ HostStatusOf(host.code) # "NA"
        BY <2>2, UpdateKeepsRows DEF HostStatusOf
      <3>2. \A s \in Stored : s \in Sales
        BY DEF Stored
      <3> QED
        BY <2>2, <3>1, <3>2, UpdateChangesRow DEF AnswerInv
    <2> QED
      BY <2>1, <2>2
         DEF HostStep, CountPending, SelectPending, SelectFails, ApplyHostAnswer,
             UpdateHostResponse, UpdateFails, EndRound, SendOfflineSale, SendUninitialised
  <1> QED
    BY <1>1, <1>2, <1>3 DEF AnswerInv

LEMMA AnswerStep ==
    ASSUME TypeOK, RowsArePast, ApprovedInv, AnswerInv, [Next]_vars
    PROVE  AnswerInv'
  <1>1. CASE FetchStep
    <2>1. UNCHANGED <<host, approved>>
      BY <1>1 DEF FetchStep, FetchAuth, FetchAck, DeleteFails, DeleteFetched, saleVars, hostVars
    <2>2. ASSUME NEW s \in Sales, DeleteFetched(s)
          PROVE  AnswerInv'
      <3>1. Stored' = Stored \ {s}
        BY <2>2, DeleteHandsOver
      <3>2. \A r \in Stored' : Transactions'[r] = Transactions[r]
        BY <2>2, <3>1 DEF DeleteFetched, Stored, TypeOK
      <3> QED
        BY <2>1, <3>1, <3>2 DEF AnswerInv
    <2>3. CASE UNCHANGED Transactions
      BY <2>1, <2>3, AnswerInvStays
    <2> QED
      BY <1>1, <2>2, <2>3 DEF FetchStep, FetchAuth, FetchAck, DeleteFails
  <1>2. CASE Restart
    <2>1. Stored' = Stored /\ host'.pc = "sleep" /\ UNCHANGED Transactions
      BY <1>2, SameTable DEF Restart, Asleep
    <2> QED
      BY <2>1 DEF AnswerInv
  <1>3. CASE UNCHANGED vars
    BY <1>3, AnswerInvStays DEF vars, saleVars, hostVars
  <1> QED
    BY <1>1, <1>2, <1>3, SaleStepAnswer, HostStepAnswer DEF Next

LEMMA HostColumnOnly ==
    \A online, txn, from, to :
        [[online |-> online, txn |-> txn, host |-> from] EXCEPT !.host = to]
            = [online |-> online, txn |-> txn, host |-> to]
  OBVIOUS

\* The host's answer is a change TransactionRows knows.
LEMMA AnswerAsAssumed ==
    ASSUME TypeOK, ApprovedInv, AnswerInv, FetchesNoPending => RoundIsPending,
           UpdateHostResponse, host.cur \in Stored,
           Transactions' # Transactions
    PROVE  RowSeen(Transactions'[host.cur])
             \in Table!Changes(RowSeen(Transactions[host.cur]), StaleEntries)
  <1> DEFINE row == Transactions[host.cur]
  <1>1. /\ host.cur \in Sales /\ row \in Row
        /\ Transactions'[host.cur] = [txn |-> row.txn, host |-> HostStatusOf(host.code)]
        /\ \A r \in Sales \ {host.cur} : Transactions'[r] = Transactions[r]
    BY UpdateChangesRow
  <1>2. row.txn = "Success" /\ row.host \in {"Pending", "Success"}
    <2>1. host.cur \in approved
      BY <1>1 DEF AnswerInv, UpdateHostResponse, Sales, NoSale
    <2> QED
      BY <1>1, <2>1 DEF ApprovedInv, AnswerInv, Row
  <1>3. HostStatusOf(host.code) # row.host
    <2>1. SUFFICES ASSUME HostStatusOf(host.code) = row.host
                   PROVE  FALSE
      OBVIOUS
    <2>2. row = [txn |-> row.txn, host |-> row.host]
      BY <1>1 DEF Row
    <2>3. \A r \in Sales : Transactions'[r] = Transactions[r]
      BY <1>1, <2>1, <2>2
    <2>4. Transactions' = [Transactions EXCEPT ![host.cur].host = HostStatusOf(host.code)]
      BY DEF UpdateHostResponse
    <2> QED
      BY <2>3, <2>4 DEF TypeOK
  <1>4. HostStatusOf(host.code) \in {"Pending", "Success"}
    BY DEF HostStatusOf
  <1>5. row.host = "Success" => StaleEntries
    <2>1. FetchesNoPending => host.cur \in PendingRows
      BY DEF RoundIsPending, UpdateHostResponse
    <2> QED
      BY <2>1 DEF PendingRows, StaleEntries
  <1>6. RowSeen(row) = [online |-> FALSE, txn |-> "Success", host |-> row.host]
    BY <1>2 DEF RowSeen
  <1>7. RowSeen(Transactions'[host.cur])
          = [online |-> FALSE, txn |-> "Success", host |-> HostStatusOf(host.code)]
    BY <1>1, <1>2 DEF RowSeen
  <1>8. CASE row.host = "Pending"
    <2>1. Table!Changes([online |-> FALSE, txn |-> "Success", host |-> "Pending"], StaleEntries)
            = {[online |-> FALSE, txn |-> "Success", host |-> "Success"]}
      BY HostColumnOnly DEF Table!Changes, Table!OfflineChanges
    <2>2. HostStatusOf(host.code) = "Success"
      BY <1>3, <1>4, <1>8
    <2> QED
      BY <1>6, <1>7, <1>8, <2>1, <2>2
  <1>9. CASE row.host = "Success"
    <2>1. Table!Changes([online |-> FALSE, txn |-> "Success", host |-> "Success"], StaleEntries)
            = {[online |-> FALSE, txn |-> "Success", host |-> "Pending"]}
      <3> DEFINE accepted == [online |-> FALSE, txn |-> "Success", host |-> "Success"]
      <3>1. Table!Changes(accepted, StaleEntries) = Table!OfflineChanges(accepted, StaleEntries)
        BY DEF Table!Changes
      <3>2. Table!OfflineChanges(accepted, StaleEntries) = {[accepted EXCEPT !.host = "Pending"]}
        BY <1>5, <1>9 DEF Table!OfflineChanges
      <3> QED
        BY <3>1, <3>2, HostColumnOnly
    <2>2. HostStatusOf(host.code) = "Pending"
      BY <1>3, <1>4, <1>9
    <2> QED
      BY <1>6, <1>7, <1>9, <2>1, <2>2
  <1> QED
    BY <1>2, <1>8, <1>9

\* The sales thread and the host thread do to the rows what FetchChannels takes them to
\* do, stale entries and all, whatever the client fetches.
THEOREM OfflineRows == Safety => OfflineRowsAsAssumed
  <1> DEFINE RowsInv == /\ TypeOK /\ RowsArePast /\ ApprovedInv /\ AnswerInv
                        /\ FetchesNoPending => RoundIsPending
             Kept == \/ UNCHANGED Transactions
                     \/ \E s \in Sales :
                           /\ \A r \in Sales \ {s} : Transactions'[r] = Transactions[r]
                           /\ RowStep(s)
  <1>1. RowsInv /\ [Next]_vars => [Kept]_vars
    <2> SUFFICES ASSUME RowsInv, Next, Transactions' # Transactions
        PROVE  Kept
      OBVIOUS
    <2>1. CASE StoreSale
      <3>1. /\ made \in Sales \ Stored
            /\ Transactions' = [Transactions EXCEPT ![made] = NewRow(trx.status)]
        BY <2>1, StoreAddsRow DEF StoreSale
      <3>2. /\ Transactions[made] = NoRow /\ Transactions'[made] = NewRow(trx.status)
            /\ \A r \in Sales \ {made} : Transactions'[r] = Transactions[r]
        BY <3>1 DEF Stored, TypeOK
      <3>3. RowSeen(NewRow(trx.status)) \in Table!NewRows
        BY DEF RowSeen, NewRow, Table!NewRows, TypeOK
      <3>4. RowStep(made)
        BY <3>2, <3>3 DEF RowStep
      <3> QED
        BY <3>1, <3>2, <3>4
    <2>2. CASE UpdateHostResponse
      <3>1. host.cur \in Stored
        BY <2>2 DEF UpdateHostResponse
      <3>2. /\ host.cur \in Sales
            /\ \A r \in Sales \ {host.cur} : Transactions'[r] = Transactions[r]
        BY <2>2, <3>1, UpdateChangesRow
      <3>3. RowStep(host.cur)
        BY <2>2, <3>1, AnswerAsAssumed DEF RowStep
      <3> QED
        BY <3>2, <3>3
    <2>3. ASSUME NEW s \in Sales, DeleteFetched(s)
          PROVE  Kept
      <3>1. \A r \in Sales \ {s} : Transactions'[r] = Transactions[r]
        BY <2>3 DEF DeleteFetched, TypeOK
      <3> QED
        BY <2>3, <3>1 DEF RowStep
    <2>4. \/ StoreSale \/ UpdateHostResponse \/ \E s \in Sales : DeleteFetched(s)
      BY DEF Next, SaleStep, StartReading, EndWithoutRecord, CountSale, StoreSaleFails,
             ReportSale, HostStep, CountPending, SelectPending, SelectFails, ApplyHostAnswer,
             UpdateFails, EndRound, SendOfflineSale, SendUninitialised, FetchStep, FetchAuth,
             FetchAck, DeleteFails, Restart
    <2> QED
      BY <2>1, <2>2, <2>3, <2>4
  <1>2. Init => AnswerInv
    <2> SUFFICES ASSUME Init PROVE AnswerInv
      OBVIOUS
    <2>1. Stored = {} /\ host.pc = "sleep"
      BY DEF Init, Stored, Asleep
    <2> QED
      BY <2>1 DEF AnswerInv
  <1>3. Safety => [](FetchesNoPending => RoundIsPending)
    <2>1. CASE FetchesNoPending
      <3>1. SyncInv => (FetchesNoPending => RoundIsPending)
        BY DEF SyncInv
      <3> QED
        BY <2>1, <3>1, SyncInvariant, PTL
    <2>2. CASE ~FetchesNoPending
      <3>1. FetchesNoPending => RoundIsPending
        BY <2>2
      <3> QED
        BY <3>1, PTL
    <2> QED
      BY <2>1, <2>2
  <1> QED
    BY <1>1, <1>2, <1>3, ApprovedInit, ApprovedStep, AnswerStep, RowsStayPast, TypeCorrect, PTL
       DEF Safety, OfflineRowsAsAssumed
=============================================================================
