------------------------- MODULE FetchChannels_proofs -------------------------
(***************************************************************************)
(* Theorems about FetchChannels, for any number of rows, any length of the *)
(* list, any number of requests, kills and refused statements.             *)
(***************************************************************************)
EXTENDS FetchChannels, FiniteSetTheorems, TLAPS

-----------------------------------------------------------------------------
(* The types, and the length of the list.  What keeps the count within two *)
(* lists is a budget: each fetch sets the count to zero and adds at most   *)
(* one list, so that whoever resets the count last leaves room for the     *)
(* other client's fetch that is still under way.                           *)

\* What the fetch on a channel may still add to the count.
Budget(ch) ==
    IF ch \notin Channels THEN 0
    ELSE CASE handler[ch].pc = "read" -> MAX_FETCH_COUNT - Cardinality(handler[ch].got)
           [] handler[ch].pc = "count" -> MAX_FETCH_COUNT - Cardinality(handler[ch].got) + 1
           [] OTHER -> 0

AllBudgets == Budget("data") + Budget("serial")

\* The rows a fetch has read are the first ones, no more than asked for.
ReadsFirst(local) ==
    /\ local.max <= MAX_FETCH_COUNT
    /\ local.got \subseteq 1 .. local.last
    /\ Cardinality(local.got) <= local.max
    /\ local.pc = "count" => local.got # {}

ReadInv == \A ch \in Channels : ReadsFirst(handler[ch])

BudgetInv == fetchedCount + AllBudgets <= 2 * MAX_FETCH_COUNT

FetchInv == TypeOK /\ ReadInv /\ BudgetInv

\* Sets of rows are finite.
LEMMA RowsFinite ==
    ASSUME NEW S \in SUBSET Ids
    PROVE  /\ IsFiniteSet(S) /\ Cardinality(S) \in Nat
           /\ S # {} => Cardinality(S) >= 1
  <1>1. IsFiniteSet(Ids)
    BY FS_Interval, FetchBounds DEF Ids
  <1>2. IsFiniteSet(S)
    BY <1>1, FS_Subset
  <1> QED
    BY <1>2, FS_CardinalityType, FS_EmptySet

\* A budget is at most one list.
LEMMA BudgetRange ==
    ASSUME TypeOK, ReadInv, NEW ch
    PROVE  Budget(ch) \in 0 .. MAX_FETCH_COUNT
  <1>1. CASE ch \notin Channels
    BY <1>1, FetchBounds DEF Budget
  <1>2. CASE ch \in Channels
    <2>1. handler[ch].got \in SUBSET Ids /\ handler[ch].max \in Nat
      BY <1>2 DEF TypeOK
    <2>2. /\ Cardinality(handler[ch].got) \in Nat
          /\ handler[ch].got # {} => Cardinality(handler[ch].got) >= 1
      BY <2>1, RowsFinite
    <2> QED
      BY <1>2, <2>1, <2>2, FetchBounds DEF Budget, ReadInv, ReadsFirst
  <1> QED
    BY <1>1, <1>2

\* A step on one channel leaves the budget of the other alone.
LEMMA BudgetMoves ==
    ASSUME TypeOK, ReadInv, TypeOK', ReadInv', NEW ch \in Channels,
           \A other \in Channels \ {ch} : handler'[other] = handler[other]
    PROVE  /\ AllBudgets' = AllBudgets - Budget(ch) + Budget(ch)'
           /\ AllBudgets - Budget(ch) \in 0 .. MAX_FETCH_COUNT
           /\ Budget(ch) \in 0 .. MAX_FETCH_COUNT /\ Budget(ch)' \in 0 .. MAX_FETCH_COUNT
  <1>1. ch \in {"data", "serial"}
    BY FetchKinds
  <1>2. ASSUME NEW other, other # ch PROVE Budget(other)' = Budget(other)
    BY <1>2 DEF Budget
  <1>3. \A c : Budget(c) \in 0 .. MAX_FETCH_COUNT
    BY BudgetRange
  <1>4. \A c : Budget(c)' \in 0 .. MAX_FETCH_COUNT
    <2> SUFFICES ASSUME NEW c PROVE Budget(c)' \in 0 .. MAX_FETCH_COUNT
      OBVIOUS
    <2>1. CASE c \notin Channels
      BY <2>1, FetchBounds DEF Budget
    <2>2. CASE c \in Channels
      <3>1. handler'[c].got \in SUBSET Ids /\ handler'[c].max \in Nat
        BY <2>2 DEF TypeOK
      <3>2. /\ Cardinality(handler'[c].got) \in Nat
            /\ handler'[c].got # {} => Cardinality(handler'[c].got) >= 1
        BY <3>1, RowsFinite
      <3> QED
        BY <2>2, <3>1, <3>2, FetchBounds DEF Budget, ReadInv, ReadsFirst
    <2> QED
      BY <2>1, <2>2
  <1>5. CASE ch = "data"
    <2>1. Budget("serial")' = Budget("serial")
      BY <1>2, <1>5
    <2> QED
      BY <1>3, <1>4, <1>5, <2>1 DEF AllBudgets
  <1>6. CASE ch = "serial"
    <2>1. Budget("data")' = Budget("data")
      BY <1>2, <1>6
    <2> QED
      BY <1>3, <1>4, <1>6, <2>1 DEF AllBudgets
  <1> QED
    BY <1>1, <1>5, <1>6

\* A step of one channel's handler: the count starts over, or the step pays for what it
\* adds to it.
Moves(ch) ==
    /\ \A other \in Channels \ {ch} : handler'[other] = handler[other]
    /\ \/ fetchedCount' = 0
       \/ fetchedCount' + Budget(ch)' <= fetchedCount + Budget(ch)

LEMMA BudgetKept ==
    ASSUME FetchInv, TypeOK', ReadInv', NEW ch \in Channels, Moves(ch)
    PROVE  FetchInv'
  <1>1. /\ AllBudgets' = AllBudgets - Budget(ch) + Budget(ch)'
        /\ AllBudgets - Budget(ch) \in 0 .. MAX_FETCH_COUNT
        /\ Budget(ch) \in 0 .. MAX_FETCH_COUNT /\ Budget(ch)' \in 0 .. MAX_FETCH_COUNT
    BY BudgetMoves DEF FetchInv, Moves
  <1>2. fetchedCount \in Nat /\ fetchedCount' \in Nat
    BY FetchBounds DEF FetchInv, TypeOK, Entries
  <1>3. AllBudgets \in Int
    <2>1. Budget("data") \in 0 .. MAX_FETCH_COUNT /\ Budget("serial") \in 0 .. MAX_FETCH_COUNT
      BY BudgetRange DEF FetchInv
    <2> QED
      BY <2>1, FetchBounds DEF AllBudgets
  <1>4. BudgetInv'
    BY <1>1, <1>2, <1>3, FetchBounds DEF BudgetInv, FetchInv, Moves
  <1> QED
    BY <1>4 DEF FetchInv

LEMMA FreeTyped ==
    /\ Free \in [pc : {"free", "select", "read", "count", "delete"}, mode : Modes \cup {"none"},
                 online : BOOLEAN, max : Nat, last : Ids \cup {NoId}, got : SUBSET Ids, i : Nat]
    /\ NoReply \in [id : FetchIds \cup {0}, mode : Modes \cup {"none"},
                    seen : [Ids -> Row \cup {NoRow}]]
  BY DEF Free, NoReply, FetchIds, NoId

LEMMA FetchInit == Init => FetchInv
  <1> SUFFICES ASSUME Init PROVE FetchInv
    OBVIOUS
  <1>1. TypeOK
    BY FetchBounds, FetchKinds, FreeTyped DEF Init, TypeOK
  <1>2. ReadInv
    BY FS_EmptySet, FetchBounds DEF Init, ReadInv, ReadsFirst, Free
  <1>3. AllBudgets = 0
    BY DEF Init, AllBudgets, Budget, Free
  <1> QED
    BY <1>1, <1>2, <1>3, FetchBounds DEF Init, FetchInv, BudgetInv

-----------------------------------------------------------------------------
(* The steps, one at a time.                                               *)

\* What a change of a row is.
LEMMA ChangesTyped ==
    ASSUME NEW row \in Row, NEW stale \in BOOLEAN, NEW new \in Changes(row, stale)
    PROVE  /\ new \in Row /\ new.online = row.online
           /\ ~row.online =>
                 /\ new.txn = row.txn
                 /\ \/ row.host = "Pending" /\ new.host = "Success"
                    \/ row.host = "Success" /\ row.txn = "Success" /\ stale
  <1>1. CASE row.online
    <2>1. new \in OnlineChanges(row)
      BY <1>1 DEF Changes
    <2>2. CASE row.host = "Pending"
      BY <1>1, <2>1, <2>2 DEF OnlineChanges, Row
    <2>3. CASE row.host # "Pending"
      BY <1>1, <2>1, <2>3 DEF OnlineChanges, Row
    <2> QED
      BY <2>2, <2>3
  <1>2. CASE ~row.online
    <2>1. new \in OfflineChanges(row, stale)
      BY <1>2 DEF Changes
    <2>2. CASE row.host = "Pending"
      BY <1>2, <2>1, <2>2 DEF OfflineChanges, Row
    <2>3. CASE row.host = "Success" /\ row.txn = "Success" /\ stale
      BY <1>2, <2>1, <2>3 DEF OfflineChanges, Row
    <2>4. CASE ~(row.host = "Pending") /\ ~(row.host = "Success" /\ row.txn = "Success" /\ stale)
      BY <2>1, <2>4 DEF OfflineChanges
    <2> QED
      BY <2>2, <2>3, <2>4
  <1> QED
    BY <1>1, <1>2

\* A row is stored or changed.
LEMMA RowStepTypeOK ==
    ASSUME TypeOK,
           \/ \E row \in NewRows : StoreRow(row)
           \/ \E r \in Ids : \E row \in RowChanges(r) : ChangeRow(r, row)
    PROVE  TypeOK' /\ UNCHANGED <<handler, list, client, ghosts, bounds>>
  <1>1. ASSUME NEW row \in NewRows, StoreRow(row)
        PROVE  TypeOK' /\ UNCHANGED <<handler, list, client, ghosts, bounds>>
    <2>1. row \in Row
      <3>1. /\ [online |-> FALSE, txn |-> "Success", host |-> "Pending"] \in Row
            /\ [online |-> FALSE, txn |-> "Failure", host |-> "NA"] \in Row
            /\ [online |-> TRUE, txn |-> "Pending", host |-> "Pending"] \in Row
        BY DEF Row
      <3> QED
        BY <3>1 DEF NewRows
    <2>2. rows' \in 0 .. MaxRows
      BY <1>1, FetchBounds DEF StoreRow, TypeOK
    <2>3. UNCHANGED <<handler, list, client, ghosts, bounds>>
      BY <1>1 DEF StoreRow
    <2>4. Transactions' \in [Ids -> Row \cup {NoRow}]
      BY <1>1, <2>1 DEF StoreRow, TypeOK
    <2> QED
      BY <2>2, <2>3, <2>4 DEF TypeOK, list, ghosts, bounds
  <1>2. ASSUME NEW r \in Ids, NEW row \in RowChanges(r), ChangeRow(r, row)
        PROVE  TypeOK' /\ UNCHANGED <<handler, list, client, ghosts, bounds>>
    <2>1. Transactions[r] \in Row
      BY <1>2 DEF ChangeRow, TypeOK
    <2>2. row \in Row
      BY <2>1, ChangesTyped DEF RowChanges, TypeOK
    <2>3. UNCHANGED <<handler, list, client, ghosts, bounds, rows>>
      BY <1>2 DEF ChangeRow
    <2>4. Transactions' \in [Ids -> Row \cup {NoRow}]
      BY <1>2, <2>2 DEF ChangeRow, TypeOK
    <2> QED
      BY <2>3, <2>4 DEF TypeOK, list, ghosts, bounds
  <1> QED
    BY <1>1, <1>2

\* A fetch with nothing read yet.
LEMMA FetchAuthInv ==
    ASSUME FetchInv, NEW ch \in Channels, NEW id \in FetchIds, NEW mode \in Modes,
           NEW online \in BOOLEAN, NEW records \in MaxRecords,
           FetchAuth(ch, id, mode, online, records)
    PROVE  FetchInv' /\ Moves(ch)
  <1> USE DEF FetchInv
  <1>1. Records(records) \in Nat /\ Records(records) <= MAX_FETCH_COUNT
    BY FetchKinds, FetchBounds DEF Records
  <1>2. handler' = [handler EXCEPT ![ch] = [Free EXCEPT !.pc = "select", !.mode = mode,
                                                        !.online = online,
                                                        !.max = Records(records)]]
    BY DEF FetchAuth
  <1>3. handler'[ch] = [pc |-> "select", mode |-> mode, online |-> online,
                        max |-> Records(records), last |-> NoId, got |-> {}, i |-> 0]
    BY <1>2 DEF TypeOK, Free
  <1>4. \A other \in Channels \ {ch} : handler'[other] = handler[other]
    BY <1>2 DEF TypeOK
  <1>5. client' \in [Channels -> [id : FetchIds \cup {0}, mode : Modes \cup {"none"},
                                  seen : [Ids -> Row \cup {NoRow}]]]
    BY FreeTyped DEF FetchAuth, TypeOK
  <1>6. handler' \in [Channels ->
          [pc : {"free", "select", "read", "count", "delete"}, mode : Modes \cup {"none"},
           online : BOOLEAN, max : Nat, last : Ids \cup {NoId}, got : SUBSET Ids, i : Nat]]
    BY <1>1, <1>2, FreeTyped DEF TypeOK
  <1>7. requests' \in Nat /\ activeFetchId' \in FetchIds \cup {0}
    BY DEF FetchAuth, TypeOK
  <1>8. UNCHANGED <<Transactions, rows, fetchTransactionIdList, fetchedCount, acked, deleted,
                    cleared, crashes, dbFailures, orderly, cautious>>
    BY DEF FetchAuth, ghosts
  <1>9. TypeOK'
    BY <1>5, <1>6, <1>7, <1>8 DEF TypeOK
  <1>10. ReadInv'
    BY <1>1, <1>3, <1>4, FS_EmptySet DEF ReadInv, ReadsFirst
  <1>11. Budget(ch)' = 0
    BY <1>3 DEF Budget
  <1>12. fetchedCount' + Budget(ch)' <= fetchedCount + Budget(ch)
    BY <1>8, <1>11, BudgetRange, FetchBounds DEF TypeOK, Entries
  <1> QED
    BY <1>4, <1>9, <1>10, <1>12, BudgetKept DEF Moves

\* The locals of a handler.
HandlerLocals ==
    [pc : {"free", "select", "read", "count", "delete"}, mode : Modes \cup {"none"},
     online : BOOLEAN, max : Nat, last : Ids \cup {NoId}, got : SUBSET Ids, i : Nat]

\* A handler that is free, or that moves on without reading a row.
LEMMA HandlerMoves ==
    ASSUME FetchInv, NEW ch \in Channels, NEW local \in HandlerLocals,
           handler' = [handler EXCEPT ![ch] = local],
           \/ local.got = {} /\ local.last = NoId /\ local.max = 0 /\ local.pc # "count"
           \/ /\ local.got = handler[ch].got /\ local.last = handler[ch].last
              /\ local.max = handler[ch].max /\ local.pc # "count"
    PROVE  /\ handler' \in [Channels -> HandlerLocals]
           /\ ReadInv' /\ handler'[ch] = local
           /\ \A other \in Channels \ {ch} : handler'[other] = handler[other]
  <1>1. handler \in [Channels -> HandlerLocals]
    BY DEF FetchInv, TypeOK, HandlerLocals
  <1>2. /\ handler' \in [Channels -> HandlerLocals] /\ handler'[ch] = local
        /\ \A other \in Channels \ {ch} : handler'[other] = handler[other]
    BY <1>1
  <1>3. ReadsFirst(local)
    <2>1. CASE local.got = {} /\ local.last = NoId /\ local.max = 0 /\ local.pc # "count"
      BY <2>1, FS_EmptySet, FetchBounds DEF ReadsFirst
    <2>2. CASE ~(local.got = {} /\ local.last = NoId /\ local.max = 0 /\ local.pc # "count")
      BY <2>2 DEF FetchInv, ReadInv, ReadsFirst
    <2> QED
      BY <2>1, <2>2
  <1>4. ReadInv'
    BY <1>2, <1>3 DEF FetchInv, ReadInv, ReadsFirst
  <1> QED
    BY <1>2, <1>4

LEMMA HandlerTyped ==
    ASSUME FetchInv
    PROVE  handler \in [Channels -> HandlerLocals]
  BY DEF FetchInv, TypeOK, HandlerLocals

\* The steps of a fetch.
LEMMA FetchStepInv ==
    ASSUME FetchInv, NEW ch \in Channels, Select(ch) \/ SelectFails(ch) \/ CountRow(ch) \/ EndFetch(ch)
    PROVE  FetchInv' /\ Moves(ch)
  <1> DEFINE local == handler'[ch]
  <1>0. handler \in [Channels -> HandlerLocals]
    BY HandlerTyped
  <1>1. Free \in HandlerLocals /\ Free.got = {} /\ Free.last = NoId /\ Free.max = 0 /\ Free.pc = "free"
    BY FreeTyped DEF HandlerLocals, Free
  <1>2. CASE Select(ch)
    <2> DEFINE v == [handler[ch] EXCEPT !.pc = "read"]
    <2>1. handler' = [handler EXCEPT ![ch] = v] /\ fetchedCount' = 0
      BY <1>0, <1>2 DEF Select, Goes, CountAtSelect
    <2>2. /\ v \in HandlerLocals /\ v.got = handler[ch].got /\ v.last = handler[ch].last
          /\ v.max = handler[ch].max /\ v.pc = "read"
      BY <1>0 DEF HandlerLocals
    <2> HIDE DEF v
    <2>3. TypeOK'
      <3>1. handler' \in [Channels -> HandlerLocals]
        BY <1>0, <2>1, <2>2
      <3>2. UNCHANGED <<Transactions, rows, activeFetchId, fetchTransactionIdList, client,
                        acked, deleted, cleared, requests, crashes, dbFailures, orderly, cautious>>
        BY <1>2 DEF Select, ghosts, bounds
      <3> QED
        BY <2>1, <3>1, <3>2 DEF FetchInv, TypeOK, HandlerLocals
    <2> QED
      BY <2>1, <2>2, <2>3, HandlerMoves, BudgetKept DEF Moves
  <1>3. CASE SelectFails(ch)
    <2>1. handler' = [handler EXCEPT ![ch] = Free] /\ fetchedCount' = 0
      BY <1>3 DEF SelectFails, CountAtSelect
    <2>2. TypeOK'
      BY <1>1, <1>3, <2>1, HandlerMoves DEF SelectFails, FetchInv, TypeOK, HandlerLocals, ghosts
    <2> QED
      BY <1>1, <2>1, <2>2, HandlerMoves, BudgetKept DEF Moves
  <1>4. CASE EndFetch(ch)
    <2>1. handler' = [handler EXCEPT ![ch] = Free] /\ fetchedCount' = fetchedCount
      BY <1>4 DEF EndFetch, list
    <2>2. TypeOK' /\ Budget(ch)' = 0
      BY <1>1, <1>4, <2>1, HandlerMoves
         DEF EndFetch, FetchInv, TypeOK, HandlerLocals, list, ghosts, bounds, Budget
    <2>3. Budget(ch) \in 0 .. MAX_FETCH_COUNT
      BY BudgetRange DEF FetchInv
    <2>4. fetchedCount' + Budget(ch)' <= fetchedCount + Budget(ch)
      BY <2>1, <2>2, <2>3, FetchBounds DEF FetchInv, TypeOK, Entries
    <2> QED
      BY <1>1, <2>1, <2>2, <2>4, HandlerMoves, BudgetKept DEF Moves
  <1>5. CASE CountRow(ch)
    <2> DEFINE v == [handler[ch] EXCEPT !.pc = "read"]
    <2>1. /\ handler' = [handler EXCEPT ![ch] = v] /\ fetchedCount' = fetchedCount + 1
          /\ handler[ch].pc = "count"
      BY <1>0, <1>5 DEF CountRow, Goes
    <2>2. /\ v \in HandlerLocals /\ v.got = handler[ch].got /\ v.last = handler[ch].last
          /\ v.max = handler[ch].max /\ v.pc = "read"
      BY <1>0 DEF HandlerLocals
    <2> HIDE DEF v
    <2>3. /\ ReadInv' /\ handler'[ch] = v /\ handler' \in [Channels -> HandlerLocals]
          /\ \A other \in Channels \ {ch} : handler'[other] = handler[other]
      BY <2>1, <2>2, HandlerMoves
    <2>4. Cardinality(handler[ch].got) \in Nat /\ Cardinality(handler[ch].got) <= MAX_FETCH_COUNT
      BY <1>0, RowsFinite, FetchBounds DEF HandlerLocals, FetchInv, ReadInv, ReadsFirst
    <2>5. Budget(ch)' = Budget(ch) - 1 /\ Budget(ch) >= 1 /\ Budget(ch) \in Nat
      BY <2>1, <2>2, <2>3, <2>4, FetchBounds DEF Budget
    <2>6. fetchedCount \in Nat /\ fetchedCount + 1 <= 2 * MAX_FETCH_COUNT
      <3>1. Budget("data") \in Nat /\ Budget("serial") \in Nat /\ ch \in {"data", "serial"}
        BY BudgetRange, FetchKinds DEF FetchInv
      <3> QED
        BY <2>5, <3>1, FetchBounds DEF FetchInv, TypeOK, Entries, BudgetInv, AllBudgets
    <2>7. TypeOK'
      <3>1. fetchedCount' \in Entries
        BY <2>1, <2>6, FetchBounds DEF Entries
      <3> QED
        BY <1>5, <2>3, <3>1 DEF CountRow, FetchInv, TypeOK, HandlerLocals, ghosts, bounds
    <2>8. fetchedCount' + Budget(ch)' <= fetchedCount + Budget(ch)
      BY <2>1, <2>5, <2>6
    <2> QED
      BY <2>3, <2>7, <2>8, BudgetKept DEF Moves
  <1> QED
    BY <1>2, <1>3, <1>4, <1>5

\* One more row is read.
LEMMA ReadRowReads ==
    ASSUME FetchInv, NEW ch \in Channels, NEW r \in Ids, ReadRow(ch, r)
    PROVE  /\ handler' \in [Channels -> HandlerLocals]
           /\ handler'[ch] = [handler[ch] EXCEPT !.pc = "count", !.last = r,
                                                 !.got = handler[ch].got \cup {r}]
           /\ \A other \in Channels \ {ch} : handler'[other] = handler[other]
           /\ client' = [client EXCEPT ![ch] = [client[ch] EXCEPT !.seen =
                            [client[ch].seen EXCEPT ![r] = Transactions[r]]]]
           /\ Cardinality(handler'[ch].got) = Cardinality(handler[ch].got) + 1
           /\ Cardinality(handler[ch].got) \in Nat
           /\ Cardinality(handler[ch].got) < handler[ch].max
  <1>0. handler \in [Channels -> HandlerLocals]
    BY HandlerTyped
  <1> DEFINE v == [handler[ch] EXCEPT !.pc = "count", !.last = r, !.got = handler[ch].got \cup {r}]
  <1>1. v \in HandlerLocals /\ v.got = handler[ch].got \cup {r}
    BY <1>0 DEF HandlerLocals
  <1>2. handler' = [handler EXCEPT ![ch] = v]
    BY <1>0 DEF ReadRow
  <1>3. client' = [client EXCEPT ![ch] = [client[ch] EXCEPT !.seen =
                            [client[ch].seen EXCEPT ![r] = Transactions[r]]]]
    BY DEF ReadRow
  <1>4. r \notin handler[ch].got
    BY <1>0, FetchBounds DEF ReadRow, Selectable, FetchInv, ReadInv, ReadsFirst, HandlerLocals, Ids, NoId
  <1>5. IsFiniteSet(handler[ch].got) /\ Cardinality(handler[ch].got) \in Nat
    BY <1>0, RowsFinite DEF HandlerLocals
  <1>6. Cardinality(handler[ch].got \cup {r}) = Cardinality(handler[ch].got) + 1
    BY <1>4, <1>5, FS_AddElement
  <1>7. Cardinality(handler[ch].got) < handler[ch].max
    BY <1>0, <1>5 DEF ReadRow, Exhausted, FetchInv, ReadInv, ReadsFirst, HandlerLocals
  <1> QED
    BY <1>0, <1>1, <1>2, <1>3, <1>5, <1>6, <1>7

LEMMA ReadRowInv ==
    ASSUME FetchInv, NEW ch \in Channels, NEW r \in Ids, ReadRow(ch, r)
    PROVE  FetchInv' /\ Moves(ch)
  <1>0. handler \in [Channels -> HandlerLocals] /\ handler[ch] \in HandlerLocals
    BY DEF FetchInv, TypeOK, HandlerLocals
  <1>1. /\ handler' \in [Channels -> HandlerLocals]
        /\ handler'[ch] = [handler[ch] EXCEPT !.pc = "count", !.last = r,
                                              !.got = handler[ch].got \cup {r}]
        /\ \A other \in Channels \ {ch} : handler'[other] = handler[other]
        /\ Cardinality(handler'[ch].got) = Cardinality(handler[ch].got) + 1
        /\ Cardinality(handler[ch].got) \in Nat
        /\ Cardinality(handler[ch].got) < handler[ch].max
    BY ReadRowReads
  <1>2. /\ handler'[ch].pc = "count" /\ handler'[ch].last = r
        /\ handler'[ch].got = handler[ch].got \cup {r}
        /\ handler'[ch].max = handler[ch].max /\ handler[ch].max \in Nat
    BY <1>0, <1>1 DEF HandlerLocals
  <1>3. TypeOK'
    <2>1. client' \in [Channels -> [id : FetchIds \cup {0}, mode : Modes \cup {"none"},
                                    seen : [Ids -> Row \cup {NoRow}]]]
      BY DEF ReadRow, FetchInv, TypeOK
    <2>2. fetchTransactionIdList' \in [Entries -> Ids \cup {NoId}]
      BY DEF ReadRow, FetchInv, TypeOK
    <2> QED
      BY <1>1, <2>1, <2>2 DEF ReadRow, FetchInv, TypeOK, HandlerLocals, ghosts, bounds
  <1>4. ReadInv'
    <2>1. handler'[ch].got \subseteq 1 .. r
      <3>1. handler[ch].got \subseteq 1 .. handler[ch].last /\ r > handler[ch].last
        BY DEF FetchInv, ReadInv, ReadsFirst, ReadRow, Selectable
      <3>2. handler[ch].last \in Nat /\ r \in Nat /\ r >= 1
        BY <1>0 DEF HandlerLocals, Ids, NoId
      <3> QED
        BY <1>2, <3>1, <3>2
    <2>2. ReadsFirst(handler'[ch])
      <3>1. handler[ch].max <= MAX_FETCH_COUNT
        BY DEF FetchInv, ReadInv, ReadsFirst
      <3>2. Cardinality(handler'[ch].got) <= handler'[ch].max
        BY <1>1, <1>2
      <3> QED
        BY <1>2, <2>1, <3>1, <3>2 DEF ReadsFirst
    <2> QED
      BY <1>1, <2>2 DEF FetchInv, ReadInv, ReadsFirst
  <1>5. handler[ch].max <= MAX_FETCH_COUNT /\ handler[ch].pc = "read"
    BY DEF FetchInv, ReadInv, ReadsFirst, ReadRow
  <1>6. Budget(ch)' = Budget(ch)
    BY <1>1, <1>2, <1>5, FetchBounds DEF Budget
  <1>7. fetchedCount' + Budget(ch)' <= fetchedCount + Budget(ch)
    <2>1. Budget(ch) \in Nat /\ fetchedCount \in Nat
      BY BudgetRange, FetchBounds DEF FetchInv, TypeOK, Entries
    <2> QED
      BY <1>6, <2>1 DEF ReadRow
  <1> QED
    BY <1>1, <1>3, <1>4, <1>7, BudgetKept DEF Moves

\* The steps of an acknowledge.
LEMMA AckStepInv ==
    ASSUME FetchInv, NEW ch \in Channels,
           FetchAck(ch) \/ DeleteRow(ch) \/ DeleteFails(ch) \/ CloseFetch(ch)
    PROVE  FetchInv' /\ Moves(ch)
  <1>0. handler \in [Channels -> HandlerLocals] /\ handler[ch] \in HandlerLocals
    BY DEF FetchInv, TypeOK, HandlerLocals
  <1>1. /\ Free \in HandlerLocals /\ Free.got = {} /\ Free.last = NoId /\ Free.max = 0
        /\ Free.pc = "free"
    BY FreeTyped DEF HandlerLocals, Free
  <1>2. Budget(ch) \in 0 .. MAX_FETCH_COUNT /\ fetchedCount \in Nat
    BY BudgetRange, FetchBounds DEF FetchInv, TypeOK, Entries
  <1>3. fetchedCount' = fetchedCount
    BY DEF FetchAck, DeleteRow, DeleteFails, CloseFetch, list
  <1>4. CASE FetchAck(ch) /\ ~IsOpen(client[ch].id)
    <2>1. TypeOK' /\ UNCHANGED <<handler, fetchedCount>>
      BY <1>4 DEF FetchAck, FetchInv, TypeOK, list
    <2> QED
      BY <1>2, <2>1, FetchBounds DEF FetchInv, ReadInv, BudgetInv, AllBudgets, Budget, Moves
  <1>5. CASE FetchAck(ch) /\ IsOpen(client[ch].id)
    <2> DEFINE v == [Free EXCEPT !.pc = "delete"]
    <2>1. /\ v \in HandlerLocals /\ v.got = {} /\ v.last = NoId /\ v.max = 0 /\ v.pc = "delete"
      BY <1>1 DEF HandlerLocals, Free
    <2>2. handler' = [handler EXCEPT ![ch] = v]
      BY <1>5 DEF FetchAck
    <2> HIDE DEF v
    <2>3. /\ handler' \in [Channels -> HandlerLocals] /\ ReadInv' /\ handler'[ch] = v
          /\ \A other \in Channels \ {ch} : handler'[other] = handler[other]
      BY <2>1, <2>2, HandlerMoves
    <2>4. acked' \in SUBSET Ids
      BY <1>5 DEF FetchAck, RowsOf, FetchInv, TypeOK
    <2>5. TypeOK'
      BY <1>5, <2>3, <2>4 DEF FetchAck, FetchInv, TypeOK, HandlerLocals, list
    <2>6. Budget(ch)' = 0
      BY <2>1, <2>3 DEF Budget
    <2> QED
      BY <1>2, <1>3, <2>3, <2>5, <2>6, BudgetKept DEF Moves
  <1>6. CASE DeleteRow(ch)
    <2> DEFINE v == [handler[ch] EXCEPT !.i = handler[ch].i + 1]
    <2>1. /\ v \in HandlerLocals /\ v.got = handler[ch].got /\ v.last = handler[ch].last
          /\ v.max = handler[ch].max /\ v.pc = "delete"
      BY <1>0, <1>6 DEF HandlerLocals, DeleteRow
    <2>2. handler' = [handler EXCEPT ![ch] = v]
      BY <1>0, <1>6 DEF DeleteRow
    <2> HIDE DEF v
    <2>3. /\ handler' \in [Channels -> HandlerLocals] /\ ReadInv' /\ handler'[ch] = v
          /\ \A other \in Channels \ {ch} : handler'[other] = handler[other]
      BY <2>1, <2>2, HandlerMoves
    <2>4. fetchTransactionIdList[handler[ch].i + 1] \in Ids \cup {NoId}
      BY <1>0, <1>6, FetchBounds DEF DeleteRow, MoreToDelete, FetchInv, TypeOK, Entries, HandlerLocals
    <2>5. Transactions' \in [Ids -> Row \cup {NoRow}] /\ deleted' \in SUBSET Ids
      BY <1>6, <2>4 DEF DeleteRow, FetchInv, TypeOK
    <2>6. TypeOK'
      BY <1>6, <2>3, <2>5 DEF DeleteRow, FetchInv, TypeOK, HandlerLocals, list, bounds
    <2>7. Budget(ch)' = 0
      BY <2>1, <2>3 DEF Budget
    <2> QED
      BY <1>2, <1>3, <2>3, <2>6, <2>7, BudgetKept DEF Moves
  <1>7. CASE DeleteFails(ch) \/ CloseFetch(ch)
    <2>1. handler' = [handler EXCEPT ![ch] = Free]
      BY <1>7 DEF DeleteFails, CloseFetch
    <2>2. /\ handler' \in [Channels -> HandlerLocals] /\ ReadInv' /\ handler'[ch] = Free
          /\ \A other \in Channels \ {ch} : handler'[other] = handler[other]
      BY <1>1, <2>1, HandlerMoves
    <2>3. TypeOK'
      <3>1. CASE DeleteFails(ch)
        BY <2>2, <3>1 DEF DeleteFails, FetchInv, TypeOK, HandlerLocals, list, ghosts
      <3>2. CASE CloseFetch(ch)
        <4>1. cleared' \in SUBSET Ids
          BY <3>2 DEF CloseFetch, RowsOf, FetchInv, TypeOK
        <4>2. fetchTransactionIdList' \in [Entries -> Ids \cup {NoId}]
          BY <3>2 DEF CloseFetch, FetchInv, TypeOK
        <4> QED
          BY <2>2, <3>2, <4>1, <4>2 DEF CloseFetch, FetchInv, TypeOK, HandlerLocals, bounds
      <3> QED
        BY <1>7, <3>1, <3>2
    <2>4. Budget(ch)' = 0
      BY <1>1, <2>2 DEF Budget
    <2> QED
      BY <1>2, <1>3, <2>2, <2>3, <2>4, BudgetKept DEF Moves
  <1> QED
    BY <1>4, <1>5, <1>6, <1>7

\* A kill empties the list and ends the handlers.
LEMMA RestartInv ==
    ASSUME FetchInv, Restart
    PROVE  FetchInv'
  <1>1. TypeOK'
    <2>1. handler' \in [Channels -> HandlerLocals]
      BY FreeTyped DEF Restart, HandlerLocals
    <2>2. client' \in [Channels -> [id : FetchIds \cup {0}, mode : Modes \cup {"none"},
                                    seen : [Ids -> Row \cup {NoRow}]]]
      BY FreeTyped DEF Restart, FetchInv, TypeOK
    <2> QED
      BY <2>1, <2>2 DEF Restart, FetchInv, TypeOK, HandlerLocals, ghosts
  <1>2. ReadInv'
    <2>1. ReadsFirst(Free)
      BY FS_EmptySet, FetchBounds DEF ReadsFirst, Free
    <2> QED
      BY <2>1 DEF Restart, ReadInv, ReadsFirst
  <1>3. AllBudgets' = 0
    BY DEF Restart, AllBudgets, Budget, Free
  <1> QED
    BY <1>1, <1>2, <1>3, FetchBounds DEF Restart, FetchInv, BudgetInv

LEMMA FetchInvStep == FetchInv /\ [Next]_vars => FetchInv'
  <1> SUFFICES ASSUME FetchInv, [Next]_vars PROVE FetchInv'
    OBVIOUS
  <1>1. CASE UNCHANGED vars
    BY <1>1 DEF vars, list, ghosts, bounds, FetchInv, TypeOK, ReadInv, ReadsFirst, BudgetInv, AllBudgets, Budget
  <1>2. CASE \/ \E row \in NewRows : StoreRow(row)
             \/ \E r \in Ids : \E row \in RowChanges(r) : ChangeRow(r, row)
    <2>1. TypeOK' /\ UNCHANGED <<handler, list>>
      BY <1>2, RowStepTypeOK DEF FetchInv
    <2> QED
      BY <2>1 DEF FetchInv, ReadInv, ReadsFirst, BudgetInv, AllBudgets, Budget, list
  <1>3. CASE Restart
    BY <1>3, RestartInv
  <1>4. ASSUME NEW ch \in Channels, HandlerStep(ch) \/ FetchAck(ch) PROVE FetchInv'
    BY <1>4, FetchStepInv, ReadRowInv, AckStepInv DEF HandlerStep
  <1>5. ASSUME NEW ch \in Channels, NEW id \in FetchIds, NEW mode \in Modes,
               NEW online \in BOOLEAN, NEW records \in MaxRecords,
               FetchAuth(ch, id, mode, online, records)
        PROVE  FetchInv'
    BY <1>5, FetchAuthInv
  <1> QED
    BY <1>1, <1>2, <1>3, <1>4, <1>5 DEF Next

\* The types, and: however two clients overlap, the count of fetched ids stays within
\* two lists.
THEOREM FetchTypeCorrect == Spec => []TypeOK
  <1>1. FetchInv => TypeOK
    BY DEF FetchInv
  <1> QED
    BY <1>1, FetchInit, FetchInvStep, PTL DEF Spec

-----------------------------------------------------------------------------
(* Clients that take turns.                                                *)

TurnInv ==
    orderly =>
        /\ \A ch, other \in Channels :
              handler[ch].pc # "free" /\ handler[other].pc # "free" => ch = other
        /\ fetchedCount <= MAX_FETCH_COUNT
        /\ \A ch \in Channels : fetchedCount + Budget(ch) <= MAX_FETCH_COUNT

\* Every step is one of a channel whose turn it is, or leaves handlers and list alone.
LEMMA StepsOfOne ==
    ASSUME FetchInv, TurnInv, Next
    PROVE  \/ UNCHANGED <<handler, list, orderly>>
           \/ Restart
           \/ \E ch \in Channels :
                /\ Moves(ch) /\ orderly' = orderly
                /\ orderly => \A other \in Channels \ {ch} : handler[other].pc = "free"
  <1>1. CASE \/ \E row \in NewRows : StoreRow(row)
             \/ \E r \in Ids : \E row \in RowChanges(r) : ChangeRow(r, row)
    BY <1>1 DEF StoreRow, ChangeRow, bounds
  <1>2. ASSUME NEW ch \in Channels, HandlerStep(ch)
        PROVE  /\ Moves(ch) /\ orderly' = orderly
               /\ orderly => \A other \in Channels \ {ch} : handler[other].pc = "free"
    <2>1. Moves(ch)
      BY <1>2, FetchStepInv, ReadRowInv, AckStepInv DEF HandlerStep
    <2>2. handler[ch].pc # "free" /\ orderly' = orderly
      BY <1>2 DEF HandlerStep, Select, SelectFails, CountRow, EndFetch, ReadRow, DeleteRow,
                  DeleteFails, CloseFetch, bounds
    <2> QED
      BY <2>1, <2>2 DEF TurnInv
  <1>3. ASSUME NEW ch \in Channels, FetchAck(ch)
        PROVE  /\ Moves(ch) /\ orderly' = orderly
               /\ orderly => \A other \in Channels \ {ch} : handler[other].pc = "free"
    <2>1. Moves(ch)
      BY <1>3, AckStepInv
    <2> QED
      BY <1>3, <2>1 DEF FetchAck, MayRequest
  <1>4. ASSUME NEW ch \in Channels, NEW id \in FetchIds, NEW mode \in Modes,
               NEW online \in BOOLEAN, NEW records \in MaxRecords,
               FetchAuth(ch, id, mode, online, records)
        PROVE  /\ Moves(ch) /\ orderly' = orderly
               /\ orderly => \A other \in Channels \ {ch} : handler[other].pc = "free"
    <2>1. Moves(ch)
      BY <1>4, FetchAuthInv
    <2> QED
      BY <1>4, <2>1 DEF FetchAuth, MayRequest
  <1> QED
    BY <1>1, <1>2, <1>3, <1>4 DEF Next

LEMMA TurnStep ==
    ASSUME FetchInv, FetchInv', TurnInv, [Next]_vars
    PROVE  TurnInv'
  <1>1. \A ch \in Channels : Budget(ch) \in 0 .. MAX_FETCH_COUNT
    BY BudgetRange DEF FetchInv
  <1>2. fetchedCount \in Nat /\ fetchedCount' \in Nat
    BY FetchBounds DEF FetchInv, TypeOK, Entries
  <1>3. CASE UNCHANGED <<handler, list, orderly>>
    BY <1>3 DEF TurnInv, Budget, list
  <1>4. CASE Restart
    <2>1. \A ch \in Channels : handler'[ch].pc = "free" /\ Budget(ch)' = 0
      BY <1>4 DEF Restart, Free, Budget
    <2> QED
      BY <1>4, <2>1, FetchBounds DEF Restart, TurnInv
  <1>5. ASSUME NEW ch \in Channels, Moves(ch), orderly' = orderly, orderly,
               \A other \in Channels \ {ch} : handler[other].pc = "free"
        PROVE  TurnInv'
    <2>1. \A other \in Channels \ {ch} : handler'[other].pc = "free" /\ Budget(other)' = 0
      BY <1>5 DEF Moves, Budget
    <2>2. Budget(ch)' \in 0 .. MAX_FETCH_COUNT
      BY <1>5, BudgetMoves DEF Moves, FetchInv
    <2>3. fetchedCount' + Budget(ch)' <= MAX_FETCH_COUNT
      BY <1>1, <1>2, <1>5, <2>2, FetchBounds DEF Moves, TurnInv
    <2>4. fetchedCount' <= MAX_FETCH_COUNT
      BY <1>2, <2>2, <2>3, FetchBounds
    <2>5. \A other \in Channels : fetchedCount' + Budget(other)' <= MAX_FETCH_COUNT
      BY <1>2, <2>1, <2>3, <2>4
    <2>6. \A c, other \in Channels :
             handler'[c].pc # "free" /\ handler'[other].pc # "free" => c = other
      BY <2>1
    <2> QED
      BY <2>4, <2>5, <2>6 DEF TurnInv
  <1>6. CASE ~orderly /\ orderly' = orderly
    BY <1>6 DEF TurnInv
  <1>7. UNCHANGED vars => UNCHANGED <<handler, list, orderly>>
    BY DEF vars, bounds
  <1> QED
    BY <1>3, <1>4, <1>5, <1>6, <1>7, StepsOfOne

LEMMA TurnInit == Init => TurnInv
  BY FetchBounds DEF Init, TurnInv, Free, Budget

\* With clients that take turns the ids of a fetch fit the list.
THEOREM ListAlwaysFits == Spec => []ListFits
  <1>1. TurnInv => ListFits
    BY DEF TurnInv, ListFits
  <1> QED
    BY <1>1, FetchInit, FetchInvStep, TurnInit, TurnStep, PTL DEF Spec

-----------------------------------------------------------------------------
(* Offline rows that are finished.                                         *)

\* A declined sale is not pending, and neither is an offline row given as finished.
DeclinedIsDone(row) == ~row.online /\ row.txn = "Failure" => row.host # "Pending"

GivenIsDone(row, mode) ==
    row # NoRow /\ ~row.online /\ mode # "Pending" => row.host # "Pending"

FinalInv ==
    /\ \A r \in Ids :
          /\ Transactions[r] # NoRow => r <= rows
          /\ DeclinedIsDone(Transactions[r])
    /\ \A ch \in Channels :
          /\ cautious => client[ch].mode # "Pending"
          /\ handler[ch].pc \in {"select", "read", "count"} => handler[ch].mode = client[ch].mode
          /\ \A r \in Ids :
                /\ client[ch].seen[r] # NoRow => r <= rows
                /\ GivenIsDone(client[ch].seen[r], client[ch].mode)

FinalStepInv == FinalInv /\ FinishedIsFinal

\* A stored row changes the table behind the last row only, ...
LEMMA StoreRowFinal ==
    ASSUME FetchInv, FinalStepInv, NEW row \in NewRows, StoreRow(row)
    PROVE  FinalStepInv'
  <1> USE DEF FinalStepInv
  <1>1. rows \in Nat /\ rows' = rows + 1 /\ rows + 1 \in Ids
    BY FetchBounds DEF StoreRow, FetchInv, TypeOK, Ids
  <1>2. /\ Transactions' = [Transactions EXCEPT ![rows + 1] = row]
        /\ UNCHANGED <<handler, client, cautious>>
    BY DEF StoreRow, bounds
  <1>3. /\ \A r \in Ids \ {rows + 1} : Transactions'[r] = Transactions[r]
        /\ Transactions'[rows + 1] = row
    BY <1>1, <1>2 DEF FetchInv, TypeOK
  <1>4. DeclinedIsDone(row)
    BY DEF NewRows, DeclinedIsDone
  <1>5. \A r \in Ids : r \in Nat
    BY DEF Ids
  <1>6. \A ch \in Channels : client[ch].seen[rows + 1] = NoRow
    BY <1>1 DEF FinalInv
  <1>7. FinalInv'
    BY <1>1, <1>2, <1>3, <1>4, <1>5 DEF FinalInv
  <1>8. FinishedIsFinal'
    BY <1>2, <1>3, <1>6 DEF FinishedIsFinal
  <1> QED
    BY <1>7, <1>8

\* ... and a change leaves finished offline rows alone.
LEMMA ChangeRowFinal ==
    ASSUME FetchInv, FinalStepInv, NEW r \in Ids, NEW row \in RowChanges(r),
           ChangeRow(r, row)
    PROVE  FinalStepInv'
  <1> USE DEF FinalStepInv
  <1>1. /\ Transactions' = [Transactions EXCEPT ![r] = row] /\ Transactions[r] # NoRow
        /\ UNCHANGED <<rows, handler, client>>
    BY DEF ChangeRow
  <1>2. /\ \A s \in Ids \ {r} : Transactions'[s] = Transactions[s]
        /\ Transactions'[r] = row
    BY <1>1 DEF FetchInv, TypeOK
  <1>3. Transactions[r] \in Row
    BY <1>1 DEF FetchInv, TypeOK
  <1>4. /\ row.online = Transactions[r].online
        /\ ~Transactions[r].online =>
              /\ row.txn = Transactions[r].txn
              /\ \/ Transactions[r].host = "Pending" /\ row.host = "Success"
                 \/ Transactions[r].txn = "Success" /\ ~cautious
    BY <1>3, ChangesTyped DEF RowChanges, FetchInv, TypeOK
  <1>5. cautious' = cautious
    BY DEF ChangeRow, bounds
  <1>6. FinalInv'
    <2>1. DeclinedIsDone(row)
      BY <1>4 DEF DeclinedIsDone
    <2> QED
      BY <1>1, <1>2, <1>5, <2>1 DEF FinalInv
  <1>7. FinishedIsFinal'
    <2> SUFFICES ASSUME NEW ch \in Channels, NEW s \in Ids,
                        client[ch].seen[s] # NoRow, ~client[ch].seen[s].online, cautious
                 PROVE  Transactions'[s] \in {client[ch].seen[s], NoRow}
      BY <1>1, <1>5 DEF FinishedIsFinal
    <2>1. Transactions[s] \in {client[ch].seen[s], NoRow} /\ client[ch].seen[s].host # "Pending"
      BY DEF FinishedIsFinal, FinalInv, GivenIsDone
    <2>2. s # r
      BY <1>1, <1>4, <2>1
    <2> QED
      BY <1>2, <2>1, <2>2
  <1> QED
    BY <1>6, <1>7

\* A fetch reads a row that matches its mode.
LEMMA ReadRowFinal ==
    ASSUME FetchInv, FinalStepInv, NEW ch \in Channels, NEW r \in Ids, ReadRow(ch, r)
    PROVE  FinalStepInv'
  <1> USE DEF FinalStepInv
  <1>1. /\ client' = [client EXCEPT ![ch] = [client[ch] EXCEPT !.seen =
                         [client[ch].seen EXCEPT ![r] = Transactions[r]]]]
        /\ handler'[ch] = [handler[ch] EXCEPT !.pc = "count", !.last = r,
                                              !.got = handler[ch].got \cup {r}]
        /\ \A other \in Channels \ {ch} : handler'[other] = handler[other]
    BY ReadRowReads
  <1>2. UNCHANGED <<Transactions, rows, cautious>> /\ handler[ch].pc = "read"
    BY DEF ReadRow, bounds
  <1>3. /\ client'[ch].mode = client[ch].mode
        /\ \A s \in Ids : client'[ch].seen[s] = IF s = r THEN Transactions[r]
                                               ELSE client[ch].seen[s]
        /\ \A other \in Channels \ {ch} : client'[other] = client[other]
    BY <1>1 DEF FetchInv, TypeOK
  <1>4. handler'[ch].mode = handler[ch].mode /\ handler[ch].mode = client[ch].mode
    <2>1. handler[ch].mode = client[ch].mode
      BY <1>2 DEF FinalInv
    <2>2. [handler[ch] EXCEPT !.pc = "count", !.last = r,
                              !.got = handler[ch].got \cup {r}].mode = handler[ch].mode
      BY HandlerTyped DEF HandlerLocals
    <2> QED
      BY <1>1, <2>1, <2>2
  <1>5. Matches(Transactions[r], client[ch].mode, handler[ch].online)
    BY <1>4 DEF ReadRow, Selectable
  <1>6. ~Transactions[r].online /\ client[ch].mode # "Pending" => Transactions[r].host # "Pending"
    <2>1. client[ch].mode = "Failure" => \/ Transactions[r].host = "Failure"
                                         \/ Transactions[r].txn = "Failure"
      BY <1>5 DEF Matches
    <2>2. client[ch].mode \notin {"Failure", "Pending"} => Transactions[r].host = "Success"
      BY <1>5 DEF Matches
    <2> QED
      BY <2>1, <2>2 DEF FinalInv, DeclinedIsDone
  <1>7. FinalInv'
    <2>1. GivenIsDone(Transactions[r], client[ch].mode) /\ (Transactions[r] # NoRow => r <= rows)
      BY <1>6 DEF GivenIsDone, FinalInv
    <2>2. \A c \in Channels, s \in Ids :
             /\ client'[c].seen[s] # NoRow => s <= rows
             /\ GivenIsDone(client'[c].seen[s], client'[c].mode)
      <3>1. ASSUME NEW s \in Ids
            PROVE  /\ client'[ch].seen[s] # NoRow => s <= rows
                   /\ GivenIsDone(client'[ch].seen[s], client'[ch].mode)
        BY <1>3, <2>1 DEF FinalInv
      <3>2. ASSUME NEW c \in Channels \ {ch}, NEW s \in Ids
            PROVE  /\ client'[c].seen[s] # NoRow => s <= rows
                   /\ GivenIsDone(client'[c].seen[s], client'[c].mode)
        <4>1. client'[c] = client[c]
          BY <1>3
        <4> QED
          BY <4>1 DEF FinalInv
      <3> QED
        BY <3>1, <3>2
    <2>3. \A c \in Channels : handler'[c].pc \in {"select", "read", "count"} =>
             handler'[c].mode = client'[c].mode
      <3>1. handler'[ch].mode = client'[ch].mode
        BY <1>3, <1>4
      <3>2. ASSUME NEW c \in Channels \ {ch}
            PROVE  handler'[c] = handler[c] /\ client'[c] = client[c]
        BY <1>1, <1>3
      <3> QED
        BY <3>1, <3>2 DEF FinalInv
    <2>4. \A c \in Channels : cautious => client'[c].mode # "Pending"
      BY <1>3 DEF FinalInv
    <2> QED
      BY <1>2, <2>2, <2>3, <2>4 DEF FinalInv
  <1>8. FinishedIsFinal'
    BY <1>2, <1>3 DEF FinishedIsFinal
  <1> QED
    BY <1>7, <1>8

\* A delete takes rows away.
LEMMA DeleteRowFinal ==
    ASSUME FetchInv, FinalStepInv, NEW ch \in Channels, DeleteRow(ch)
    PROVE  FinalStepInv'
  <1> USE DEF FinalStepInv
  <1>1. \A s \in Ids : Transactions'[s] \in {Transactions[s], NoRow}
    BY DEF DeleteRow, FetchInv, TypeOK
  <1>2. UNCHANGED <<rows, client, cautious>>
    BY DEF DeleteRow, bounds
  <1>3. \A c \in Channels : handler'[c].pc = handler[c].pc /\ handler'[c].mode = handler[c].mode
    BY DEF DeleteRow, FetchInv, TypeOK
  <1>4. FinalInv'
    <2>1. DeclinedIsDone(NoRow)
      BY DEF DeclinedIsDone, NoRow
    <2> QED
      BY <1>1, <1>2, <1>3, <2>1 DEF FinalInv
  <1>5. FinishedIsFinal'
    BY <1>1, <1>2 DEF FinishedIsFinal
  <1> QED
    BY <1>4, <1>5

\* The other steps leave the rows, and what the clients have of them, alone or forget it.
LEMMA OtherStepFinal ==
    ASSUME FetchInv, FinalStepInv, UNCHANGED <<Transactions, rows, cautious>>,
           \A ch \in Channels :
              /\ cautious => client'[ch].mode # "Pending"
              /\ \/ client'[ch] = client[ch]
                 \/ client'[ch].seen = [r \in Ids |-> NoRow]
              /\ handler'[ch].pc \in {"select", "read", "count"} =>
                    handler'[ch].mode = client'[ch].mode
    PROVE  FinalStepInv'
  <1>1. FinalInv'
    <2>1. \A mode : GivenIsDone(NoRow, mode)
      BY DEF GivenIsDone
    <2> QED
      BY <2>1 DEF FinalStepInv, FinalInv
  <1>2. FinishedIsFinal'
    BY DEF FinalStepInv, FinishedIsFinal
  <1> QED
    BY <1>1, <1>2 DEF FinalStepInv

LEMMA FinalStep ==
    ASSUME FetchInv, FinalStepInv, [Next]_vars
    PROVE  FinalStepInv'
  <1>1. CASE UNCHANGED vars
    BY <1>1 DEF vars, bounds, FinalStepInv, FinalInv, FinishedIsFinal
  <1>2. CASE Restart
    <2>1. \A ch \in Channels : handler'[ch].pc = "free"
      BY <1>2 DEF Restart, Free
    <2>2. \A ch \in Channels : \/ client'[ch] = client[ch]
                              \/ /\ client'[ch].seen = [r \in Ids |-> NoRow]
                                 /\ client'[ch].mode = "none"
      BY <1>2 DEF Restart, NoReply
    <2>3. UNCHANGED <<Transactions, rows, cautious>>
      BY <1>2 DEF Restart
    <2>4. \A ch \in Channels : cautious => client'[ch].mode # "Pending"
      BY <2>2 DEF FinalStepInv, FinalInv
    <2> QED
      BY <2>1, <2>2, <2>3, <2>4, OtherStepFinal
  <1>3. ASSUME NEW ch \in Channels, NEW id \in FetchIds, NEW mode \in Modes,
               NEW online \in BOOLEAN, NEW records \in MaxRecords,
               FetchAuth(ch, id, mode, online, records)
        PROVE  FinalStepInv'
    <2>1. /\ client' = [client EXCEPT ![ch] = [NoReply EXCEPT !.id = id, !.mode = mode]]
          /\ UNCHANGED <<Transactions, rows, cautious>>
          /\ cautious => mode # "Pending"
      BY <1>3 DEF FetchAuth
    <2>2. /\ client'[ch].seen = [r \in Ids |-> NoRow] /\ client'[ch].mode = mode
          /\ \A other \in Channels \ {ch} : client'[other] = client[other]
      BY <2>1 DEF NoReply, FetchInv, TypeOK
    <2>3. handler'[ch].mode = mode /\ \A other \in Channels \ {ch} : handler'[other] = handler[other]
      BY <1>3 DEF FetchAuth, Free, FetchInv, TypeOK
    <2> QED
      BY <2>1, <2>2, <2>3, OtherStepFinal DEF FinalStepInv, FinalInv
  <1>4. ASSUME NEW ch \in Channels,
               \/ Select(ch) \/ SelectFails(ch) \/ CountRow(ch) \/ EndFetch(ch)
               \/ FetchAck(ch) \/ DeleteFails(ch) \/ CloseFetch(ch)
        PROVE  FinalStepInv'
    <2>1. UNCHANGED <<Transactions, rows, client, cautious>>
      BY <1>4 DEF Select, SelectFails, CountRow, EndFetch, FetchAck, DeleteFails, CloseFetch, bounds
    <2>2. \A c \in Channels : handler'[c].pc \in {"select", "read", "count"} =>
             handler[c].pc \in {"select", "read", "count"} /\ handler'[c].mode = handler[c].mode
      <3>1. handler \in [Channels -> HandlerLocals]
        BY DEF FetchInv, TypeOK, HandlerLocals
      <3>2. CASE Select(ch) \/ CountRow(ch)
        <4>1. handler' = Goes(ch, "read") /\ handler[ch].pc \in {"select", "count"}
          BY <3>2 DEF Select, CountRow
        <4> QED
          BY <3>1, <4>1 DEF Goes, HandlerLocals
      <3>3. CASE \/ SelectFails(ch) \/ EndFetch(ch) \/ FetchAck(ch)
                 \/ DeleteFails(ch) \/ CloseFetch(ch)
        <4>1. \/ handler' = handler
              \/ handler' = [handler EXCEPT ![ch] = Free]
              \/ handler' = [handler EXCEPT ![ch] = [Free EXCEPT !.pc = "delete"]]
          BY <3>3 DEF SelectFails, EndFetch, FetchAck, DeleteFails, CloseFetch
        <4> QED
          BY <3>1, <4>1 DEF Free
      <3> QED
        BY <1>4, <3>2, <3>3
    <2>3. \A c \in Channels :
             /\ cautious => client'[c].mode # "Pending"
             /\ handler'[c].pc \in {"select", "read", "count"} =>
                   handler'[c].mode = client'[c].mode
      BY <2>1, <2>2 DEF FinalStepInv, FinalInv
    <2>4. UNCHANGED <<Transactions, rows, cautious>>
      BY <2>1
    <2>5. \A c \in Channels :
             /\ cautious => client'[c].mode # "Pending"
             /\ \/ client'[c] = client[c]
                \/ client'[c].seen = [r \in Ids |-> NoRow]
             /\ handler'[c].pc \in {"select", "read", "count"} =>
                   handler'[c].mode = client'[c].mode
      BY <2>1, <2>3
    <2> QED
      BY <2>4, <2>5, OtherStepFinal
  <1> QED
    BY <1>1, <1>2, <1>3, <1>4, StoreRowFinal, ChangeRowFinal, ReadRowFinal, DeleteRowFinal
       DEF Next, HandlerStep

LEMMA FinalInit == Init => FinalStepInv
  <1>1. DeclinedIsDone(NoRow) /\ \A mode : GivenIsDone(NoRow, mode)
    BY DEF DeclinedIsDone, GivenIsDone, NoRow
  <1> QED
    BY <1>1 DEF Init, FinalStepInv, FinalInv, FinishedIsFinal, NoReply, Free

\* What a client has of a finished offline sale is what the row says, until it is deleted;
\* for any clients, with any overlap.
THEOREM FinishedStaysFinal == Spec => []FinishedIsFinal
  <1>1. FinalStepInv => FinishedIsFinal
    BY DEF FinalStepInv
  <1> QED
    BY <1>1, FetchInit, FetchInvStep, FinalInit, FinalStep, PTL DEF Spec

-----------------------------------------------------------------------------
(* Clients that take turns: the list is the reply of the client whose      *)
(* fetch is open, so that its acknowledge deletes what it was given.       *)

\* The ids in the first k entries of the list.
Listed(k) == {fetchTransactionIdList[e] : e \in 1 .. k} \ {NoId}

\* A row that was read is in the list before it is counted.
Filled(ch) == IF handler[ch].pc = "count" THEN fetchedCount + 1 ELSE fetchedCount

OpenBy(ch) == client[ch].id # 0 /\ activeFetchId = client[ch].id

Gone(r) == r = NoId \/ Transactions[r] = NoRow

ListInv ==
    \A ch \in Channels :
        /\ client[ch].id \in {0, FetchIdOf(ch)}
        /\ handler[ch].pc # "free" => OpenBy(ch)
        /\ handler[ch].pc = "select" => RowsOf(ch) = {}
        /\ OpenBy(ch) /\ handler[ch].pc # "select" => RowsOf(ch) = Listed(Filled(ch))
        /\ handler[ch].pc = "delete" =>
              /\ RowsOf(ch) \subseteq acked
              /\ handler[ch].i <= fetchedCount
              /\ \A e \in 1 .. handler[ch].i : Gone(fetchTransactionIdList[e])

DoneInv ==
    /\ deleted \subseteq acked
    /\ cleared \subseteq 1 .. rows
    /\ \A r \in cleared : Transactions[r] = NoRow

AckInv == orderly => ListInv /\ DoneInv

\* All that is known of a state with clients that take turns.
Orderly == FetchInv /\ TurnInv /\ FinalStepInv /\ orderly /\ ListInv /\ DoneInv

\* One fetch is open at a time.
LEMMA OneOpen ==
    ASSUME ListInv, NEW ch \in Channels, NEW other \in Channels \ {ch}, OpenBy(ch)
    PROVE  ~OpenBy(other) /\ handler[other].pc = "free"
  <1>1. FetchIdOf(ch) # FetchIdOf(other)
    BY FetchKinds DEF FetchIdOf
  <1>2. ~OpenBy(other)
    BY <1>1 DEF ListInv, OpenBy
  <1> QED
    BY <1>2 DEF ListInv

\* A row that is stored or changed is none that is gone.
LEMMA RowStepAck ==
    ASSUME Orderly,
           \/ \E row \in NewRows : StoreRow(row)
           \/ \E r \in Ids : \E row \in RowChanges(r) : ChangeRow(r, row)
    PROVE  ListInv' /\ DoneInv'
  <1> USE DEF Orderly
  <1>1. /\ UNCHANGED <<handler, list, client, ghosts>>
        /\ rows <= rows' /\ rows \in Nat /\ rows' \in Nat
        /\ \A r \in Ids : r <= rows /\ Transactions[r] = NoRow => Transactions'[r] = NoRow
    <2>1. ASSUME NEW row \in NewRows, StoreRow(row)
          PROVE  /\ rows' = rows + 1 /\ rows \in Nat
                 /\ \A r \in Ids : r <= rows => Transactions'[r] = Transactions[r]
      BY <2>1, FetchBounds DEF StoreRow, FetchInv, TypeOK, Ids
    <2>2. ASSUME NEW r \in Ids, NEW row \in RowChanges(r), ChangeRow(r, row)
          PROVE  /\ rows' = rows /\ rows \in Nat
                 /\ \A s \in Ids : Transactions[s] = NoRow => Transactions'[s] = NoRow
      BY <2>2, FetchBounds DEF ChangeRow, FetchInv, TypeOK
    <2>3. UNCHANGED <<handler, list, client, ghosts>>
      BY DEF StoreRow, ChangeRow
    <2> QED
      BY <2>1, <2>2, <2>3
  <1>2. DoneInv'
    <2>1. cleared \subseteq Ids
      BY DEF FetchInv, TypeOK
    <2> QED
      BY <1>1, <2>1 DEF DoneInv, ghosts
  <1>3. ASSUME NEW ch \in Channels, handler[ch].pc = "delete", NEW e \in 1 .. handler[ch].i
        PROVE  Gone(fetchTransactionIdList[e])'
    <2>1. Gone(fetchTransactionIdList[e]) /\ handler[ch].i <= fetchedCount
      BY <1>3 DEF ListInv
    <2>2. handler[ch].i \in Nat /\ fetchedCount \in Nat
      BY FetchBounds DEF FetchInv, TypeOK, Entries
    <2>3. RowsOf(ch) = Listed(fetchedCount) /\ e \in 1 .. fetchedCount
      BY <1>3, <2>1, <2>2 DEF ListInv, Filled
    <2>4. fetchTransactionIdList[e] = NoId \/ fetchTransactionIdList[e] \in RowsOf(ch)
      BY <2>3 DEF Listed
    <2>5. \A r \in RowsOf(ch) : r \in Ids /\ r <= rows
      BY DEF RowsOf, FinalStepInv, FinalInv
    <2> QED
      BY <1>1, <2>1, <2>4, <2>5 DEF Gone, list
  <1>4. \A ch \in Channels : RowsOf(ch)' = RowsOf(ch) /\ OpenBy(ch)' = OpenBy(ch)
                             /\ Listed(Filled(ch))' = Listed(Filled(ch))
    BY <1>1 DEF RowsOf, OpenBy, Listed, Filled, list
  <1>5. ListInv'
    BY <1>1, <1>3, <1>4 DEF ListInv, list, ghosts
  <1> QED
    BY <1>2, <1>5

\* A fetch is opened, with an empty reply.
LEMMA FetchAuthAck ==
    ASSUME Orderly, NEW ch \in Channels, NEW id \in FetchIds, NEW mode \in Modes,
           NEW online \in BOOLEAN, NEW records \in MaxRecords,
           FetchAuth(ch, id, mode, online, records)
    PROVE  ListInv' /\ DoneInv'
  <1> USE DEF Orderly
  <1>1. /\ id = FetchIdOf(ch) /\ id # 0 /\ activeFetchId' = id
        /\ \A other \in Channels : handler[other].pc = "free"
    BY DEF FetchAuth, MayRequest, FetchIds
  <1>2. /\ client'[ch].id = id /\ client'[ch].seen = [r \in Ids |-> NoRow]
        /\ \A other \in Channels \ {ch} : client'[other] = client[other]
    BY DEF FetchAuth, NoReply, FetchInv, TypeOK
  <1>3. /\ handler'[ch].pc = "select"
        /\ \A other \in Channels \ {ch} : handler'[other] = handler[other]
    BY DEF FetchAuth, Free, FetchInv, TypeOK
  <1>4. RowsOf(ch)' = {} /\ OpenBy(ch)'
    BY <1>1, <1>2 DEF RowsOf, OpenBy
  <1>5. ASSUME NEW other \in Channels \ {ch}
        PROVE  ~OpenBy(other)'
    BY <1>1, <1>2, FetchKinds DEF ListInv, OpenBy, FetchIdOf
  <1>6. ListInv'
    BY <1>1, <1>2, <1>3, <1>4, <1>5 DEF ListInv
  <1>7. DoneInv'
    BY DEF FetchAuth, DoneInv, ghosts
  <1> QED
    BY <1>6, <1>7

\* Between two channels only the one whose turn it is matters.
LEMMA ListInvOfOne ==
    ASSUME Orderly, NEW ch \in Channels, OpenBy(ch),
           \A other \in Channels \ {ch} : handler'[other] = handler[other] /\ client'[other] = client[other],
           activeFetchId' \in {activeFetchId, 0}, client'[ch].id = client[ch].id,
           handler'[ch].pc # "free" => activeFetchId' = activeFetchId,
           handler'[ch].pc # "select",
           activeFetchId' = activeFetchId => RowsOf(ch)' = Listed(Filled(ch))',
           handler'[ch].pc = "delete" =>
              /\ RowsOf(ch)' \subseteq acked'
              /\ handler'[ch].i <= fetchedCount'
              /\ \A e \in 1 .. handler'[ch].i : Gone(fetchTransactionIdList[e])'
    PROVE  ListInv'
  <1>1. ASSUME NEW other \in Channels \ {ch}
        PROVE  ~OpenBy(other)' /\ handler'[other].pc = "free" /\ client'[other].id \in {0, FetchIdOf(other)}
    <2>1. ~OpenBy(other) /\ handler[other].pc = "free"
      BY OneOpen DEF Orderly
    <2> QED
      BY <2>1 DEF Orderly, ListInv, OpenBy
  <1>2. handler'[ch].pc # "free" => OpenBy(ch)'
    BY DEF OpenBy
  <1>3. OpenBy(ch)' => activeFetchId' = activeFetchId
    BY DEF OpenBy
  <1>4. client'[ch].id \in {0, FetchIdOf(ch)}
    BY DEF Orderly, ListInv
  <1> QED
    BY <1>1, <1>2, <1>3, <1>4 DEF ListInv

\* The fetch reads its rows into the list and into the reply.
LEMMA ReadingAck ==
    ASSUME Orderly, NEW ch \in Channels,
           Select(ch) \/ SelectFails(ch) \/ CountRow(ch) \/ EndFetch(ch) \/ \E r \in Ids : ReadRow(ch, r)
    PROVE  ListInv' /\ DoneInv'
  <1> USE DEF Orderly
  <1>0. handler \in [Channels -> HandlerLocals] /\ fetchedCount \in Nat
    BY FetchBounds DEF FetchInv, TypeOK, HandlerLocals, Entries
  <1>1. UNCHANGED <<Transactions, rows, acked, deleted, cleared, activeFetchId>>
    BY DEF Select, SelectFails, CountRow, EndFetch, ReadRow, list, ghosts
  <1>2. DoneInv'
    BY <1>1 DEF DoneInv
  <1>3. OpenBy(ch)
    BY DEF ListInv, Select, SelectFails, CountRow, EndFetch, ReadRow
  <1>4. CASE Select(ch) \/ SelectFails(ch)
    <2>1. /\ handler'[ch].pc \in {"read", "free"} /\ fetchedCount' = 0 /\ client' = client
          /\ \A other \in Channels \ {ch} : handler'[other] = handler[other]
          /\ handler[ch].pc = "select"
      <3>1. CASE Select(ch)
        BY <1>0, <3>1 DEF Select, Goes, CountAtSelect
      <3>2. CASE SelectFails(ch)
        BY <1>0, <3>2 DEF SelectFails, Free, CountAtSelect
      <3> QED
        BY <1>4, <3>1, <3>2
    <2>2. RowsOf(ch)' = {} /\ Listed(Filled(ch))' = {}
      BY <2>1 DEF ListInv, RowsOf, Listed, Filled
    <2> QED
      BY <1>1, <1>2, <1>3, <2>1, <2>2, ListInvOfOne
  <1>5. CASE CountRow(ch) \/ EndFetch(ch)
    <2>1. /\ handler'[ch].pc \in {"read", "free"} /\ client' = client
          /\ UNCHANGED fetchTransactionIdList
          /\ \A other \in Channels \ {ch} : handler'[other] = handler[other]
          /\ handler[ch].pc # "select" /\ Filled(ch)' = Filled(ch)
      BY <1>0, <1>5 DEF CountRow, EndFetch, Goes, Free, HandlerLocals, Filled, list
    <2>2. RowsOf(ch)' = RowsOf(ch) /\ Listed(Filled(ch))' = Listed(Filled(ch))
      BY <2>1 DEF RowsOf, Listed
    <2> QED
      BY <1>1, <1>2, <1>3, <2>1, <2>2, ListInvOfOne DEF ListInv
  <1>6. ASSUME NEW r \in Ids, ReadRow(ch, r)
        PROVE  ListInv'
    <2>1. /\ handler'[ch] = [handler[ch] EXCEPT !.pc = "count", !.last = r,
                                                !.got = handler[ch].got \cup {r}]
          /\ \A other \in Channels \ {ch} : handler'[other] = handler[other]
          /\ client' = [client EXCEPT ![ch] = [client[ch] EXCEPT !.seen =
                           [client[ch].seen EXCEPT ![r] = Transactions[r]]]]
          /\ Cardinality(handler[ch].got) \in Nat
          /\ Cardinality(handler[ch].got) < handler[ch].max
      BY <1>6, ReadRowReads
    <2>2. /\ handler'[ch].pc = "count" /\ handler[ch].pc = "read"
          /\ fetchTransactionIdList' = [fetchTransactionIdList EXCEPT ![fetchedCount + 1] = r]
          /\ fetchedCount' = fetchedCount
      <3>1. handler'[ch].pc = "count"
        BY <1>0, <2>1 DEF HandlerLocals
      <3> QED
        BY <1>6, <3>1 DEF ReadRow
    <2>3. Transactions[r] # NoRow
      BY <1>6 DEF ReadRow, Selectable, Matches
    <2>4. /\ client'[ch].id = client[ch].id
          /\ \A s \in Ids : client'[ch].seen[s] = IF s = r THEN Transactions[r]
                                                 ELSE client[ch].seen[s]
          /\ \A other \in Channels \ {ch} : client'[other] = client[other]
      BY <2>1 DEF FetchInv, TypeOK
    <2>5. RowsOf(ch)' = RowsOf(ch) \cup {r}
      BY <2>3, <2>4 DEF RowsOf
    <2>6. fetchedCount + 1 \in Entries
      <3>1. handler[ch].max <= MAX_FETCH_COUNT /\ handler[ch].max \in Nat
        BY <1>0 DEF FetchInv, ReadInv, ReadsFirst, HandlerLocals
      <3>2. Budget(ch) \in Nat /\ Budget(ch) >= 1
        BY <2>1, <2>2, <3>1, FetchBounds DEF Budget
      <3>3. fetchedCount + Budget(ch) <= MAX_FETCH_COUNT
        BY DEF TurnInv
      <3> QED
        BY <1>0, <3>2, <3>3, FetchBounds DEF Entries
    <2>7. /\ fetchTransactionIdList'[fetchedCount + 1] = r
          /\ \A e \in 1 .. fetchedCount : fetchTransactionIdList'[e] = fetchTransactionIdList[e]
      BY <1>0, <2>2, <2>6, FetchBounds DEF FetchInv, TypeOK, Entries
    <2>8. 1 .. (fetchedCount + 1) = (1 .. fetchedCount) \cup {fetchedCount + 1}
      BY <1>0
    <2>9. r # NoId
      BY DEF Ids, NoId
    <2>10. Listed(Filled(ch))' = Listed(fetchedCount) \cup {r}
      BY <2>2, <2>7, <2>8, <2>9 DEF Listed, Filled
    <2>11. RowsOf(ch) = Listed(fetchedCount)
      BY <1>3, <2>2 DEF ListInv, Filled
    <2> QED
      BY <1>1, <1>3, <2>1, <2>2, <2>4, <2>5, <2>10, <2>11, ListInvOfOne
  <1> QED
    BY <1>2, <1>4, <1>5, <1>6

\* The acknowledge of the open fetch, or of another one, which is refused.
LEMMA FetchAckAck ==
    ASSUME Orderly, NEW ch \in Channels, FetchAck(ch)
    PROVE  ListInv' /\ DoneInv'
  <1> USE DEF Orderly
  <1>1. /\ UNCHANGED <<Transactions, rows, list, client, deleted, cleared>>
        /\ acked \subseteq acked' /\ handler[ch].pc = "free" /\ client[ch].id # 0
    BY DEF FetchAck, MayRequest
  <1>2. DoneInv'
    BY <1>1 DEF DoneInv
  <1>3. CASE ~IsOpen(client[ch].id)
    <2>1. UNCHANGED <<handler, acked>>
      BY <1>3 DEF FetchAck
    <2> QED
      BY <1>1, <1>2, <2>1 DEF ListInv, OpenBy, RowsOf, Listed, Filled, Gone, list
  <1>4. CASE IsOpen(client[ch].id)
    <2>1. /\ handler'[ch].pc = "delete" /\ handler'[ch].i = 0
          /\ \A other \in Channels \ {ch} : handler'[other] = handler[other]
          /\ RowsOf(ch) \subseteq acked'
      BY <1>4 DEF FetchAck, Free, FetchInv, TypeOK
    <2>2. OpenBy(ch)
      BY <1>1, <1>4 DEF OpenBy, IsOpen
    <2>3. RowsOf(ch)' = RowsOf(ch) /\ Listed(Filled(ch))' = Listed(Filled(ch))
      BY <1>1, <2>1 DEF RowsOf, Listed, Filled, list
    <2>4. fetchedCount' = fetchedCount /\ fetchedCount \in Nat /\ activeFetchId' = activeFetchId
      BY <1>1, FetchBounds DEF list, FetchInv, TypeOK, Entries
    <2>5. RowsOf(ch) = Listed(Filled(ch))
      BY <1>1, <2>2 DEF ListInv
    <2> QED
      BY <1>1, <1>2, <2>1, <2>2, <2>3, <2>4, <2>5, ListInvOfOne
  <1> QED
    BY <1>3, <1>4

\* One delete of the loop takes a row the client was given.
LEMMA DeleteRowAck ==
    ASSUME Orderly, NEW ch \in Channels, DeleteRow(ch)
    PROVE  ListInv' /\ DoneInv'
  <1> USE DEF Orderly
  <1> DEFINE r == fetchTransactionIdList[handler[ch].i + 1]
  <1>0. handler \in [Channels -> HandlerLocals] /\ fetchedCount \in Nat /\ handler[ch].i \in Nat
    BY FetchBounds DEF FetchInv, TypeOK, HandlerLocals, Entries
  <1>1. /\ handler[ch].pc = "delete" /\ handler[ch].i < fetchedCount
        /\ UNCHANGED <<rows, list, client, acked, cleared>>
        /\ Transactions' = IF r = NoId THEN Transactions ELSE [Transactions EXCEPT ![r] = NoRow]
        /\ deleted' = IF r = NoId THEN deleted ELSE deleted \cup {r}
    BY DEF DeleteRow, MoreToDelete
  <1>2. /\ handler'[ch].pc = "delete" /\ handler'[ch].i = handler[ch].i + 1
        /\ \A other \in Channels \ {ch} : handler'[other] = handler[other]
    BY <1>0, <1>1 DEF DeleteRow, HandlerLocals
  <1>3. OpenBy(ch) /\ RowsOf(ch) = Listed(fetchedCount) /\ RowsOf(ch) \subseteq acked
    BY <1>1 DEF ListInv, Filled
  <1>4. handler[ch].i + 1 \in 1 .. fetchedCount
    BY <1>0, <1>1
  <1>5. r # NoId => r \in RowsOf(ch) /\ r \in Ids
    BY <1>3, <1>4 DEF Listed, RowsOf
  <1>6. /\ \A s \in Ids : Transactions[s] = NoRow => Transactions'[s] = NoRow
        /\ r # NoId => Transactions'[r] = NoRow
    BY <1>1, <1>5 DEF FetchInv, TypeOK
  <1>7. DoneInv'
    <2>1. cleared \subseteq Ids
      BY DEF FetchInv, TypeOK
    <2>2. deleted' \subseteq acked
      BY <1>1, <1>3, <1>5 DEF DoneInv
    <2> QED
      BY <1>1, <1>6, <2>1, <2>2 DEF DoneInv
  <1>8. ASSUME NEW e \in 1 .. handler'[ch].i
        PROVE  Gone(fetchTransactionIdList[e])'
    <2>1. fetchTransactionIdList' = fetchTransactionIdList
      BY <1>1 DEF list
    <2>2. CASE e = handler[ch].i + 1
      BY <1>6, <2>1, <2>2 DEF Gone
    <2>3. CASE e # handler[ch].i + 1
      <3>1. e \in 1 .. handler[ch].i /\ e \in 1 .. fetchedCount
        BY <1>0, <1>1, <1>2, <2>3
      <3>2. Gone(fetchTransactionIdList[e])
        BY <1>1, <3>1 DEF ListInv
      <3>3. fetchTransactionIdList[e] = NoId \/ fetchTransactionIdList[e] \in Ids
        BY <1>3, <3>1 DEF Listed, RowsOf
      <3> QED
        BY <1>6, <2>1, <3>2, <3>3 DEF Gone
    <2> QED
      BY <2>2, <2>3
  <1>9. /\ RowsOf(ch)' = RowsOf(ch) /\ Listed(Filled(ch))' = Listed(fetchedCount)
        /\ fetchedCount' = fetchedCount /\ activeFetchId' = activeFetchId
    BY <1>1, <1>2 DEF RowsOf, Listed, Filled, list
  <1>10. handler'[ch].i <= fetchedCount'
    BY <1>0, <1>1, <1>2, <1>9
  <1> HIDE DEF r
  <1> QED
    BY <1>1, <1>2, <1>3, <1>7, <1>8, <1>9, <1>10, ListInvOfOne

\* The acknowledge ends: at a refused delete, with the fetch open, or with it closed.
LEMMA EndAck ==
    ASSUME Orderly, NEW ch \in Channels, DeleteFails(ch) \/ CloseFetch(ch)
    PROVE  ListInv' /\ DoneInv'
  <1> USE DEF Orderly
  <1>1. /\ UNCHANGED <<Transactions, rows, client, acked, deleted, fetchedCount>>
        /\ handler[ch].pc = "delete" /\ handler'[ch].pc = "free"
        /\ \A other \in Channels \ {ch} : handler'[other] = handler[other]
    <2>1. handler \in [Channels -> HandlerLocals]
      BY DEF FetchInv, TypeOK, HandlerLocals
    <2>2. CASE DeleteFails(ch)
      <3>1. UNCHANGED <<Transactions, rows, client, acked, deleted, fetchedCount>>
        BY <2>2 DEF DeleteFails, list, ghosts
      <3>2. handler[ch].pc = "delete" /\ handler' = [handler EXCEPT ![ch] = Free]
        BY <2>2 DEF DeleteFails
      <3> QED
        BY <2>1, <3>1, <3>2 DEF Free
    <2>3. CASE CloseFetch(ch)
      BY <2>1, <2>3 DEF CloseFetch, Free
    <2> QED
      BY <2>2, <2>3
  <1>2. OpenBy(ch) /\ RowsOf(ch) = Listed(fetchedCount) /\ RowsOf(ch)' = RowsOf(ch)
    BY <1>1 DEF ListInv, Filled, RowsOf
  <1>3. CASE DeleteFails(ch)
    <2>1. UNCHANGED <<list, cleared>>
      BY <1>3 DEF DeleteFails, ghosts
    <2>2. Listed(Filled(ch))' = Listed(fetchedCount)
      BY <1>1, <2>1 DEF Listed, Filled, list
    <2>3. DoneInv'
      BY <1>1, <2>1 DEF DoneInv
    <2> QED
      BY <1>1, <1>2, <2>1, <2>2, <2>3, ListInvOfOne DEF list
  <1>4. CASE CloseFetch(ch)
    <2>1. activeFetchId' = 0 /\ activeFetchId # 0 /\ cleared' = cleared \cup RowsOf(ch)
      BY <1>2, <1>4 DEF CloseFetch, OpenBy
    <2>2. handler[ch].i = fetchedCount
      BY <1>4, FetchBounds DEF CloseFetch, MoreToDelete, ListInv, FetchInv, TypeOK, Entries
    <2>3. \A r \in RowsOf(ch) : r \in 1 .. rows
      BY DEF RowsOf, FinalStepInv, FinalInv, Ids
    <2>4. ASSUME NEW r \in RowsOf(ch) PROVE Transactions[r] = NoRow
      <3>1. PICK e \in 1 .. fetchedCount : r = fetchTransactionIdList[e] /\ r # NoId
        BY <1>2 DEF Listed
      <3> QED
        BY <1>1, <2>2, <3>1 DEF ListInv, Gone
    <2>5. DoneInv'
      BY <1>1, <2>1, <2>3, <2>4 DEF DoneInv
    <2> QED
      BY <1>1, <1>2, <2>1, <2>5, ListInvOfOne
  <1> QED
    BY <1>3, <1>4

\* After a kill no fetch is open, whatever the clients believe.
LEMMA RestartAck ==
    ASSUME Orderly, Restart
    PROVE  ListInv' /\ DoneInv'
  <1> USE DEF Orderly
  <1>1. /\ UNCHANGED <<Transactions, rows, acked, deleted, cleared>> /\ activeFetchId' = 0
        /\ \A ch \in Channels : handler'[ch].pc = "free"
        /\ \A ch \in Channels : client'[ch].id \in {0, client[ch].id}
    BY DEF Restart, Free, NoReply, ghosts
  <1>2. \A ch \in Channels : ~OpenBy(ch)'
    BY <1>1 DEF OpenBy
  <1> QED
    BY <1>1, <1>2 DEF ListInv, DoneInv

\* What the clients are like does not change.
LEMMA OrderlyKept ==
    ASSUME [Next]_vars
    PROVE  orderly' = orderly
  <1>1. CASE UNCHANGED vars
    BY <1>1 DEF vars, bounds
  <1>2. ASSUME NEW row, StoreRow(row) PROVE orderly' = orderly
    BY <1>2 DEF StoreRow, bounds
  <1>3. ASSUME NEW r, NEW row, ChangeRow(r, row) PROVE orderly' = orderly
    BY <1>3 DEF ChangeRow, bounds
  <1>4. ASSUME NEW ch, NEW r, ReadRow(ch, r) PROVE orderly' = orderly
    BY <1>4 DEF ReadRow, bounds
  <1>5. ASSUME NEW ch, Select(ch) \/ CountRow(ch) \/ EndFetch(ch) \/ DeleteRow(ch) \/ CloseFetch(ch)
        PROVE  orderly' = orderly
    BY <1>5 DEF Select, CountRow, EndFetch, DeleteRow, CloseFetch, bounds
  <1>6. ASSUME NEW ch, SelectFails(ch) \/ DeleteFails(ch) \/ FetchAck(ch) PROVE orderly' = orderly
    BY <1>6 DEF SelectFails, DeleteFails, FetchAck
  <1>7. ASSUME NEW ch, NEW id, NEW mode, NEW online, NEW records,
               FetchAuth(ch, id, mode, online, records)
        PROVE  orderly' = orderly
    BY <1>7 DEF FetchAuth
  <1>8. CASE Restart
    BY <1>8 DEF Restart
  <1> QED
    BY <1>1, <1>2, <1>3, <1>4, <1>5, <1>6, <1>7, <1>8 DEF Next, HandlerStep

LEMMA AckStep ==
    ASSUME FetchInv, TurnInv, FinalStepInv, AckInv, [Next]_vars
    PROVE  AckInv'
  <1>1. orderly' = orderly
    BY OrderlyKept
  <1>2. CASE ~orderly
    BY <1>1, <1>2 DEF AckInv
  <1>3. CASE orderly
    <2>1. Orderly
      BY <1>3 DEF Orderly, AckInv
    <2>2. CASE UNCHANGED vars
      BY <2>1, <2>2 DEF Orderly, AckInv, ListInv, DoneInv, OpenBy, RowsOf, Listed, Filled, Gone,
                        vars, list, ghosts, bounds
    <2>3. CASE Next
      BY <2>1, <2>3, RowStepAck, FetchAuthAck, ReadingAck, FetchAckAck, DeleteRowAck, EndAck,
         RestartAck
         DEF AckInv, Next, HandlerStep
    <2> QED
      BY <2>2, <2>3
  <1> QED
    BY <1>2, <1>3

LEMMA AckInit == Init => AckInv
  BY FetchKinds DEF Init, AckInv, ListInv, DoneInv, OpenBy, NoReply, Free, RowsOf

LEMMA AckAlways == Spec => []AckInv
  BY FetchInit, FetchInvStep, TurnInit, TurnStep, FinalInit, FinalStep, AckInit, AckStep, PTL
     DEF Spec

\* With orderly clients a row is deleted only after a client that was given it has
\* acknowledged it: the fetch id keeps a client from acknowledging the list of the
\* other one's later fetch, whatever was refused or killed in between
\* (commandmanager.c 62 and 85, dboperations.c 1284).
DeletedWereAcked == orderly => deleted \subseteq acked

\* With clients that take turns only rows are deleted that a client was given and has
\* acknowledged: the fetch id keeps it from acknowledging the other client's rows.
THEOREM DeletesAreAcked == Spec => []DeletedWereAcked
  <1>1. AckInv => DeletedWereAcked
    BY DEF AckInv, DoneInv, DeletedWereAcked
  <1> QED
    BY <1>1, AckAlways, PTL

\* With clients that take turns an acknowledge that succeeds has deleted every row of the
\* reply, also when an earlier one stopped half-way.
THEOREM ClearedStaysGone == Spec => []ClearedIsGone
  <1>1. AckInv => ClearedIsGone
    BY DEF AckInv, DoneInv, ClearedIsGone
  <1> QED
    BY <1>1, AckAlways, PTL

-----------------------------------------------------------------------------
(* The data channel implements Handover.  Each step is one of the promise, *)
(* or leaves all that was promised as it is.                               *)

promise == <<Transactions, client, cleared, cautious>>

\* What a client has of a row, and whether its acknowledge is under way.
Copies == [ch \in Channels |-> client[ch].seen]
Finals == [ch \in Channels |-> GivenAsFinished(ch)]
AllConfirming == [ch \in Channels |-> Confirming(ch)]

\* A step of a client's handler that neither reads nor deletes is not seen.
LEMMA QuietHandover ==
    ASSUME UNCHANGED promise, \A ch \in Channels : (handler'[ch].pc = "delete") = (handler[ch].pc = "delete")
    PROVE  UNCHANGED Promise!promised
  <1>1. \A ch \in Channels : /\ RowsOf(ch)' = RowsOf(ch)
                             /\ GivenAsFinished(ch)' = GivenAsFinished(ch)
    BY DEF promise, RowsOf, GivenAsFinished
  <1>2. \A ch \in Channels : Confirming(ch)' = Confirming(ch)
    BY <1>1 DEF Confirming
  <1>3. Copies' = Copies /\ Finals' = Finals /\ AllConfirming' = AllConfirming
    BY <1>1, <1>2 DEF Copies, Finals, AllConfirming, promise
  <1> QED
    BY <1>3 DEF Promise!promised, Copies, Finals, AllConfirming, promise

\* A row that is stored or changed is none that a client was told is gone.
LEMMA RowStepHandover ==
    ASSUME Orderly,
           \/ \E row \in NewRows : StoreRow(row)
           \/ \E r \in Ids : \E row \in RowChanges(r) : ChangeRow(r, row)
    PROVE  \E r \in Ids : Promise!Keep(r)
  <1>1. UNCHANGED <<handler, client, cleared, cautious>>
    BY DEF StoreRow, ChangeRow, ghosts, bounds
  <1>2. UNCHANGED <<Copies, Finals, AllConfirming>>
    BY <1>1 DEF Copies, Finals, AllConfirming, GivenAsFinished, Confirming, RowsOf
  <1>3. ASSUME NEW row \in NewRows, StoreRow(row)
        PROVE  \E r \in Ids : r \notin cleared /\ \E contents \in Row \ {NoRow} :
                  Transactions' = [Transactions EXCEPT ![r] = contents]
    <2>1. rows \in Nat /\ rows + 1 \in Ids
      BY <1>3, FetchBounds DEF Orderly, StoreRow, FetchInv, TypeOK, Ids
    <2>2. rows + 1 \notin cleared
      BY <2>1 DEF Orderly, DoneInv
    <2>3. row \in Row \ {NoRow}
      <3>1. /\ [online |-> FALSE, txn |-> "Success", host |-> "Pending"] \in Row \ {NoRow}
            /\ [online |-> FALSE, txn |-> "Failure", host |-> "NA"] \in Row \ {NoRow}
            /\ [online |-> TRUE, txn |-> "Pending", host |-> "Pending"] \in Row \ {NoRow}
        BY DEF Row, NoRow
      <3> QED
        BY <3>1 DEF NewRows
    <2> QED
      BY <1>3, <2>1, <2>2, <2>3 DEF StoreRow
  <1>4. ASSUME NEW r \in Ids, NEW row \in RowChanges(r), ChangeRow(r, row)
        PROVE  r \notin cleared /\ \E contents \in Row \ {NoRow} :
                  Transactions' = [Transactions EXCEPT ![r] = contents]
    <2>1. r \notin cleared
      BY <1>4 DEF Orderly, ChangeRow, DoneInv
    <2>2. Transactions[r] \in Row
      BY <1>4 DEF Orderly, ChangeRow, FetchInv, TypeOK
    <2>3. row \in Row /\ NoRow \notin Row
      BY <2>2, ChangesTyped DEF RowChanges, Orderly, FetchInv, TypeOK, Row, NoRow
    <2> QED
      BY <1>4, <2>1, <2>3 DEF ChangeRow
  <1> QED
    BY <1>1, <1>2, <1>3, <1>4 DEF Promise!Keep, Copies, Finals, AllConfirming

\* A fetch starts with an empty reply, and no acknowledge of its client is under way.
LEMMA FetchAuthHandover ==
    ASSUME Orderly, NEW ch \in Channels, NEW id \in FetchIds, NEW mode \in Modes,
           NEW online \in BOOLEAN, NEW records \in MaxRecords,
           FetchAuth(ch, id, mode, online, records)
    PROVE  Promise!Open(ch)
  <1>1. /\ handler[ch].pc = "free" /\ handler'[ch].pc = "select"
        /\ client'[ch].seen = [r \in Ids |-> NoRow]
        /\ \A other \in Channels \ {ch} : handler'[other] = handler[other] /\ client'[other] = client[other]
        /\ UNCHANGED <<Transactions, cleared, cautious>>
    BY DEF FetchAuth, MayRequest, NoReply, Free, Orderly, FetchInv, TypeOK, ghosts
  <1>2. /\ RowsOf(ch)' = {} /\ GivenAsFinished(ch)' = {}
        /\ Confirming(ch) = {} /\ Confirming(ch)' = {}
    BY <1>1 DEF RowsOf, GivenAsFinished, Confirming
  <1>3. ASSUME NEW other \in Channels \ {ch}
        PROVE  /\ GivenAsFinished(other)' = GivenAsFinished(other)
               /\ Confirming(other)' = Confirming(other)
    BY <1>1 DEF RowsOf, GivenAsFinished, Confirming
  <1>4. Copies' = [Copies EXCEPT ![ch] = [r \in Ids |-> NoRow]]
    BY <1>1 DEF Copies
  <1>5. Finals' = [Finals EXCEPT ![ch] = {}]
    BY <1>2, <1>3 DEF Finals
  <1>6. AllConfirming' = AllConfirming
    BY <1>2, <1>3 DEF AllConfirming
  <1> QED
    BY <1>1, <1>2, <1>4, <1>5, <1>6 DEF Promise!Open, Copies, Finals, AllConfirming

\* A row is given as it is.
LEMMA ReadRowHandover ==
    ASSUME Orderly, NEW ch \in Channels, NEW r \in Ids, ReadRow(ch, r)
    PROVE  Promise!Give(ch, r)
  <1>1. /\ handler'[ch] = [handler[ch] EXCEPT !.pc = "count", !.last = r,
                                              !.got = handler[ch].got \cup {r}]
        /\ \A other \in Channels \ {ch} : handler'[other] = handler[other]
        /\ client' = [client EXCEPT ![ch] = [client[ch] EXCEPT !.seen =
                         [client[ch].seen EXCEPT ![r] = Transactions[r]]]]
    BY ReadRowReads DEF Orderly
  <1>2. handler \in [Channels -> HandlerLocals]
    BY DEF Orderly, FetchInv, TypeOK, HandlerLocals
  <1>3. handler[ch].pc = "read" /\ handler'[ch].pc = "count"
    BY <1>1, <1>2 DEF ReadRow, HandlerLocals
  <1>4. Transactions[r] # NoRow /\ UNCHANGED <<Transactions, cleared, cautious>>
    BY DEF ReadRow, Selectable, Matches, ghosts, bounds
  <1>5. /\ client'[ch].mode = client[ch].mode
        /\ client'[ch].seen = [client[ch].seen EXCEPT ![r] = Transactions[r]]
        /\ \A s \in Ids \ {r} : client'[ch].seen[s] = client[ch].seen[s]
        /\ \A other \in Channels \ {ch} : client'[other] = client[other]
    BY <1>1 DEF Orderly, FetchInv, TypeOK
  <1>6. Confirming(ch) = {} /\ Confirming(ch)' = {}
    BY <1>3 DEF Confirming
  <1>7. GivenAsFinished(ch)' \in {GivenAsFinished(ch) \cup {r}, GivenAsFinished(ch) \ {r}}
    BY <1>4, <1>5 DEF GivenAsFinished, RowsOf
  <1>8. ASSUME NEW other \in Channels \ {ch}
        PROVE  /\ GivenAsFinished(other)' = GivenAsFinished(other)
               /\ Confirming(other)' = Confirming(other)
    BY <1>1, <1>4, <1>5 DEF RowsOf, GivenAsFinished, Confirming
  <1>9. Copies' = [Copies EXCEPT ![ch] = [Copies[ch] EXCEPT ![r] = Transactions[r]]]
    BY <1>5 DEF Copies
  <1>10. Finals' \in {[Finals EXCEPT ![ch] = Finals[ch] \cup {r}],
                      [Finals EXCEPT ![ch] = Finals[ch] \ {r}]}
    BY <1>7, <1>8 DEF Finals
  <1>11. AllConfirming' = AllConfirming
    BY <1>6, <1>8 DEF AllConfirming
  <1> QED
    BY <1>4, <1>6, <1>9, <1>10, <1>11 DEF Promise!Give, Copies, Finals, AllConfirming

\* An acknowledge confirms what its client has, or is refused.
LEMMA FetchAckHandover ==
    ASSUME Orderly, NEW ch \in Channels, FetchAck(ch)
    PROVE  Promise!Confirm(ch) \/ UNCHANGED Promise!promised
  <1>1. UNCHANGED promise /\ \A other \in Channels : handler[other].pc = "free"
    BY DEF FetchAck, MayRequest, promise, Orderly
  <1>2. CASE ~IsOpen(client[ch].id)
    BY <1>1, <1>2, QuietHandover DEF FetchAck
  <1>3. CASE IsOpen(client[ch].id)
    <2>1. /\ handler'[ch].pc = "delete"
          /\ \A other \in Channels \ {ch} : handler'[other] = handler[other]
      BY <1>3 DEF FetchAck, Free, Orderly, FetchInv, TypeOK
    <2>2. /\ \A other \in Channels : Confirming(other) = {} /\ RowsOf(other)' = RowsOf(other)
          /\ \A other \in Channels \ {ch} : Confirming(other)' = {}
          /\ Confirming(ch)' = {r \in Ids : Copies[ch][r] # NoRow}
      BY <1>1, <2>1 DEF Confirming, RowsOf, Copies, promise
    <2>3. AllConfirming' = [AllConfirming EXCEPT ![ch] = {r \in Ids : Copies[ch][r] # NoRow}]
      BY <2>2 DEF AllConfirming
    <2>4. Copies' = Copies /\ Finals' = Finals
      BY <1>1 DEF Copies, Finals, GivenAsFinished, RowsOf, promise
    <2> QED
      BY <1>1, <2>2, <2>3, <2>4 DEF Promise!Confirm, Copies, Finals, AllConfirming, promise
  <1> QED
    BY <1>2, <1>3

\* A row that is deleted was given, and a finished sale as it is; a row that is gone
\* already, or an empty entry, is not seen.
LEMMA DeleteRowHandover ==
    ASSUME Orderly, NEW ch \in Channels, DeleteRow(ch)
    PROVE  (\E r \in Ids : Promise!Remove(ch, r)) \/ UNCHANGED Promise!promised
  <1> DEFINE r == fetchTransactionIdList[handler[ch].i + 1]
  <1>0. handler \in [Channels -> HandlerLocals] /\ fetchedCount \in Nat /\ handler[ch].i \in Nat
    BY FetchBounds DEF Orderly, FetchInv, TypeOK, HandlerLocals, Entries
  <1>1. /\ handler[ch].pc = "delete" /\ handler[ch].i < fetchedCount
        /\ UNCHANGED <<client, cleared, cautious>>
        /\ Transactions' = IF r = NoId THEN Transactions ELSE [Transactions EXCEPT ![r] = NoRow]
    BY DEF DeleteRow, MoreToDelete, bounds
  <1>2. handler'[ch].pc = "delete" /\ \A other \in Channels \ {ch} : handler'[other] = handler[other]
    BY <1>0, <1>1 DEF DeleteRow, HandlerLocals
  <1>3. \A other \in Channels : (handler'[other].pc = "delete") = (handler[other].pc = "delete")
    BY <1>1, <1>2
  <1>4. RowsOf(ch) = Listed(fetchedCount) /\ handler[ch].i + 1 \in 1 .. fetchedCount
    BY <1>0, <1>1 DEF Orderly, ListInv, Filled
  <1>5. r # NoId => r \in RowsOf(ch) /\ r \in Ids
    BY <1>4 DEF Listed, RowsOf
  <1> HIDE DEF r
  <1>6. CASE r = NoId
    BY <1>1, <1>3, <1>6, QuietHandover DEF promise
  <1>7. CASE r # NoId /\ Transactions[r] = NoRow
    <2>1. Transactions' = Transactions
      BY <1>1, <1>5, <1>7 DEF Orderly, FetchInv, TypeOK
    <2> QED
      BY <1>1, <1>3, <2>1, QuietHandover DEF promise
  <1>8. CASE r # NoId /\ Transactions[r] # NoRow
    <2>1. r \in Ids /\ r \in RowsOf(ch) /\ Transactions' = [Transactions EXCEPT ![r] = NoRow]
      BY <1>1, <1>5, <1>8
    <2>2. UNCHANGED <<Copies, Finals, AllConfirming>>
      BY <1>1, <1>3 DEF Copies, Finals, AllConfirming, GivenAsFinished, Confirming, RowsOf
    <2>3. r \in AllConfirming[ch]
      BY <1>1, <2>1 DEF AllConfirming, Confirming
    <2>4. r \in Finals[ch] => Transactions[r] = Copies[ch][r]
      BY <1>8, <2>1 DEF Finals, Copies, GivenAsFinished, RowsOf, Orderly, FinalStepInv, FinishedIsFinal
    <2> QED
      BY <1>1, <2>1, <2>2, <2>3, <2>4 DEF Promise!Remove, Copies, Finals, AllConfirming
  <1> QED
    BY <1>6, <1>7, <1>8

\* The reply "success" is given when all the rows are gone, a refused delete is reported.
LEMMA EndHandover ==
    ASSUME Orderly, NEW ch \in Channels, DeleteFails(ch) \/ CloseFetch(ch)
    PROVE  Promise!StopHalfway(ch) \/ Promise!Complete(ch)
  <1>1. /\ UNCHANGED <<Transactions, client, cautious>>
        /\ handler[ch].pc = "delete" /\ handler'[ch].pc = "free"
        /\ \A other \in Channels \ {ch} : handler'[other] = handler[other]
    <2>1. handler \in [Channels -> HandlerLocals]
      BY DEF Orderly, FetchInv, TypeOK, HandlerLocals
    <2>2. UNCHANGED <<Transactions, client, cautious>> /\ handler[ch].pc = "delete"
      BY DEF DeleteFails, CloseFetch, bounds
    <2>3. handler' = [handler EXCEPT ![ch] = Free]
      BY DEF DeleteFails, CloseFetch
    <2> QED
      BY <2>1, <2>2, <2>3 DEF Free
  <1>2. /\ RowsOf(ch)' = RowsOf(ch) /\ Confirming(ch) = RowsOf(ch) /\ Confirming(ch)' = {}
        /\ \A other \in Channels \ {ch} : Confirming(other)' = Confirming(other)
    BY <1>1 DEF RowsOf, Confirming
  <1>3. AllConfirming' = [AllConfirming EXCEPT ![ch] = {}] /\ AllConfirming[ch] = RowsOf(ch)
    BY <1>2 DEF AllConfirming
  <1>4. UNCHANGED <<Copies, Finals>>
    BY <1>1 DEF Copies, Finals, GivenAsFinished, RowsOf
  <1>5. CASE DeleteFails(ch)
    <2>1. UNCHANGED cleared
      BY <1>5 DEF DeleteFails, ghosts
    <2> QED
      BY <1>1, <1>3, <1>4, <2>1 DEF Promise!StopHalfway, Copies, Finals, AllConfirming
  <1>6. CASE CloseFetch(ch)
    <2>1. cleared' = cleared \cup RowsOf(ch)
      BY <1>6 DEF CloseFetch
    <2>2. ClearedIsGone' /\ orderly' = orderly
      BY <1>6, EndAck DEF Orderly, DoneInv, ClearedIsGone, CloseFetch, bounds
    <2>3. \A r \in RowsOf(ch) : Transactions[r] = NoRow
      BY <1>1, <2>1, <2>2 DEF ClearedIsGone, Orderly
    <2> QED
      BY <1>1, <1>3, <1>4, <2>1, <2>3 DEF Promise!Complete, Copies, Finals, AllConfirming
  <1> QED
    BY <1>5, <1>6

\* After a kill a client has nothing of a reply that was cut.
LEMMA RestartHandover ==
    ASSUME Orderly, Restart
    PROVE  Promise!Kill
  <1> DEFINE cut == {ch \in Channels : handler[ch].pc \in {"select", "read", "count"}}
  <1>1. /\ UNCHANGED <<Transactions, cleared, cautious>>
        /\ \A ch \in Channels : handler'[ch].pc = "free"
        /\ \A ch \in Channels : client'[ch] = IF ch \in cut THEN NoReply ELSE client[ch]
    BY DEF Restart, Free, ghosts
  <1>2. \A ch \in Channels : Confirming(ch)' = {}
    BY <1>1 DEF Confirming
  <1>3. ASSUME NEW ch \in Channels
        PROVE  /\ Copies'[ch] = IF ch \in cut THEN [r \in Ids |-> NoRow] ELSE Copies[ch]
               /\ Finals'[ch] = IF ch \in cut THEN {} ELSE Finals[ch]
    BY <1>1 DEF Copies, Finals, GivenAsFinished, RowsOf, NoReply
  <1>4. AllConfirming' = [ch \in Channels |-> {}]
    BY <1>2 DEF AllConfirming
  <1>5. /\ Copies' = [ch \in Channels |-> IF ch \in cut THEN [r \in Ids |-> NoRow] ELSE Copies[ch]]
        /\ Finals' = [ch \in Channels |-> IF ch \in cut THEN {} ELSE Finals[ch]]
    BY <1>3 DEF Copies, Finals
  <1>6. cut \in SUBSET Channels
    OBVIOUS
  <1> HIDE DEF cut
  <1> QED
    BY <1>1, <1>4, <1>5, <1>6 DEF Promise!Kill, Copies, Finals, AllConfirming

\* Every step keeps the promise.
LEMMA HandoverStep ==
    ASSUME FetchInv, TurnInv, FinalStepInv, AckInv, [Next]_vars
    PROVE  [Promise!HandoverNext]_Promise!handoverVars
  <1>1. CASE UNCHANGED vars
    <2>1. UNCHANGED promise /\ handler' = handler /\ orderly' = orderly
      BY <1>1 DEF vars, promise, ghosts, bounds
    <2>2. UNCHANGED Promise!promised
      BY <2>1, QuietHandover
    <2> QED
      BY <2>1, <2>2 DEF Promise!handoverVars
  <1>2. orderly' = orderly
    BY OrderlyKept
  <1>3. CASE ~orderly
    BY <1>2, <1>3 DEF Promise!HandoverNext
  <1>4. CASE orderly /\ Next
    <2>1. Orderly
      BY <1>4 DEF Orderly, AckInv
    <2> DEFINE Step == \/ \E r \in Ids : Promise!Keep(r)
                       \/ \E ch \in Channels : \/ Promise!Open(ch) \/ Promise!Confirm(ch)
                                               \/ Promise!Complete(ch) \/ Promise!StopHalfway(ch)
                       \/ \E ch \in Channels, r \in Ids : Promise!Give(ch, r) \/ Promise!Remove(ch, r)
                       \/ Promise!Kill
                       \/ UNCHANGED Promise!promised
    <2>2. ASSUME \/ \E row \in NewRows : StoreRow(row)
                 \/ \E r \in Ids : \E row \in RowChanges(r) : ChangeRow(r, row)
          PROVE  Step
      BY <2>1, <2>2, RowStepHandover
    <2>3. ASSUME NEW ch \in Channels, Select(ch) \/ SelectFails(ch) \/ CountRow(ch) \/ EndFetch(ch)
          PROVE  Step
      <3>1. UNCHANGED promise
        BY <2>3 DEF Select, SelectFails, CountRow, EndFetch, promise, ghosts, bounds
      <3>2. handler[ch].pc # "delete" /\ handler'[ch].pc # "delete"
            /\ \A other \in Channels \ {ch} : handler'[other] = handler[other]
        <4>1. handler \in [Channels -> HandlerLocals]
          BY <2>1 DEF Orderly, FetchInv, TypeOK, HandlerLocals
        <4>2. \E local \in HandlerLocals :
                 local.pc # "delete" /\ handler' = [handler EXCEPT ![ch] = local]
          <5>1. CASE Select(ch) \/ CountRow(ch)
            <6> DEFINE local == [handler[ch] EXCEPT !.pc = "read"]
            <6>1. local \in HandlerLocals /\ local.pc = "read"
              BY <4>1 DEF HandlerLocals
            <6>2. handler' = [handler EXCEPT ![ch] = local]
              BY <5>1 DEF Select, CountRow, Goes
            <6> QED
              BY <6>1, <6>2
          <5>2. CASE SelectFails(ch) \/ EndFetch(ch)
            <6>1. Free \in HandlerLocals /\ Free.pc = "free"
              BY FreeTyped DEF HandlerLocals, Free
            <6>2. handler' = [handler EXCEPT ![ch] = Free]
              BY <5>2 DEF SelectFails, EndFetch
            <6> QED
              BY <6>1, <6>2
          <5> QED
            BY <2>3, <5>1, <5>2
        <4>3. handler[ch].pc # "delete"
          BY <2>3 DEF Select, SelectFails, CountRow, EndFetch
        <4> QED
          BY <4>1, <4>2, <4>3
      <3> QED
        BY <3>1, <3>2, QuietHandover
    <2>4. ASSUME NEW ch \in Channels, HandlerStep(ch) PROVE Step
      BY <2>1, <2>3, <2>4, ReadRowHandover, DeleteRowHandover, EndHandover DEF HandlerStep
    <2>5. ASSUME NEW ch \in Channels, FetchAck(ch) PROVE Step
      BY <2>1, <2>5, FetchAckHandover
    <2>6. ASSUME NEW ch \in Channels, NEW id \in FetchIds, NEW mode \in Modes,
                 NEW online \in BOOLEAN, NEW records \in MaxRecords,
                 FetchAuth(ch, id, mode, online, records)
          PROVE  Step
      BY <2>1, <2>6, FetchAuthHandover
    <2>7. ASSUME Restart PROVE Step
      BY <2>1, <2>7, RestartHandover
    <2>8. Step
      BY <1>4, <2>2, <2>4, <2>5, <2>6, <2>7 DEF Next
    <2> QED
      BY <1>2, <2>8 DEF Promise!HandoverNext, Promise!handoverVars
  <1> QED
    BY <1>1, <1>3, <1>4

LEMMA HandoverInit == Init => Promise!HandoverInit
  <1> SUFFICES ASSUME Init PROVE Promise!HandoverInit
    OBVIOUS
  <1>1. /\ orderly \in BOOLEAN /\ cleared = {} /\ Transactions = [r \in Ids |-> NoRow]
        /\ \A ch \in Channels : client[ch].seen = Transactions /\ handler[ch].pc = "free"
    BY FetchKinds DEF Init, NoReply, Free
  <1>2. \A ch \in Channels : GivenAsFinished(ch) = {} /\ Confirming(ch) = {}
    BY <1>1 DEF GivenAsFinished, Confirming, RowsOf
  <1> QED
    BY <1>1, <1>2 DEF Promise!HandoverInit

\* For orderly clients the data channel hands its rows over as promised; for any rows,
\* clients, lists, refused statements and kills.
THEOREM FetchImplementsHandover == Spec => ImplementsHandover
  <1>1. Spec => [](FetchInv /\ TurnInv /\ FinalStepInv /\ AckInv)
    BY FetchInit, FetchInvStep, TurnInit, TurnStep, FinalInit, FinalStep, AckInit, AckStep, PTL
       DEF Spec
  <1> QED
    BY <1>1, HandoverInit, HandoverStep, PTL DEF Spec, ImplementsHandover, Promise!HandoverSpec

\* What the promise comes to: what a client was told is gone stays gone.
THEOREM HandedOverIsGone == Promise!HandoverSpec => []Promise!ToldIsGone
  <1> DEFINE Inv == orderly => /\ Transactions \in [Ids -> Row \cup {NoRow}]
                               /\ cleared \subseteq Ids
                               /\ \A r \in cleared : Transactions[r] = NoRow
  <1>1. Promise!HandoverInit => Inv
    BY DEF Promise!HandoverInit
  <1>2. ASSUME Inv, [Promise!HandoverNext]_Promise!handoverVars PROVE Inv'
    <2>1. CASE UNCHANGED Promise!handoverVars
      BY <1>2, <2>1 DEF Promise!handoverVars, Promise!promised
    <2>2. CASE ~orderly /\ Promise!HandoverNext
      BY <2>2 DEF Promise!HandoverNext
    <2>3. ASSUME orderly, NEW r \in Ids, Promise!Keep(r) PROVE Inv'
      BY <1>2, <2>3 DEF Promise!Keep
    <2>4. ASSUME orderly, NEW c \in Channels, NEW r \in Ids, Promise!Remove(c, r) PROVE Inv'
      BY <1>2, <2>4 DEF Promise!Remove
    <2>5. ASSUME orderly, NEW c \in Channels, Promise!Complete(c) PROVE Inv'
      <3>1. [ch \in Channels |-> Confirming(ch)][c] \subseteq Ids
        BY DEF Confirming, RowsOf
      <3> QED
        BY <1>2, <2>5, <3>1 DEF Promise!Complete
    <2>6. ASSUME orderly, NEW c \in Channels,
                 \/ Promise!Open(c) \/ Promise!Confirm(c) \/ Promise!StopHalfway(c)
                 \/ \E r \in Ids : Promise!Give(c, r)
          PROVE  Inv'
      BY <1>2, <2>6 DEF Promise!Open, Promise!Confirm, Promise!StopHalfway, Promise!Give
    <2>7. ASSUME orderly, Promise!Kill PROVE Inv'
      BY <1>2, <2>7 DEF Promise!Kill
    <2> QED
      BY <1>2, <2>1, <2>2, <2>3, <2>4, <2>5, <2>6, <2>7 DEF Promise!HandoverNext
  <1>3. Inv => Promise!ToldIsGone
    BY DEF Promise!ToldIsGone
  <1> QED
    BY <1>1, <1>2, <1>3, PTL DEF Promise!HandoverSpec
=============================================================================
