-------------------------- MODULE TransactionRows --------------------------
(***************************************************************************)
(* The rows of the Transactions table as the data channel sees them, and   *)
(* what the threads that make and send transactions do to them.            *)
(* FetchChannels takes these steps for its environment; OfflineSales and   *)
(* OnlineReversal are shown to take no others.                             *)
(***************************************************************************)

NoRow == [online |-> FALSE, txn |-> "none", host |-> "none"]
Row == [online : BOOLEAN, txn : {"Pending", "Success", "Failure"},
        host : {"Pending", "Success", "Failure", "NA"}]

\* createTransactionData and createTxnDataForOnline.
NewRows ==
    {[online |-> FALSE, txn |-> "Success", host |-> "Pending"],
     [online |-> FALSE, txn |-> "Failure", host |-> "NA"],
     [online |-> TRUE, txn |-> "Pending", host |-> "Pending"]}

\* The host's answer to an offline sale.  When pending rows are deleted under the host
\* thread, its list has stale entries, and a refusal of such a one is written to a row
\* that was accepted before.
OfflineChanges(row, staleEntries) ==
    CASE row.host = "Pending" -> {[row EXCEPT !.host = "Success"]}
      [] row.host = "Success" /\ row.txn = "Success" /\ staleEntries ->
            {[row EXCEPT !.host = "Pending"]}
      [] OTHER -> {}

\* The host's answer to an online transaction; after it the outcome of the card, and the
\* host's answer to a reversal, which fails a transaction without an outcome.
OnlineChanges(row) ==
    IF row.host = "Pending"
    THEN {[row EXCEPT !.host = host] : host \in {"Success", "Failure"}}
    ELSE {[row EXCEPT !.txn = txn] : txn \in
             IF row.txn = "Pending" THEN {"Success", "Failure"} ELSE {}}
         \cup {[row EXCEPT !.host = "Success",
                           !.txn = IF row.txn = "Pending" THEN "Failure" ELSE row.txn]}

Changes(row, staleEntries) ==
    IF row.online THEN OnlineChanges(row) ELSE OfflineChanges(row, staleEntries)
=============================================================================
