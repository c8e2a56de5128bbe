----------------------- MODULE TransactionNumbers_proofs ----------------------
(***************************************************************************)
(* Theorems about TransactionNumbers: the counter stays within its digits, *)
(* and a number comes back only after the counter has gone all the way     *)
(* round.  The argument: while the counter has moved e < MAX_TXN_COUNTER   *)
(* times since a row took its number n, its value is n + e, or n + e - MAX *)
(* if it has passed the maximum.  A round takes the value as its own       *)
(* number, and every row of an earlier round has moved the counter before  *)
(* (e > 0), so that neither value is n.                                    *)
(***************************************************************************)
EXTENDS TransactionNumbers, TLAPS

\* The value the counter has after it has been saved a times, seen from a row
\* (or from the round that will store one).
Follows(row, value, a) ==
    a - row.start < MAX_TXN_COUNTER =>
       \/ value = row.number + (a - row.start)
       \/ value = row.number + (a - row.start) - MAX_TXN_COUNTER

Saving == trx.pc \in {"truncate", "write"}

\* The saves there will be with the one under way.
Moves == IF Saving THEN saved + 1 ELSE saved

\* The counter and its saved copy follow a row.
Followed(row) ==
    /\ Follows(row, transactionCounter, Moves)
    /\ file # Empty => Follows(row, file, saved)

Current(row) == row.counted /\ row.tears = tears

\* What is saved is the counter.
FileIsCounter == ~Saving /\ file # Empty => transactionCounter = file

RowsFollowed ==
    \A i \in DOMAIN rows :
       /\ rows[i].tears <= tears
       /\ Current(rows[i]) => rows[i].start < saved /\ Followed(rows[i])

\* The round's number follows the rows, and the counter follows the round, which
\* moves it before it stores a row that counts.
RoundFollows ==
    /\ Saving => trx.back # "idle" /\ ~trx.waiting
    /\ trx.pc # "idle" =>
          /\ trx.start <= saved
          /\ ~trx.waiting /\ ~Saving => trx.start < saved
          /\ Followed(trx)
          /\ \A i \in DOMAIN rows : Current(rows[i]) =>
                rows[i].start < trx.start /\ Follows(rows[i], trx.number, trx.start)

NumbersInv == TypeOK /\ FileIsCounter /\ RowsFollowed /\ RoundFollows /\ NumbersFresh

-----------------------------------------------------------------------------
(* Lemmas about the operators.                                             *)

\* A counter that follows a row follows it one step further on.
LEMMA SuccessorFollows ==
    ASSUME NEW row, row.number \in Numbers, row.start \in Nat,
           NEW value \in Numbers, NEW a \in Nat, Follows(row, value, a)
    PROVE  Successor(value) \in Numbers /\ Follows(row, Successor(value), a + 1)
BY NumberBounds, SMT DEF Successor, Follows, Numbers

\* A number that comes back does so after MAX_TXN_COUNTER steps.
LEMMA NumberReturns ==
    ASSUME NEW row, row.number \in Numbers, row.start \in Nat,
           NEW a \in Nat, row.start < a, Follows(row, row.number, a)
    PROVE  a - row.start >= MAX_TXN_COUNTER
BY NumberBounds, SMT DEF Follows, Numbers

\* A stored row is added at the end.
LEMMA RowsAfterAppend ==
    ASSUME NEW seq \in Seq(Row), NEW row \in Row
    PROVE  /\ Append(seq, row) \in Seq(Row)
           /\ DOMAIN seq = 1 .. Len(seq) /\ Len(seq) \in Nat
           /\ DOMAIN Append(seq, row) = 1 .. (Len(seq) + 1)
           /\ \A i \in 1 .. Len(seq) : Append(seq, row)[i] = seq[i]
           /\ Append(seq, row)[Len(seq) + 1] = row
OBVIOUS

\* Every row in the table is a row.
LEMMA RowTyped ==
    ASSUME TypeOK, NEW i \in DOMAIN rows
    PROVE  rows[i] \in Row /\ rows[i].number \in Numbers /\ rows[i].start \in Nat
           /\ rows[i].tears \in Nat
<1>1. rows[i] \in Row
  BY DEF TypeOK
<1> QED
  BY <1>1 DEF Row

-----------------------------------------------------------------------------
(* The counter and the rows have their types.                              *)

LEMMA NumbersTypeInit == Init => TypeOK
BY NumberBounds DEF Init, TypeOK, Idle, Numbers, Row

LEMMA NumbersTypeNext ==
    ASSUME TypeOK, [Next]_vars
    PROVE  TypeOK'
<1> USE NumberBounds DEF TypeOK
<1>1. CASE BeginRound
  BY <1>1 DEF BeginRound, Idle
<1>2. ASSUME NEW back \in {"reading", "completed"}, Increment(back)
      PROVE  TypeOK'
  <2>1. Successor(transactionCounter) \in Numbers
    BY DEF Successor, Numbers
  <2> QED
    BY <1>2, <2>1 DEF Increment
<1>3. CASE FirstEvent
  BY <1>2, <1>3 DEF FirstEvent
<1>4. CASE AbtCompletion
  BY <1>2, <1>4 DEF AbtCompletion
<1>5. CASE Completion
  BY <1>5 DEF Completion
<1>6. CASE Truncate
  BY <1>6 DEF Truncate
<1>7. CASE Write
  BY <1>7 DEF Write, SavedNumber
<1>8. CASE StoreRow
  <2> DEFINE row == [number |-> trx.number, start |-> trx.start,
                     counted |-> ~trx.waiting, tears |-> tears]
  <2>1. row \in Row
    BY DEF Row
  <2>2. rows' = Append(rows, row) /\ trx' = Idle
        /\ UNCHANGED <<transactionCounter, file, saved, tears, crashes>>
    BY <1>8 DEF StoreRow
  <2> HIDE DEF row
  <2>3. rows' \in Seq(Row)
    BY <2>1, <2>2, RowsAfterAppend
  <2> QED
    BY <2>2, <2>3 DEF Idle, Numbers
<1>9. CASE NoOutcome
  BY <1>9 DEF NoOutcome, Idle, Numbers
<1>10. CASE Crash
  BY <1>10 DEF Crash, Loaded, Idle, Numbers
<1>11. CASE UNCHANGED vars
  BY <1>11 DEF vars
<1> QED
  BY <1>1, <1>3, <1>4, <1>5, <1>6, <1>7, <1>8, <1>9, <1>10, <1>11 DEF Next

\* TypeOK holds throughout: the counter has at most the digits of a STAN
\* (commonutil.c 1064).
THEOREM NumbersTypeCorrect == Spec => []TypeOK
<1>1. Init => TypeOK
  BY NumbersTypeInit
<1>2. TypeOK /\ [Next]_vars => TypeOK'
  BY NumbersTypeNext
<1> QED
  BY <1>1, <1>2, PTL DEF Spec

-----------------------------------------------------------------------------
(* The counter follows the rows and the round.                             *)

LEMMA NumbersInvInit == Init => NumbersInv
<1>1. Init => FileIsCounter /\ RowsFollowed /\ RoundFollows /\ NumbersFresh
  BY DEF Init, FileIsCounter, RowsFollowed, RoundFollows, NumbersFresh, Saving, Idle
<1> QED
  BY <1>1, NumbersTypeInit DEF NumbersInv

\* The round takes a number that follows every row.
LEMMA BeginRoundKeeps ==
    ASSUME NumbersInv, BeginRound
    PROVE  FileIsCounter' /\ RowsFollowed' /\ RoundFollows' /\ NumbersFresh'
<1> USE NumberBounds DEF NumbersInv, TypeOK
<1>1. /\ trx.pc = "idle" /\ trx'.pc = "reading" /\ trx'.number = transactionCounter
      /\ trx'.start = saved /\ trx'.waiting = TRUE
      /\ UNCHANGED <<transactionCounter, file, rows, saved, tears, crashes>>
  BY DEF BeginRound, Idle
<1>2. ~Saving /\ ~Saving' /\ Moves = saved /\ Moves' = saved
  BY <1>1 DEF Saving, Moves
<1>3. FileIsCounter' /\ NumbersFresh'
  BY <1>1, <1>2 DEF FileIsCounter, NumbersFresh
<1>4. RowsFollowed'
  BY <1>1, <1>2 DEF RowsFollowed, Followed, Follows, Current
<1>5. Followed(trx)'
  BY <1>1, <1>2 DEF Followed, Follows, FileIsCounter, Numbers
<1>6. \A i \in DOMAIN rows : Current(rows[i])' =>
         rows[i].start < trx'.start /\ Follows(rows[i], trx'.number, trx'.start)
  BY <1>1, <1>2 DEF RowsFollowed, Followed, Follows, Current
<1> QED
  BY <1>1, <1>2, <1>3, <1>4, <1>5, <1>6 DEF RoundFollows, Current

\* The counter moves one step further from every row and from the round.
LEMMA IncrementKeeps ==
    ASSUME NumbersInv, NEW back \in {"reading", "completed"}, trx.pc = "reading",
           Increment(back)
    PROVE  FileIsCounter' /\ RowsFollowed' /\ RoundFollows' /\ NumbersFresh'
<1> USE NumberBounds DEF NumbersInv
<1>1. /\ transactionCounter' = Successor(transactionCounter)
      /\ trx'.pc = "truncate" /\ trx'.waiting = FALSE /\ trx'.back = back
      /\ trx'.number = trx.number /\ trx'.start = trx.start
      /\ UNCHANGED <<file, rows, saved, tears, crashes>>
  BY DEF Increment, TypeOK
<1>2. ~Saving /\ Saving' /\ Moves = saved /\ Moves' = saved + 1
  BY <1>1 DEF Saving, Moves
<1>3. transactionCounter \in Numbers /\ saved \in Nat
      /\ trx.number \in Numbers /\ trx.start \in Nat
  BY DEF TypeOK
<1>4. FileIsCounter' /\ NumbersFresh'
  BY <1>1, <1>2 DEF FileIsCounter, NumbersFresh
<1>5. RowsFollowed'
  <2>1. ASSUME NEW i \in DOMAIN rows, Current(rows[i])
        PROVE  Followed(rows[i])'
    <3>1. rows[i].number \in Numbers /\ rows[i].start \in Nat
      BY RowTyped
    <3>2. Follows(rows[i], transactionCounter, saved)
      BY <2>1, <1>2 DEF RowsFollowed, Followed
    <3>3. Follows(rows[i], transactionCounter', saved + 1)
      BY <3>1, <3>2, <1>1, <1>3, SuccessorFollows
    <3> QED
      BY <2>1, <3>3, <1>1, <1>2 DEF RowsFollowed, Followed, Follows
  <2> QED
    BY <2>1, <1>1 DEF RowsFollowed, Current
<1>6. Followed(trx)'
  <2>1. Follows(trx, transactionCounter, saved) /\ (file # Empty => Follows(trx, file, saved))
    BY <1>2 DEF RoundFollows, Followed
  <2>2. Follows(trx, transactionCounter', saved + 1)
    BY <2>1, <1>1, <1>3, SuccessorFollows
  <2> QED
    BY <2>1, <2>2, <1>1, <1>2 DEF Followed, Follows
<1>7. \A i \in DOMAIN rows : Current(rows[i])' =>
         rows[i].start < trx'.start /\ Follows(rows[i], trx'.number, trx'.start)
  BY <1>1 DEF RoundFollows, Current
<1> QED
  BY <1>1, <1>2, <1>4, <1>5, <1>6, <1>7 DEF RoundFollows, Current

\* The saved copy takes the counter's value.
LEMMA WriteKeeps ==
    ASSUME NumbersInv, Write
    PROVE  FileIsCounter' /\ RowsFollowed' /\ RoundFollows' /\ NumbersFresh'
<1> USE NumberBounds DEF NumbersInv, TypeOK
<1>1. /\ trx.pc = "write" /\ trx'.pc = trx.back /\ trx'.waiting = trx.waiting
      /\ trx'.number = trx.number /\ trx'.start = trx.start
      /\ file' = transactionCounter /\ saved' = saved + 1
      /\ UNCHANGED <<transactionCounter, rows, tears, crashes>>
  BY DEF Write, SavedNumber
<1>2. Saving /\ ~Saving' /\ Moves = saved + 1 /\ Moves' = saved + 1
  BY <1>1 DEF Saving, Moves
<1>3. FileIsCounter' /\ NumbersFresh'
  BY <1>1 DEF FileIsCounter, NumbersFresh
<1>4. ASSUME NEW i \in DOMAIN rows
      PROVE  /\ rows'[i].tears <= tears'
             /\ Current(rows[i])' => rows'[i].start < saved' /\ Followed(rows[i])'
  <2>1. rows[i].start \in Nat
    BY RowTyped
  <2> QED
    BY <2>1, <1>1, <1>2 DEF RowsFollowed, Followed, Follows, Current
<1>5. Followed(trx)'
  BY <1>1, <1>2 DEF RoundFollows, Followed, Follows
<1>6. trx'.start < saved'
  BY <1>1 DEF RoundFollows
<1>7. \A i \in DOMAIN rows : Current(rows[i])' =>
         rows[i].start < trx'.start /\ Follows(rows[i], trx'.number, trx'.start)
  BY <1>1 DEF RoundFollows, Current
<1> QED
  BY <1>1, <1>2, <1>3, <1>4, <1>5, <1>6, <1>7 DEF RowsFollowed, RoundFollows, Current

\* The row stored has a number that no row of the last MAX_TXN_COUNTER steps has.
LEMMA StoreRowKeeps ==
    ASSUME NumbersInv, StoreRow
    PROVE  FileIsCounter' /\ RowsFollowed' /\ RoundFollows' /\ NumbersFresh'
<1> USE NumberBounds DEF NumbersInv
<1> DEFINE row == [number |-> trx.number, start |-> trx.start,
                   counted |-> ~trx.waiting, tears |-> tears]
           n == Len(rows)
<1>1. /\ trx.pc = "completed" /\ trx' = Idle /\ rows' = Append(rows, row)
      /\ UNCHANGED <<transactionCounter, file, saved, tears, crashes>>
  BY DEF StoreRow
<1>2. ~Saving /\ ~Saving' /\ Moves = saved /\ Moves' = saved /\ trx'.pc = "idle"
  BY <1>1 DEF Saving, Moves, Idle
<1>3. row \in Row /\ rows \in Seq(Row)
  BY DEF Row, TypeOK
<1>4. row.number = trx.number /\ row.start = trx.start /\ row.tears = tears
      /\ row.counted = ~trx.waiting /\ trx.number \in Numbers /\ trx.start \in Nat
      /\ tears \in Nat
  BY DEF TypeOK
<1> HIDE DEF row
<1>5. /\ DOMAIN rows = 1 .. n /\ n \in Nat /\ DOMAIN rows' = 1 .. (n + 1)
      /\ \A i \in 1 .. n : rows'[i] = rows[i]
      /\ rows'[n + 1] = row
  BY <1>1, <1>3, RowsAfterAppend
<1> HIDE DEF n
<1>6. FileIsCounter' /\ RoundFollows'
  BY <1>1, <1>2 DEF FileIsCounter, RoundFollows
<1>7. row.counted => row.start < saved /\ Followed(row)
  BY <1>1, <1>2, <1>4 DEF RoundFollows, Followed, Follows
<1>8. RowsFollowed'
  <2>1. ASSUME NEW i \in DOMAIN rows'
        PROVE  /\ rows'[i].tears <= tears
               /\ rows'[i].counted /\ rows'[i].tears = tears =>
                    rows'[i].start < saved /\ Followed(rows'[i])
    <3>1. CASE i = n + 1
      BY <3>1, <1>4, <1>5, <1>7
    <3>2. CASE i \in 1 .. n
      BY <3>2, <1>5 DEF RowsFollowed, Current
    <3> QED
      BY <3>1, <3>2, <1>5
  <2>2. \A r : Followed(r) => Followed(r)'
    BY <1>1, <1>2 DEF Followed, Follows
  <2> QED
    BY <2>1, <2>2, <1>1, <1>2 DEF RowsFollowed, Current, Followed, Follows
<1>9. NumbersFresh'
  <2> SUFFICES ASSUME NEW i \in DOMAIN rows', NEW j \in DOMAIN rows',
                      i < j, rows'[i].counted, rows'[j].counted,
                      rows'[i].tears = rows'[j].tears, rows'[i].number = rows'[j].number
               PROVE  rows'[j].start - rows'[i].start >= MAX_TXN_COUNTER
    BY DEF NumbersFresh
  <2>1. CASE j \in 1 .. n
    BY <2>1, <1>5 DEF NumbersFresh
  <2>2. CASE j = n + 1
    <3>1. i \in 1 .. n /\ i \in DOMAIN rows /\ rows'[i] = rows[i] /\ rows'[j] = row
      BY <2>2, <1>5
    <3>2. rows[i].number \in Numbers /\ rows[i].start \in Nat
      BY <3>1, RowTyped
    <3>3. Current(rows[i])
      BY <3>1, <1>4 DEF Current
    <3>4. rows[i].start < trx.start /\ Follows(rows[i], trx.number, trx.start)
      BY <3>1, <3>3, <1>1 DEF RoundFollows
    <3>5. Follows(rows[i], rows[i].number, trx.start)
      BY <3>1, <3>4, <1>4
    <3>6. trx.start - rows[i].start >= MAX_TXN_COUNTER
      BY <3>2, <3>4, <3>5, <1>4, NumberReturns
    <3> QED
      BY <3>1, <3>6, <1>4
  <2> QED
    BY <2>1, <2>2, <1>5
<1> QED
  BY <1>6, <1>8, <1>9

\* A kill leaves the saved copy: the rows follow it, or the file was torn and no row
\* is compared with a later one.
LEMMA CrashKeeps ==
    ASSUME NumbersInv, Crash
    PROVE  FileIsCounter' /\ RowsFollowed' /\ RoundFollows' /\ NumbersFresh'
<1> USE NumberBounds DEF NumbersInv
<1>1. /\ trx' = Idle /\ transactionCounter' = IF file = Empty THEN 0 ELSE file
      /\ tears' = IF file = Empty THEN tears + 1 ELSE tears
      /\ UNCHANGED <<file, rows, saved>>
  BY DEF Crash, Loaded
<1>2. ~Saving' /\ Moves' = saved /\ trx'.pc = "idle"
  BY <1>1 DEF Saving, Moves, Idle
<1>3. FileIsCounter' /\ RoundFollows' /\ NumbersFresh'
  BY <1>1, <1>2 DEF FileIsCounter, RoundFollows, NumbersFresh
<1>4. ASSUME NEW i \in DOMAIN rows
      PROVE  /\ rows'[i].tears <= tears'
             /\ Current(rows[i])' => rows'[i].start < saved' /\ Followed(rows[i])'
  <2>1. rows[i].tears \in Nat /\ rows[i].tears <= tears /\ tears \in Nat
    BY RowTyped DEF RowsFollowed, TypeOK
  <2>2. CASE file = Empty
    BY <2>1, <2>2, <1>1 DEF Current
  <2>3. CASE file # Empty
    <3>1. Current(rows[i])' => Current(rows[i])
      BY <2>3, <1>1 DEF Current
    <3>2. Current(rows[i]) => rows[i].start < saved /\ Follows(rows[i], file, saved)
      BY <2>3 DEF RowsFollowed, Followed
    <3> QED
      BY <2>1, <2>3, <3>1, <3>2, <1>1, <1>2 DEF Followed, Follows
  <2> QED
    BY <2>2, <2>3
<1> QED
  BY <1>1, <1>3, <1>4 DEF RowsFollowed

LEMMA NumbersInvNext ==
    ASSUME NumbersInv, [Next]_vars
    PROVE  NumbersInv'
<1>1. TypeOK'
  BY NumbersTypeNext DEF NumbersInv
<1>2. FileIsCounter' /\ RowsFollowed' /\ RoundFollows' /\ NumbersFresh'
  <2>1. CASE BeginRound
    BY <2>1, BeginRoundKeeps
  <2>2. CASE FirstEvent
    BY <2>2, IncrementKeeps DEF FirstEvent
  <2>3. CASE AbtCompletion
    BY <2>3, IncrementKeeps DEF AbtCompletion
  <2>4. CASE Completion
    <3>1. /\ trx.pc = "reading" /\ trx'.pc = "completed" /\ trx'.waiting = trx.waiting
          /\ trx'.number = trx.number /\ trx'.start = trx.start
          /\ UNCHANGED <<transactionCounter, file, rows, saved, tears, crashes>>
      BY <2>4 DEF Completion, NumbersInv, TypeOK
    <3> QED
      BY <3>1 DEF NumbersInv, FileIsCounter, RowsFollowed, RoundFollows, NumbersFresh,
                  Followed, Follows, Current, Saving, Moves
  <2>5. CASE Truncate
    <3>1. /\ trx.pc = "truncate" /\ trx'.pc = "write" /\ trx'.waiting = trx.waiting
          /\ trx'.number = trx.number /\ trx'.start = trx.start /\ trx'.back = trx.back
          /\ file' = Empty
          /\ UNCHANGED <<transactionCounter, rows, saved, tears, crashes>>
      BY <2>5 DEF Truncate, NumbersInv, TypeOK
    <3> QED
      BY <3>1 DEF NumbersInv, FileIsCounter, RowsFollowed, RoundFollows, NumbersFresh,
                  Followed, Follows, Current, Saving, Moves
  <2>6. CASE Write
    BY <2>6, WriteKeeps
  <2>7. CASE StoreRow
    BY <2>7, StoreRowKeeps
  <2>8. CASE NoOutcome
    <3>1. /\ trx.pc = "reading" /\ trx'.pc = "idle"
          /\ UNCHANGED <<transactionCounter, file, rows, saved, tears, crashes>>
      BY <2>8 DEF NoOutcome, Idle
    <3> QED
      BY <3>1 DEF NumbersInv, FileIsCounter, RowsFollowed, RoundFollows, NumbersFresh,
                  Followed, Follows, Current, Saving, Moves
  <2>9. CASE Crash
    BY <2>9, CrashKeeps
  <2>10. CASE UNCHANGED vars
    BY <2>10 DEF vars, NumbersInv, FileIsCounter, RowsFollowed, RoundFollows, NumbersFresh,
                 Followed, Follows, Current, Saving, Moves
  <2> QED
    BY <2>1, <2>2, <2>3, <2>4, <2>5, <2>6, <2>7, <2>8, <2>9, <2>10 DEF Next
<1> QED
  BY <1>1, <1>2 DEF NumbersInv

\* NumbersFresh holds throughout, for every maximum and every number of kills: a
\* number comes back only after the counter has gone all the way round, or over a
\* torn file (commonutil.c 1056, config.c 1064).
THEOREM NumbersStayFresh == Spec => []NumbersFresh
<1>1. NumbersInv => NumbersFresh
  BY DEF NumbersInv
<1> QED
  BY <1>1, NumbersInvInit, NumbersInvNext, PTL DEF Spec
=============================================================================
