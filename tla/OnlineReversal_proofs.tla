------------------------ MODULE OnlineReversal_proofs ------------------------
(***************************************************************************)
(* Theorems about OnlineReversal, for any number of rows and channels and  *)
(* any profiles: any types and modes the clients search with, any number   *)
(* of searches out of turn, clears and kills.                              *)
(***************************************************************************)
EXTENDS OnlineReversal, TLAPS

-----------------------------------------------------------------------------
(* The inductive invariant.                                                *)

\* No reversal of the transaction was ever set in motion, by anybody.
Untouched(t) ==
    /\ Transactions[t].reversal = "none"
    /\ t \notin undone /\ t \notin leftover /\ clearing # t
    /\ \A thread \in Threads : call[thread].id # t /\ call[thread].copy # t

\* The transaction thread is on a way on which its card may take the answer, or has.
CardMayTake ==
    \/ trx.pc \in {"send", "respond", "approved"}
    \/ trx.pc = "tap" /\ trx.answer = "00"

\* The transaction thread has no row yet, or none any more.
Between == {"idle", "begin", "copy", "armed", "end"}

\* Where the transaction thread has a row, and what it has done with it.
RoundInv ==
    /\ trx.pc \in Between => trx.id = NoId
    /\ trx.id # NoId => /\ Transactions[trx.id] # NoRow /\ Transactions[trx.id].kind = trx.kind
                        /\ trx.kind \in AllKinds
    /\ trx.pc \notin Between \cup {"flag", "reverse"} => trx.id # NoId
    /\ trx.id \in credited <=> trx.pc = "approved"
    /\ trx.pc = "reverse" => \/ trx.next = "over"
                             \/ trx.next = "tap" /\ trx.answer = "lost" /\ trx.id # NoId

\* Rows that are not there, that the card has taken, or that it may take are untouched.
UntouchedInv ==
    /\ \A t \in Ids : Transactions[t] = NoRow => Untouched(t) /\ t \notin booked \cup credited
    /\ \A t \in credited : Untouched(t)
    /\ CardMayTake => Untouched(trx.id)

\* The status a call of performReversal has read is the row's, or was Pending.
ReadStatusInv(thread) ==
    call[thread].pc \in {"send", "write"} /\ call[thread].id # NoId =>
       /\ call[thread].txn \in {"Pending", "Failure"}
       /\ call[thread].txn = "Failure" => Transactions[call[thread].id].txn = "Failure"

\* A success is on the card, and not there before the card has taken the answer.
StatusInv ==
    /\ \A t \in Ids : Transactions[t].txn = "Success" => t \in credited
    /\ CardMayTake => Transactions[trx.id].txn = "Pending"
    /\ \A thread \in Threads : ReadStatusInv(thread)

\* Until it leaves a booked row, the transaction thread either has flagged it or will.
OwedInv ==
    /\ OwedIsFlagged
    /\ trx.pc = "send" => trx.id \notin booked
    /\ trx.pc = "respond" /\ trx.id \in booked \ derailed => trx.answer \in {"00", "lost"}
    /\ trx.pc \in {"tap", "declined"} /\ trx.id \in Owed =>
          \/ Transactions[trx.id].code = "00"
          \/ Transactions[trx.id].reversal # "none"
    /\ trx.pc \in {"absent", "reverse"} /\ trx.id # NoId => Transactions[trx.id].reversal # "none"
    /\ trx.bin = "00" /\ trx.id \in booked => trx.id \in derailed

Inv == TypeOK /\ RoundInv /\ UntouchedInv /\ StatusInv /\ OwedInv

-----------------------------------------------------------------------------
(* How the steps move.                                                     *)

LEMMA NoRowNotRow == NoRow \notin Row
  BY DEF NoRow, Row, AllKinds

LEMMA InitInv == Init => Inv
  <1> SUFFICES ASSUME Init PROVE Inv
    OBVIOUS
  <1>1. TypeOK
    BY OnlineBounds DEF Init, TypeOK, TrxLocals, HandlerLocals, CallLocals, Free, Idle, NoCall, Ids,
                        Threads, NoId
  <1>2. /\ trx.pc = "idle" /\ trx.id = NoId /\ NoId \notin Ids
        /\ \A thread \in Threads : call[thread].pc = "none" /\ call[thread].id = NoId
                                   /\ call[thread].copy = NoId
        /\ \A t \in Ids : Transactions[t] = NoRow
    BY OnlineBounds DEF Init, Idle, NoCall, Ids, NoId
  <1>3. RoundInv /\ UntouchedInv
    BY <1>2 DEF Init, RoundInv, Between, UntouchedInv, Untouched, CardMayTake, NoRow
  <1>4. StatusInv /\ OwedInv
    BY <1>2 DEF Init, StatusInv, ReadStatusInv, OwedInv, OwedIsFlagged, Owed, CardMayTake, NoRow
  <1> QED
    BY <1>1, <1>3, <1>4 DEF Inv

\* An update changes its row, if it is there, and no other.
LEMMA RowChange ==
    ASSUME TypeOK, NEW id \in Ids, NEW row, Transactions' = Updated(id, row),
           Transactions[id] # NoRow => row \in Row
    PROVE  /\ Transactions' \in [Ids -> Row \cup {NoRow}]
           /\ \A t \in Ids \ {id} : Transactions'[t] = Transactions[t]
           /\ Transactions'[id] = IF Transactions[id] = NoRow THEN NoRow ELSE row
           /\ \A t \in Ids : Transactions'[t] = NoRow <=> Transactions[t] = NoRow
  <1>1. Transactions \in [Ids -> Row \cup {NoRow}]
    BY DEF TypeOK
  <1>2. CASE Transactions[id] = NoRow
    BY <1>1, <1>2 DEF Updated, Stored
  <1>3. CASE Transactions[id] # NoRow
    <2>1. Transactions' = [Transactions EXCEPT ![id] = row] /\ row \in Row
      BY <1>3 DEF Updated, Stored
    <2> QED
      BY <1>1, <1>3, <2>1, NoRowNotRow
  <1> QED
    BY <1>2, <1>3

\* A move of the transaction thread that keeps its search and its row.
LEMMA TrxMove ==
    ASSUME TypeOK, NEW pc \in {"send", "respond", "tap", "approved", "declined", "absent",
                               "flag", "reverse"},
           trx' = [trx EXCEPT !.pc = pc]
    PROVE  /\ trx' \in TrxLocals /\ trx'.pc = pc /\ trx'.id = trx.id /\ trx'.kind = trx.kind
           /\ trx'.bin = trx.bin /\ trx'.answer = trx.answer /\ trx'.next = trx.next
  BY DEF TypeOK, TrxLocals

LEMMA TrxReverse ==
    ASSUME TypeOK, NEW next \in {"tap", "over"},
           trx' = [trx EXCEPT !.pc = "reverse", !.next = next]
    PROVE  /\ trx' \in TrxLocals /\ trx'.pc = "reverse" /\ trx'.id = trx.id
           /\ trx'.kind = trx.kind /\ trx'.answer = trx.answer /\ trx'.next = next
           /\ trx'.bin = trx.bin
  BY DEF TypeOK, TrxLocals

\* The end of a round.
LEMMA TrxOver ==
    ASSUME trx' = Over
    PROVE  trx' \in TrxLocals /\ trx'.pc = "end" /\ trx'.id = NoId
  BY DEF TrxLocals, Over, Idle

\* A change of one thread's call.
LEMMA CallChange ==
    ASSUME TypeOK, NEW thread \in Threads, NEW local \in CallLocals,
           call' = [call EXCEPT ![thread] = local]
    PROVE  /\ call' \in [Threads -> CallLocals] /\ call'[thread] = local
           /\ \A other \in Threads \ {thread} : call'[other] = call[other]
  BY DEF TypeOK

LEMMA CallsTyped ==
    ASSUME NEW t \in Ids \cup {NoId}
    PROVE  /\ NoCall \in CallLocals /\ NoCall.pc = "none" /\ NoCall.id = NoId /\ NoCall.copy = NoId
           /\ Called(t) \in CallLocals /\ Called(t).pc = "read"
           /\ Called(t).id = t /\ Called(t).copy = NoId
  BY DEF NoCall, Called, CallLocals

LEMMA NoIdIsNone == NoId \notin Ids
  BY OnlineBounds DEF Ids, NoId

-----------------------------------------------------------------------------
(* The searches, and the transaction thread between two rows.              *)

\* A search, a stop, or a step of the transaction thread without a row.
SearchMove ==
    \/ \E ch \in Channels : SearchStep(ch)
    \/ StopSearch \/ Poll \/ CopyBin \/ CopyType \/ EndRound
    \/ \E code \in {"none", "00"} : EndWithoutRow(code)

SearchTypeOK ==
    /\ canRunTransaction \in BOOLEAN /\ searchMode \in {"single", "loop"}
    /\ trxType \in AllTypes \cup {"none"} /\ trxTypeBin \in {"00", "31", "online"}
    /\ handler \in [Channels -> HandlerLocals]
    /\ hasty \in Nat

Busy == {"mode", "inquiry", "loop", "type", "bin", "check", "run"}

\* A channel's thread goes on with its search, or is done with it.
LEMMA GoesTyped ==
    ASSUME TypeOK, NEW ch \in Channels, handler[ch].pc \in Busy, NEW pc \in Busy \cup {"free"},
           Goes(ch, pc)
    PROVE  /\ handler' \in [Channels -> HandlerLocals]
           /\ \A other \in Channels \ {ch} : handler'[other] = handler[other]
           /\ pc = "free" => handler'[ch] = Free
           /\ pc # "free" => /\ handler'[ch].pc = pc /\ handler'[ch].kind = handler[ch].kind
                             /\ handler'[ch].mode = handler[ch].mode
           /\ handler[ch].kind \in AllTypes /\ handler[ch].mode \in {"single", "loop"}
  <1> DEFINE local == IF pc = "free" THEN Free ELSE [handler[ch] EXCEPT !.pc = pc]
  <1>1. handler[ch] \in [pc : Busy, kind : AllTypes, mode : {"single", "loop"}]
    BY DEF TypeOK, HandlerLocals, Free, Busy
  <1>2. pc # "free" => /\ local \in [pc : Busy, kind : AllTypes, mode : {"single", "loop"}]
                       /\ local.pc = pc /\ local.kind = handler[ch].kind
                       /\ local.mode = handler[ch].mode
    BY <1>1
  <1>3. local \in HandlerLocals
    BY <1>2 DEF HandlerLocals, Busy
  <1>4. handler' = [handler EXCEPT ![ch] = local] /\ handler \in [Channels -> HandlerLocals]
    BY DEF Goes, TypeOK
  <1>5. handler' \in [Channels -> HandlerLocals] /\ handler'[ch] = local
        /\ \A other \in Channels \ {ch} : handler'[other] = handler[other]
    <2> HIDE DEF local
    <2> QED
      BY <1>3, <1>4
  <1> QED
    BY <1>1, <1>2, <1>5

\* A client's search writes the application's data and its own thread's place.
LEMMA SearchStepMoves ==
    ASSUME TypeOK, NEW ch \in Channels, SearchStep(ch)
    PROVE  /\ SearchTypeOK'
           /\ UNCHANGED <<Transactions, trx, call, clearing, leftover, outside, clears, crashes,
                          profile>>
  <1>1. profile.kinds \subseteq AllTypes /\ profile.modes \subseteq {"single", "loop"}
        /\ profile.hasty \in Nat
    BY ProfilesAssumption DEF TypeOK, Profile
  <1>2. CASE \E kind \in profile.kinds, mode \in profile.modes : SearchCard(ch, kind, mode)
    <2>1. PICK kind \in profile.kinds, mode \in profile.modes : SearchCard(ch, kind, mode)
      BY <1>2
    <2>2. [pc |-> "mode", kind |-> kind, mode |-> mode] \in HandlerLocals
      BY <1>1 DEF HandlerLocals
    <2>3. handler' \in [Channels -> HandlerLocals] /\ hasty' \in Nat
      BY <2>1, <2>2 DEF SearchCard, TypeOK
    <2> QED
      BY <2>1, <2>3 DEF SearchCard, SearchTypeOK, TypeOK
  <1>3. CASE SetMode(ch)
    <2>1. /\ handler' \in [Channels -> HandlerLocals] /\ searchMode' \in {"single", "loop"}
      <3>1. PICK pc \in Busy : Goes(ch, pc) /\ searchMode' = handler[ch].mode
                               /\ handler[ch].pc \in Busy
        BY <1>3 DEF SetMode, Busy
      <3> QED
        BY <3>1, GoesTyped
    <2> QED
      BY <1>3, <2>1 DEF SetMode, SearchTypeOK, TypeOK, bounds
  <1>4. CASE SetType(ch)
    <2>1. /\ handler' \in [Channels -> HandlerLocals] /\ trxType' \in AllTypes
      <3>1. PICK pc \in Busy : Goes(ch, pc) /\ trxType' = handler[ch].kind
                               /\ handler[ch].pc \in Busy
        BY <1>4 DEF SetType, Busy
      <3> QED
        BY <3>1, GoesTyped
    <2> QED
      BY <1>4, <2>1 DEF SetType, SearchTypeOK, TypeOK, bounds
  <1>5. CASE SetBin(ch)
    <2>1. /\ handler' \in [Channels -> HandlerLocals] /\ trxTypeBin' \in {"00", "31", "online"}
      <3>1. PICK pc \in Busy : Goes(ch, pc) /\ handler[ch].pc \in Busy
        BY <1>5 DEF SetBin, Busy
      <3> QED
        BY <1>5, <3>1, GoesTyped DEF SetBin, BinOf
    <2> QED
      BY <1>5, <2>1 DEF SetBin, SearchTypeOK, TypeOK, bounds
  <1>6. CASE CheckLoop(ch)
    <2>1. handler' \in [Channels -> HandlerLocals]
      <3>1. PICK pc \in Busy \cup {"free"} : Goes(ch, pc) /\ handler[ch].pc \in Busy
        BY <1>6 DEF CheckLoop, Busy
      <3> QED
        BY <3>1, GoesTyped
    <2> QED
      BY <1>6, <2>1 DEF CheckLoop, SearchTypeOK, TypeOK, appData, bounds
  <1>7. CASE CheckReversal(ch)
    <2>1. handler' \in [Channels -> HandlerLocals]
      <3>1. PICK pc \in Busy \cup {"free"} : Goes(ch, pc) /\ handler[ch].pc \in Busy
        BY <1>7 DEF CheckReversal, Busy
      <3> QED
        BY <3>1, GoesTyped
    <2> QED
      BY <1>7, <2>1 DEF CheckReversal, SearchTypeOK, TypeOK, appData, bounds
  <1>8. CASE RequestRound(ch)
    <2>1. handler' \in [Channels -> HandlerLocals]
      BY <1>8, GoesTyped DEF RequestRound, Busy
    <2> QED
      BY <1>8, <2>1 DEF RequestRound, SearchTypeOK, TypeOK, appData, bounds
  <1> QED
    BY <1>2, <1>3, <1>4, <1>5, <1>6, <1>7, <1>8 DEF SearchStep

\* None of these touches the table, and the thread stays between two rows.
LEMMA SearchMoves ==
    ASSUME TypeOK, RoundInv, SearchMove
    PROVE  /\ SearchTypeOK'
           /\ UNCHANGED <<Transactions, call, clearing, leftover, outside, clears, crashes, profile>>
           /\ \/ trx' = trx
              \/ /\ trx.id = NoId
                 /\ trx' \in TrxLocals /\ trx'.id = NoId /\ trx'.pc \in Between \cup {"flag"}
  <1> DEFINE Stays == /\ UNCHANGED <<Transactions, call, clearing, leftover, outside, bounds>>
                      /\ UNCHANGED <<appData, handler>> /\ canRunTransaction' \in BOOLEAN
             Moves == /\ trx.id = NoId
                      /\ trx' \in TrxLocals /\ trx'.id = NoId /\ trx'.pc \in Between \cup {"flag"}
  <1>1. Stays => SearchTypeOK' /\ UNCHANGED <<clears, crashes, profile>>
    BY DEF SearchTypeOK, TypeOK, appData, bounds
  <1>2. Idle \in TrxLocals /\ Idle.id = NoId /\ Idle.pc = "idle"
    BY DEF Idle, TrxLocals
  <1>3. CASE StopSearch
    BY <1>1, <1>3 DEF StopSearch
  <1>4. CASE Poll
    <2>1. trx' = [Idle EXCEPT !.pc = "begin"]
      BY <1>4 DEF Poll
    <2>2. Moves
      BY <1>4, <2>1 DEF Poll, RoundInv, Idle, TrxLocals, Between
    <2>3. Stays
      BY <1>4 DEF Poll, search, TypeOK
    <2> QED
      BY <1>1, <2>2, <2>3
  <1>5. CASE CopyBin
    <2>1. Moves
      BY <1>5 DEF CopyBin, RoundInv, TypeOK, TrxLocals, Between
    <2>2. Stays
      BY <1>5 DEF CopyBin, search, TypeOK
    <2> QED
      BY <1>1, <2>1, <2>2
  <1>6. CASE CopyType
    <2>1. Moves
      BY <1>6 DEF CopyType, RoundInv, TypeOK, TrxLocals, Between
    <2>2. Stays
      BY <1>6 DEF CopyType, search, TypeOK
    <2> QED
      BY <1>1, <2>1, <2>2
  <1>7. CASE EndRound
    <2>1. Moves
      BY <1>2, <1>7 DEF EndRound, RoundInv, Between
    <2>2. Stays
      BY <1>7 DEF EndRound, TypeOK
    <2> QED
      BY <1>1, <2>1, <2>2
  <1>8. CASE \E code \in {"none", "00"} : EndWithoutRow(code)
    <2>1. /\ trx.pc = "armed"
          /\ trx' = [trx EXCEPT !.pc = "flag", !.id = NoId] \/ trx' = Over
      BY <1>8 DEF EndWithoutRow
    <2>2. ASSUME trx' = [trx EXCEPT !.pc = "flag", !.id = NoId]
          PROVE  trx' \in TrxLocals /\ trx'.id = NoId /\ trx'.pc = "flag"
      BY <2>2 DEF TypeOK, TrxLocals
    <2>3. Moves
      BY <2>1, <2>2, TrxOver DEF RoundInv, Between
    <2>4. Stays
      BY <1>8 DEF EndWithoutRow, search, TypeOK
    <2> QED
      BY <1>1, <2>3, <2>4
  <1> HIDE DEF Stays, Moves
  <1> QED
    BY <1>3, <1>4, <1>5, <1>6, <1>7, <1>8, SearchStepMoves DEF SearchMove

LEMMA BetweenInv ==
    ASSUME Inv, SearchMove
    PROVE  Inv'
  <1> USE DEF Inv
  <1>1. /\ SearchTypeOK'
        /\ UNCHANGED <<Transactions, call, clearing, leftover, outside, clears, crashes, profile>>
    BY SearchMoves
  <1>2. TypeOK' /\ NoId \notin credited /\ NoId \notin booked
    <2>1. trx' \in TrxLocals
      BY SearchMoves DEF TypeOK
    <2> QED
      BY <1>1, <2>1, NoIdIsNone DEF TypeOK, SearchTypeOK, outside
  <1>3. \A t \in Ids : Untouched(t)' = Untouched(t)
    BY <1>1 DEF Untouched, outside
  <1>4. CASE trx' = trx
    <2>1. RoundInv' /\ (CardMayTake' <=> CardMayTake)
      BY <1>1, <1>4 DEF RoundInv, CardMayTake, outside
    <2>2. CardMayTake => trx.id \in Ids
      BY DEF CardMayTake, RoundInv, Between, TypeOK, TrxLocals
    <2>3. UntouchedInv' /\ StatusInv'
      BY <1>1, <1>3, <1>4, <2>1, <2>2 DEF UntouchedInv, StatusInv, ReadStatusInv, outside, TypeOK
    <2>4. OwedInv'
      BY <1>1, <1>4 DEF OwedInv, OwedIsFlagged, Owed, outside
    <2> QED
      BY <1>2, <2>1, <2>3, <2>4
  <1>5. CASE trx' # trx
    <2>1. trx.id = NoId /\ trx'.id = NoId /\ trx'.pc \in Between \cup {"flag"}
      BY <1>5, SearchMoves
    <2>2. RoundInv' /\ ~CardMayTake'
      BY <1>1, <1>2, <2>1 DEF RoundInv, Between, CardMayTake, outside
    <2>3. UntouchedInv' /\ StatusInv'
      BY <1>1, <1>3, <2>2 DEF UntouchedInv, StatusInv, ReadStatusInv, outside, TypeOK
    <2>4. OwedInv'
      BY <1>1, <1>2, <2>1 DEF OwedInv, OwedIsFlagged, Owed, Between, outside
    <2> QED
      BY <1>2, <2>2, <2>3, <2>4
  <1> QED
    BY <1>4, <1>5

\* A row is stored: nobody has touched one with its number.
LEMMA InsertRowInv ==
    ASSUME Inv, NEW t \in Ids, InsertRow(t)
    PROVE  /\ Inv'
           /\ \A r \in Ids : Transactions[r] # NoRow => Transactions'[r] = Transactions[r]
  <1> USE DEF Inv
  <1> DEFINE new == [kind |-> trx.kind, txn |-> "Pending", host |-> "Pending", code |-> "none",
                     reversal |-> "none", cleared |-> FALSE]
  <1>1. /\ UNCHANGED <<search, call, clearing, leftover, outside, bounds>>
        /\ Transactions[t] = NoRow /\ trx.pc = "armed" /\ trx.id = NoId
        /\ Transactions' = [Transactions EXCEPT ![t] = new] /\ trx.kind \in AllKinds
        /\ trx' = [trx EXCEPT !.pc = "send", !.id = t]
    BY DEF InsertRow, Stored, RoundInv, Between
  <1>2. /\ trx' \in TrxLocals /\ trx'.pc = "send" /\ trx'.id = t /\ trx'.kind = trx.kind
    BY <1>1 DEF TypeOK, TrxLocals
  <1>3. /\ new \in Row /\ new.txn = "Pending" /\ new.reversal = "none"
        /\ new.kind = trx.kind
    BY <1>1 DEF Row
  <1>4. /\ Transactions' \in [Ids -> Row \cup {NoRow}] /\ Transactions'[t] = new
        /\ \A r \in Ids \ {t} : Transactions'[r] = Transactions[r]
        /\ t # NoId
    BY <1>1, <1>3, NoIdIsNone DEF TypeOK
  <1> HIDE DEF new
  <1>5. Transactions'[t] # NoRow
    BY <1>3, <1>4, NoRowNotRow
  <1>6. \A r \in Ids : Untouched(r) => Untouched(r)'
    BY <1>1, <1>3, <1>4 DEF Untouched, outside
  <1>7. Untouched(t)' /\ t \notin booked' /\ t \notin credited'
    BY <1>1, <1>6 DEF UntouchedInv, outside
  <1>8. TypeOK'
    BY <1>1, <1>2, <1>4 DEF TypeOK, search, appData, outside, bounds
  <1>9. RoundInv'
    <2>1. trx'.kind \in AllKinds /\ Transactions'[trx'.id].kind = trx'.kind
      BY <1>1, <1>2, <1>3, <1>4
    <2> QED
      BY <1>2, <1>4, <1>5, <1>7, <2>1 DEF RoundInv, Between
  <1>10. UntouchedInv'
    BY <1>1, <1>2, <1>4, <1>5, <1>6, <1>7 DEF UntouchedInv, outside, TypeOK
  <1>11. StatusInv'
    <2>1. ASSUME NEW thread \in Threads, call[thread].pc \in {"send", "write"}, call[thread].id # NoId
          PROVE  call[thread].id \in Ids \ {t}
      BY <1>1, <1>7, <2>1 DEF UntouchedInv, Untouched, TypeOK, CallLocals
    <2> QED
      BY <1>1, <1>2, <1>3, <1>4, <1>7, <2>1 DEF StatusInv, ReadStatusInv, CardMayTake, outside
  <1>12. OwedInv'
    BY <1>1, <1>2, <1>4, <1>7, NoIdIsNone
       DEF OwedInv, OwedIsFlagged, Owed, outside, TypeOK
  <1> QED
    BY <1>1, <1>4, <1>8, <1>9, <1>10, <1>11, <1>12

-----------------------------------------------------------------------------
(* The transaction thread, with a row.                                     *)

\* The host is asked, or the card takes the answer or does not: the row stays.
LEMMA AnswerInv ==
    ASSUME Inv,
           \/ \E answer \in Answers, books \in BOOLEAN : AskHost(answer, books)
           \/ CardTakes \/ CardDeclines
    PROVE  Inv'
  <1> USE DEF Inv
  <1>1. /\ UNCHANGED <<Transactions, search, call, clearing, leftover, undone, bounds>>
        /\ trx.id \in Ids /\ Transactions[trx.id] # NoRow /\ trx.pc \in {"send", "tap"}
    BY DEF AskHost, CardTakes, CardDeclines, RoundInv, Between, outside, TypeOK, TrxLocals
  <1>2. \A t \in Ids : Untouched(t)' = Untouched(t)
    BY <1>1 DEF Untouched
  <1>3. ASSUME NEW answer \in Answers, NEW books \in BOOLEAN, AskHost(answer, books)
        PROVE  Inv'
    <2>1. /\ trx' \in TrxLocals /\ trx'.pc = "respond" /\ trx'.id = trx.id
          /\ trx'.kind = trx.kind /\ trx'.answer = answer /\ trx.pc = "send"
          /\ trx'.bin = trx.bin
      BY <1>3 DEF AskHost, TypeOK, TrxLocals
    <2>2. /\ booked \subseteq booked' /\ booked' \subseteq booked \cup {trx.id}
          /\ derailed \subseteq derailed' /\ derailed' \subseteq derailed \cup {trx.id}
          /\ trx.id \in booked' \ derailed' => answer \in {"00", "lost"} /\ trx.bin # "00"
          /\ credited' = credited
      <3>1. trx.id \notin booked
        BY <2>1 DEF OwedInv
      <3>2. books => answer # "05"
        BY <1>3 DEF AskHost, MayBook
      <3> QED
        BY <1>3, <3>1, <3>2 DEF AskHost, Answers
    <2>3. TypeOK'
      BY <1>1, <2>1, <2>2 DEF TypeOK, search, appData, bounds
    <2>4. RoundInv' /\ CardMayTake /\ ~(trx.id \in credited)
      BY <1>1, <2>1, <2>2 DEF RoundInv, Between, CardMayTake
    <2>5. UntouchedInv'
      BY <1>1, <1>2, <2>1, <2>2, <2>4 DEF UntouchedInv, TypeOK
    <2>6. StatusInv'
      BY <1>1, <2>1, <2>2, <2>4 DEF StatusInv, ReadStatusInv
    <2>7. OwedInv'
      BY <1>1, <2>1, <2>2 DEF OwedInv, OwedIsFlagged, Owed, TypeOK
    <2> QED
      BY <2>3, <2>4, <2>5, <2>6, <2>7
  <1>4. CASE CardTakes
    <2>1. /\ trx' \in TrxLocals /\ trx'.pc = "approved" /\ trx'.id = trx.id
          /\ trx'.kind = trx.kind /\ trx'.bin = trx.bin
      BY <1>4, TrxMove DEF CardTakes
    <2>2. credited' = credited \cup {trx.id} /\ UNCHANGED <<booked, derailed>> /\ CardMayTake
      BY <1>4 DEF CardTakes, CardMayTake
    <2>3. TypeOK'
      BY <1>1, <2>1, <2>2 DEF TypeOK, search, appData, bounds
    <2>4. RoundInv'
      BY <1>1, <2>1, <2>2 DEF RoundInv, Between
    <2>5. UntouchedInv'
      BY <1>1, <1>2, <2>1, <2>2 DEF UntouchedInv, TypeOK
    <2>6. StatusInv'
      BY <1>1, <2>1, <2>2 DEF StatusInv, ReadStatusInv
    <2>7. OwedInv'
      BY <1>1, <2>1, <2>2 DEF OwedInv, OwedIsFlagged, Owed, TypeOK
    <2> QED
      BY <2>3, <2>4, <2>5, <2>6, <2>7
  <1>5. CASE CardDeclines
    <2>1. /\ trx' \in TrxLocals /\ trx'.pc = "declined" /\ trx'.id = trx.id
          /\ trx'.kind = trx.kind /\ trx'.bin = trx.bin /\ UNCHANGED outside /\ trx.pc = "tap"
      BY <1>5, TrxMove DEF CardDeclines
    <2>2. TypeOK' /\ RoundInv' /\ ~CardMayTake'
      BY <1>1, <2>1 DEF TypeOK, search, appData, bounds, outside, RoundInv, Between, CardMayTake
    <2>3. UntouchedInv' /\ StatusInv'
      BY <1>1, <1>2, <2>1, <2>2 DEF UntouchedInv, StatusInv, ReadStatusInv, outside, TypeOK
    <2>4. OwedInv'
      BY <1>1, <2>1 DEF OwedInv, OwedIsFlagged, Owed, outside
    <2> QED
      BY <2>2, <2>3, <2>4
  <1> QED
    BY <1>3, <1>4, <1>5

\* No status is taken back.
TxnKept ==
    \A t \in Ids : Transactions[t].txn \in {"Success", "Failure"}
                      => Transactions'[t].txn = Transactions[t].txn

\* A step of the transaction thread on its row, which stays in place.
RoundRowStep(row) ==
    /\ Transactions' = Updated(trx.id, row) /\ row \in Row
    /\ row.kind = Transactions[trx.id].kind
    /\ UNCHANGED <<search, clearing, leftover, outside, bounds>>

LEMMA RoundRowMoves ==
    ASSUME Inv, trx.id # NoId, NEW row, RoundRowStep(row)
    PROVE  /\ trx.id \in Ids /\ Transactions[trx.id] \in Row /\ Transactions'[trx.id] = row
           /\ Transactions' \in [Ids -> Row \cup {NoRow}]
           /\ \A t \in Ids \ {trx.id} : Transactions'[t] = Transactions[t]
           /\ \A t \in Ids : Transactions'[t] = NoRow <=> Transactions[t] = NoRow
           /\ Owed' = Owed
  <1> USE DEF Inv, RoundRowStep
  <1>1. trx.id \in Ids /\ Transactions[trx.id] # NoRow /\ Transactions[trx.id] \in Row
    BY DEF RoundInv, TypeOK, TrxLocals
  <1>2. /\ Transactions' \in [Ids -> Row \cup {NoRow}]
        /\ \A t \in Ids \ {trx.id} : Transactions'[t] = Transactions[t]
        /\ Transactions'[trx.id] = row
        /\ \A t \in Ids : Transactions'[t] = NoRow <=> Transactions[t] = NoRow
    BY <1>1, RowChange
  <1>3. \A t \in booked : t \in Ids /\ Transactions'[t].kind = Transactions[t].kind
    BY <1>1, <1>2 DEF TypeOK
  <1>4. Owed' = Owed
    BY <1>3 DEF Owed, outside
  <1> QED
    BY <1>1, <1>2, <1>4

\* What is untouched stays so, but for the thread's own row.
LEMMA OthersUntouched ==
    ASSUME Inv, NEW id \in Ids \cup {NoId}, NEW t \in Ids \ {id}, Untouched(t),
           Transactions'[t] = Transactions[t],
           call' = call \/ call' = [call EXCEPT !["transaction"] = Called(id)],
           UNCHANGED <<clearing, leftover, outside>>
    PROVE  Untouched(t)'
  <1>1. CASE call' = call
    BY <1>1 DEF Untouched, outside
  <1>2. CASE call' = [call EXCEPT !["transaction"] = Called(id)]
    <2>1. /\ call'["transaction"].id = id /\ call'["transaction"].copy = NoId
          /\ \A thread \in Threads \ {"transaction"} : call'[thread] = call[thread]
      BY <1>2, CallsTyped, CallChange DEF Inv, Threads
    <2>2. \A thread \in Threads : call'[thread].id # t /\ call'[thread].copy # t
      BY <2>1, NoIdIsNone DEF Untouched
    <2> QED
      BY <2>2 DEF Untouched, outside
  <1> QED
    BY <1>1, <1>2

\* The answer is stored.
LEMMA StoreAnswerInv ==
    ASSUME Inv, StoreAnswer
    PROVE  Inv' /\ TxnKept
  <1> USE DEF Inv
  <1> DEFINE row == Answered(Transactions[trx.id], trx.answer)
  <1>1. trx.pc = "respond" /\ trx.id # NoId /\ trx.id \in Ids /\ CardMayTake
        /\ Untouched(trx.id) /\ Transactions[trx.id] \in Row
        /\ Transactions[trx.id].reversal = "none" /\ trx.id \notin credited
    BY DEF StoreAnswer, RoundInv, Between, CardMayTake, UntouchedInv, Untouched, TypeOK, TrxLocals
  <1>2. /\ row \in Row /\ row.kind = Transactions[trx.id].kind
        /\ row.txn = Transactions[trx.id].txn
        /\ trx.answer \in {"00", "05"} => row.code = trx.answer
        /\ trx.answer # "lost" => row.reversal = "none"
        /\ trx.answer = "lost" /\ row.kind # "service_create" => row.reversal = "Pending"
    BY <1>1 DEF Answered, Row, NeedsReversal
  <1>3. RoundRowStep(row)
    BY <1>2 DEF StoreAnswer, RoundRowStep
  <1> HIDE DEF row
  <1>4. /\ Transactions' \in [Ids -> Row \cup {NoRow}] /\ Transactions'[trx.id] = row
        /\ \A t \in Ids \ {trx.id} : Transactions'[t] = Transactions[t]
        /\ \A t \in Ids : Transactions'[t] = NoRow <=> Transactions[t] = NoRow
        /\ Owed' = Owed /\ UNCHANGED <<search, clearing, leftover, outside, bounds>>
    BY <1>1, <1>3, RoundRowMoves DEF RoundRowStep
  <1>5. /\ trx' \in TrxLocals /\ trx'.id = trx.id /\ trx'.kind = trx.kind
        /\ trx'.answer = trx.answer /\ trx'.bin = trx.bin
        /\ \/ trx'.pc = "tap" /\ call' = call
           \/ /\ trx'.pc = "reverse" /\ trx'.next = "tap" /\ trx.answer = "lost"
              /\ row.reversal = "Pending"
              /\ call' = [call EXCEPT !["transaction"] = Called(trx.id)]
    <2>1. CASE trx.kind = "money_add" /\ NeedsReversal(trx.kind, trx.answer)
      <3>1. row.reversal = "Pending" /\ trx.answer = "lost"
        BY <1>1, <1>2, <2>1 DEF NeedsReversal, RoundInv
      <3>2. /\ trx' = [trx EXCEPT !.pc = "reverse", !.next = "tap"]
            /\ call' = [call EXCEPT !["transaction"] = Called(trx.id)]
        BY <2>1 DEF StoreAnswer
      <3> QED
        BY <3>1, <3>2, TrxReverse
    <2>2. CASE ~(trx.kind = "money_add" /\ NeedsReversal(trx.kind, trx.answer))
      <3>1. trx' = [trx EXCEPT !.pc = "tap"] /\ call' = call
        BY <2>2 DEF StoreAnswer
      <3> QED
        BY <3>1, TrxMove
    <2> QED
      BY <2>1, <2>2
  <1>6. TypeOK'
    <2>1. call' \in [Threads -> CallLocals]
      BY <1>1, <1>5, CallChange, CallsTyped DEF TypeOK, Threads
    <2> QED
      BY <1>4, <1>5, <2>1 DEF TypeOK, search, appData, outside, bounds
  <1>7. TxnKept
    BY <1>2, <1>4 DEF TxnKept
  <1>8. RoundInv'
    BY <1>1, <1>2, <1>4, <1>5 DEF RoundInv, Between, outside
  <1>9. CardMayTake' => call' = call /\ row.reversal = "none"
    BY <1>2, <1>5 DEF CardMayTake
  <1>10. UntouchedInv'
    <2>1. \A t \in Ids \ {trx.id} : Untouched(t) => Untouched(t)'
      BY <1>1, <1>4, <1>5, OthersUntouched
    <2>2. CardMayTake' => Untouched(trx.id)'
      BY <1>1, <1>4, <1>5, <1>9 DEF Untouched, outside
    <2>3. \A t \in Ids : Transactions'[t] = NoRow => t # trx.id
      BY <1>1, <1>4, NoRowNotRow
    <2> QED
      BY <1>1, <1>4, <1>5, <2>1, <2>2, <2>3 DEF UntouchedInv, outside, TypeOK
  <1>11. StatusInv'
    <2>1. \A t \in Ids : Transactions'[t].txn = Transactions[t].txn
      BY <1>2, <1>4
    <2>2. \A thread \in Threads : call'[thread].pc \in {"send", "write"} => call'[thread] = call[thread]
      BY <1>1, <1>5, CallChange, CallsTyped DEF Threads
    <2>3. \A thread \in Threads : call[thread].id # NoId => call[thread].id \in Ids
      BY DEF TypeOK, CallLocals
    <2> QED
      BY <1>1, <1>4, <1>5, <2>1, <2>2, <2>3 DEF StatusInv, ReadStatusInv, outside, CardMayTake
  <1>12. OwedInv'
    <2>1. trx.id \in Owed => row.code = "00" \/ row.reversal # "none"
      BY <1>1, <1>2, <1>4 DEF OwedInv, Owed
    <2> QED
      BY <1>1, <1>4, <1>5, <2>1 DEF OwedInv, OwedIsFlagged, outside, Owed, TypeOK
  <1> QED
    BY <1>6, <1>7, <1>8, <1>10, <1>11, <1>12

\* The second tap does not come: the row is flagged.
LEMMA SecondTapNotPresentedInv ==
    ASSUME Inv, SecondTapNotPresented
    PROVE  Inv' /\ TxnKept
  <1> USE DEF Inv
  <1> DEFINE row == [Transactions[trx.id] EXCEPT !.reversal = "Pending"]
  <1>1. trx.pc = "tap" /\ trx.id # NoId /\ trx.id \in Ids /\ Transactions[trx.id] \in Row
        /\ trx.id \notin credited /\ Transactions[trx.id] # NoRow
    BY DEF SecondTapNotPresented, RoundInv, Between, TypeOK, TrxLocals
  <1>2. /\ row \in Row /\ row.kind = Transactions[trx.id].kind
        /\ row.txn = Transactions[trx.id].txn /\ row.reversal = "Pending"
    BY <1>1 DEF Row
  <1>3. RoundRowStep(row) /\ call' = call
    BY <1>2 DEF SecondTapNotPresented, RoundRowStep
  <1> HIDE DEF row
  <1>4. /\ Transactions' \in [Ids -> Row \cup {NoRow}] /\ Transactions'[trx.id] = row
        /\ \A t \in Ids \ {trx.id} : Transactions'[t] = Transactions[t]
        /\ \A t \in Ids : Transactions'[t] = NoRow <=> Transactions[t] = NoRow
        /\ Owed' = Owed /\ UNCHANGED <<search, clearing, leftover, outside, bounds>>
    BY <1>1, <1>3, RoundRowMoves DEF RoundRowStep
  <1>5. /\ trx' \in TrxLocals /\ trx'.id = trx.id /\ trx'.kind = trx.kind /\ trx'.pc = "absent"
        /\ trx'.bin = trx.bin
    BY TrxMove DEF SecondTapNotPresented
  <1>6. TypeOK'
    BY <1>3, <1>4, <1>5 DEF TypeOK, search, appData, outside, bounds
  <1>7. RoundInv' /\ TxnKept /\ ~CardMayTake'
    BY <1>1, <1>2, <1>4, <1>5 DEF RoundInv, Between, TxnKept, CardMayTake, outside
  <1>8. UntouchedInv'
    <2>1. \A t \in Ids \ {trx.id} : Untouched(t) => Untouched(t)'
      BY <1>1, <1>3, <1>4, OthersUntouched
    <2> QED
      BY <1>1, <1>4, <1>7, <2>1 DEF UntouchedInv, outside, TypeOK
  <1>9. StatusInv'
    <2>1. \A t \in Ids : Transactions'[t].txn = Transactions[t].txn
      BY <1>2, <1>4
    <2>2. \A thread \in Threads : call[thread].id # NoId => call[thread].id \in Ids
      BY DEF TypeOK, CallLocals
    <2> QED
      BY <1>3, <1>4, <1>7, <2>1, <2>2 DEF StatusInv, ReadStatusInv, outside
  <1>10. OwedInv'
    BY <1>1, <1>2, <1>4, <1>5 DEF OwedInv, OwedIsFlagged, Owed, TypeOK, outside
  <1> QED
    BY <1>6, <1>7, <1>8, <1>9, <1>10

\* The status WriteTxnStatus leaves the row with: its own, if the round has another
\* binary type than the online ones.
StatusLeft ==
    IF trx.pc # "absent" /\ trx.bin # "online" THEN Transactions[trx.id].txn
    ELSE IF trx.pc = "approved" THEN "Success" ELSE "Failure"

LEMMA WriteTxnStatusMoves ==
    ASSUME Inv, WriteTxnStatus
    PROVE  LET row == [Transactions[trx.id] EXCEPT !.txn = StatusLeft]
           IN  /\ trx.pc \in {"approved", "declined", "absent"} /\ trx.id # NoId /\ trx.id \in Ids
               /\ Transactions[trx.id] \in Row /\ Transactions[trx.id] # NoRow
               /\ trx.id \in credited <=> trx.pc = "approved"
               /\ Transactions' = Updated(trx.id, row)
               /\ row \in Row /\ row.kind = Transactions[trx.id].kind /\ row.txn = StatusLeft
               /\ row.reversal = Transactions[trx.id].reversal
               /\ row.host = Transactions[trx.id].host
               /\ UNCHANGED <<search, call, clearing, leftover, outside, bounds>>
  <1> USE DEF Inv
  <1> DEFINE old == Transactions[trx.id]
             row == [old EXCEPT !.txn = StatusLeft]
  <1>1. /\ trx.pc \in {"approved", "declined", "absent"} /\ trx.id # NoId /\ trx.id \in Ids
        /\ old \in Row /\ old # NoRow
        /\ trx.id \in credited <=> trx.pc = "approved"
    BY DEF WriteTxnStatus, RoundInv, Between, TypeOK, TrxLocals
  <1>2. StatusLeft \in {"Pending", "Success", "Failure"}
    BY <1>1 DEF StatusLeft, Row
  <1>3. /\ row \in Row /\ row.kind = old.kind /\ row.txn = StatusLeft
        /\ row.reversal = old.reversal /\ row.host = old.host
    BY <1>1, <1>2 DEF Row
  <1>4. Transactions' = Updated(trx.id, row)
    <2>1. CASE trx.pc # "absent" /\ trx.bin # "online"
      <3>1. StatusLeft = old.txn
        BY <2>1 DEF StatusLeft
      <3>2. row = old
        BY <1>1, <3>1 DEF Row
      <3>3. Transactions' = Transactions
        BY <2>1 DEF WriteTxnStatus
      <3>4. [Transactions EXCEPT ![trx.id] = Transactions[trx.id]] = Transactions
        BY <1>1 DEF TypeOK
      <3> QED
        BY <3>2, <3>3, <3>4 DEF Updated
    <2>2. CASE ~(trx.pc # "absent" /\ trx.bin # "online")
      BY <2>2 DEF WriteTxnStatus, StatusLeft
    <2> QED
      BY <2>1, <2>2
  <1> QED
    BY <1>1, <1>3, <1>4 DEF WriteTxnStatus

\* The transaction's status is written; what is owed is kept for the flag.
LEMMA WriteTxnStatusInv ==
    ASSUME Inv, WriteTxnStatus
    PROVE  Inv' /\ TxnKept
  <1> USE DEF Inv
  <1> DEFINE row == [Transactions[trx.id] EXCEPT !.txn = StatusLeft]
  <1>1. /\ trx.pc \in {"approved", "declined", "absent"} /\ trx.id # NoId /\ trx.id \in Ids
        /\ Transactions[trx.id] \in Row /\ Transactions[trx.id] # NoRow
        /\ trx.id \in credited <=> trx.pc = "approved"
    BY WriteTxnStatusMoves
  <1>2. /\ row \in Row /\ row.kind = Transactions[trx.id].kind /\ row.txn = StatusLeft
        /\ row.reversal = Transactions[trx.id].reversal
    BY WriteTxnStatusMoves
  <1>3. RoundRowStep(row) /\ call' = call
    BY WriteTxnStatusMoves DEF RoundRowStep
  <1> HIDE DEF row
  <1>4. /\ Transactions' \in [Ids -> Row \cup {NoRow}] /\ Transactions'[trx.id] = row
        /\ \A t \in Ids \ {trx.id} : Transactions'[t] = Transactions[t]
        /\ \A t \in Ids : Transactions'[t] = NoRow <=> Transactions[t] = NoRow
        /\ Owed' = Owed /\ UNCHANGED <<search, clearing, leftover, outside, bounds>>
    BY <1>1, <1>3, RoundRowMoves DEF RoundRowStep
  <1>5. \/ /\ trx' \in TrxLocals /\ trx'.pc = "flag" /\ trx'.id = trx.id /\ trx'.kind = trx.kind
           /\ trx.pc # "approved" /\ trx'.bin = trx.bin
        \/ /\ trx' \in TrxLocals /\ trx'.pc = "end" /\ trx'.id = NoId
           /\ trx.pc = "declined" => Transactions[trx.id].code # "00" \/ trx.bin = "00"
    <2>1. CASE Reverses(trx.pc, Transactions[trx.id], trx.bin)
      <3>1. trx' = [trx EXCEPT !.pc = "flag"]
        BY <2>1 DEF WriteTxnStatus
      <3> QED
        BY <2>1, <3>1, TrxMove DEF Reverses
    <2>2. CASE ~Reverses(trx.pc, Transactions[trx.id], trx.bin)
      <3>1. trx' = Over
        BY <2>2 DEF WriteTxnStatus
      <3> QED
        BY <2>2, <3>1, TrxOver DEF Reverses
    <2> QED
      BY <2>1, <2>2
  <1>6. TypeOK'
    <2>1. trx' \in TrxLocals
      BY <1>5
    <2> QED
      BY <1>3, <1>4, <2>1 DEF TypeOK, search, appData, outside, bounds
  <1>7. \/ StatusLeft = Transactions[trx.id].txn
        \/ StatusLeft = "Success" /\ trx.pc = "approved"
        \/ StatusLeft = "Failure" /\ trx.pc # "approved"
    BY DEF StatusLeft
  <1>8. TxnKept
    <2>1. trx.pc = "approved" => Transactions[trx.id].txn = "Pending"
      BY DEF StatusInv, ReadStatusInv, CardMayTake
    <2>2. trx.pc # "approved" => Transactions[trx.id].txn # "Success"
      BY <1>1 DEF StatusInv, ReadStatusInv
    <2> QED
      BY <1>2, <1>4, <1>7, <2>1, <2>2 DEF TxnKept
  <1>9. RoundInv' /\ ~CardMayTake'
    <2>1. NoId \notin credited
      BY NoIdIsNone DEF TypeOK
    <2>2. CASE trx'.pc = "flag"
      <3>1. trx'.id = trx.id /\ trx'.kind = trx.kind /\ trx.pc # "approved"
        BY <1>5, <2>2
      <3> QED
        BY <1>1, <1>2, <1>4, <2>2, <3>1 DEF RoundInv, Between, CardMayTake, outside
    <2>3. CASE trx'.pc # "flag"
      <3>1. trx'.pc = "end" /\ trx'.id = NoId
        BY <1>5, <2>3
      <3> QED
        BY <1>1, <1>4, <2>1, <3>1 DEF RoundInv, Between, CardMayTake, outside
    <2> QED
      BY <2>2, <2>3
  <1>10. \A t \in Ids : Untouched(t)' = Untouched(t)
    BY <1>2, <1>3, <1>4 DEF Untouched, outside
  <1>11. UntouchedInv'
    BY <1>4, <1>9, <1>10 DEF UntouchedInv, outside, TypeOK
  <1>12. StatusInv'
    <2>1. \A t \in Ids : Transactions'[t].txn = "Success" => t \in credited
      BY <1>1, <1>2, <1>4, <1>7 DEF StatusInv, ReadStatusInv
    <2>2. ASSUME NEW thread \in Threads, call[thread].id # NoId, call[thread].id = trx.id
          PROVE  row.txn \in {Transactions[trx.id].txn, "Failure"}
      BY <1>1, <1>2, <1>7, <2>2 DEF UntouchedInv, Untouched
    <2>3. \A thread \in Threads : call[thread].id # NoId => call[thread].id \in Ids
      BY DEF TypeOK, CallLocals
    <2> QED
      BY <1>3, <1>4, <1>9, <2>1, <2>2, <2>3 DEF StatusInv, ReadStatusInv, outside
  <1>13. OwedInv'
    <2>1. ASSUME trx'.id # trx.id, trx.id \in Owed
          PROVE  Transactions[trx.id].reversal # "none"
      <3>1. trx.bin # "00"
        BY <2>1 DEF OwedInv, Owed
      <3> QED
        BY <1>1, <1>5, <2>1, <3>1 DEF OwedInv, Owed
    <2>2. OwedIsFlagged'
      BY <1>1, <1>2, <1>4, <2>1, NoIdIsNone DEF OwedInv, OwedIsFlagged, Owed, TypeOK
    <2>3. NoId \notin booked
      BY NoIdIsNone DEF TypeOK
    <2> QED
      BY <1>4, <1>5, <2>2, <2>3 DEF OwedInv, outside
  <1> QED
    BY <1>6, <1>8, <1>9, <1>11, <1>12, <1>13

\* The row, if there is one, is flagged, and performReversal is called.
LEMMA FlagReversalInv ==
    ASSUME Inv, FlagReversal
    PROVE  Inv' /\ TxnKept
  <1> USE DEF Inv
  <1>1. /\ trx.pc = "flag"
        /\ trx.id # NoId => /\ trx.id \in Ids /\ Transactions[trx.id] \in Row
                            /\ Transactions[trx.id] # NoRow /\ trx.id \notin credited
        /\ trx.id \in Ids \cup {NoId}
    BY DEF FlagReversal, RoundInv, TypeOK, TrxLocals
  <1>2. /\ trx' \in TrxLocals /\ trx'.id = trx.id /\ trx'.kind = trx.kind
        /\ trx'.pc = "reverse" /\ trx'.next = "over" /\ trx'.bin = trx.bin
    <2>1. trx' = [trx EXCEPT !.pc = "reverse", !.next = "over"]
      BY DEF FlagReversal
    <2> QED
      BY <2>1, TrxReverse
  <1>3. /\ Transactions' \in [Ids -> Row \cup {NoRow}]
        /\ \A t \in Ids \ {trx.id} : Transactions'[t] = Transactions[t]
        /\ \A t \in Ids : Transactions'[t] = NoRow <=> Transactions[t] = NoRow
        /\ \A t \in Ids : Transactions'[t].txn = Transactions[t].txn
        /\ trx.id # NoId => /\ Transactions'[trx.id].reversal = "Pending"
                            /\ Transactions'[trx.id].kind = Transactions[trx.id].kind
        /\ Owed' = Owed
    <2>1. CASE trx.id = NoId
      <3>1. Transactions' = Transactions /\ UNCHANGED outside
        BY <2>1 DEF FlagReversal
      <3> QED
        BY <2>1, <3>1 DEF TypeOK, Owed, outside
    <2>2. CASE trx.id # NoId
      <3> DEFINE row == [Transactions[trx.id] EXCEPT !.reversal = "Pending"]
      <3>1. /\ row \in Row /\ row.kind = Transactions[trx.id].kind
            /\ row.txn = Transactions[trx.id].txn /\ row.reversal = "Pending"
        BY <1>1, <2>2 DEF Row
      <3>2. RoundRowStep(row)
        BY <2>2, <3>1 DEF FlagReversal, RoundRowStep
      <3> HIDE DEF row
      <3>3. /\ Transactions'[trx.id] = row /\ Transactions' \in [Ids -> Row \cup {NoRow}]
            /\ \A t \in Ids \ {trx.id} : Transactions'[t] = Transactions[t]
            /\ \A t \in Ids : Transactions'[t] = NoRow <=> Transactions[t] = NoRow
            /\ Owed' = Owed
        BY <2>2, <3>1, <3>2, RoundRowMoves
      <3> QED
        BY <1>1, <3>1, <3>3
    <2> QED
      BY <2>1, <2>2
  <1>4. /\ UNCHANGED <<search, clearing, leftover, outside, bounds>>
        /\ call' = [call EXCEPT !["transaction"] = Called(trx.id)]
    BY DEF FlagReversal
  <1>5. /\ call' \in [Threads -> CallLocals]
        /\ \A thread \in Threads : call'[thread].pc \in {"send", "write"} => call'[thread] = call[thread]
    BY <1>1, <1>4, CallChange, CallsTyped DEF Threads
  <1>6. TypeOK'
    BY <1>2, <1>3, <1>4, <1>5 DEF TypeOK, search, appData, outside, bounds
  <1>7. RoundInv' /\ TxnKept /\ ~CardMayTake'
    <2>1. trx.id \notin credited
      BY <1>1, NoIdIsNone DEF TypeOK
    <2>2. trx.id # NoId => Transactions'[trx.id] # NoRow
      BY <1>1, <1>3
    <2>3. trx.id # NoId => Transactions'[trx.id].kind = trx.kind
      BY <1>3 DEF RoundInv
    <2> QED
      <3>1. TxnKept /\ ~CardMayTake'
        BY <1>2, <1>3 DEF TxnKept, CardMayTake
      <3>2. credited' = credited
        BY <1>4 DEF outside
      <3>3. RoundInv'
        BY <1>1, <1>2, <2>1, <2>2, <2>3, <3>2 DEF RoundInv, Between
      <3> QED
        BY <3>1, <3>3
  <1>8. UntouchedInv'
    <2>1. \A t \in Ids \ {trx.id} : Untouched(t) => Untouched(t)'
      BY <1>1, <1>3, <1>4, OthersUntouched
    <2> QED
      BY <1>1, <1>3, <1>4, <1>7, <2>1, NoIdIsNone DEF UntouchedInv, outside, TypeOK
  <1>9. StatusInv'
    <2>1. \A thread \in Threads : call[thread].id # NoId => call[thread].id \in Ids
      BY DEF TypeOK, CallLocals
    <2> QED
      BY <1>3, <1>4, <1>5, <1>7, <2>1 DEF StatusInv, ReadStatusInv, outside
  <1>10. OwedInv'
    <2>1. OwedIsFlagged'
      BY <1>2, <1>3 DEF OwedInv, OwedIsFlagged, Owed, TypeOK
    <2> QED
      BY <1>2, <1>3, <1>4, <2>1 DEF OwedInv, outside
  <1> QED
    BY <1>6, <1>7, <1>8, <1>9, <1>10

\* performReversal has returned: the second tap follows, or the round is over.
LEMMA ReversalReturnsInv ==
    ASSUME Inv, ReversalReturns
    PROVE  Inv'
  <1> USE DEF Inv
  <1>1. /\ UNCHANGED <<Transactions, search, call, clearing, leftover, outside, bounds>>
        /\ trx.pc = "reverse" /\ trx.id \notin credited
        /\ trx.id # NoId => Transactions[trx.id].reversal # "none"
    BY DEF ReversalReturns, RoundInv, OwedInv
  <1>2. \/ /\ trx' \in TrxLocals /\ trx'.pc = "tap" /\ trx'.id = trx.id /\ trx'.kind = trx.kind
           /\ trx'.answer = "lost" /\ trx.id # NoId /\ trx'.bin = trx.bin
        \/ trx' \in TrxLocals /\ trx'.pc = "end" /\ trx'.id = NoId
    <2>1. CASE trx.next = "over"
      <3>1. trx' = Over
        BY <2>1 DEF ReversalReturns
      <3> QED
        BY <3>1, TrxOver
    <2>2. CASE trx.next # "over"
      <3>1. trx.next = "tap" /\ trx.answer = "lost" /\ trx.id # NoId
        BY <1>1, <2>2 DEF RoundInv
      <3>2. trx' = [trx EXCEPT !.pc = "tap"]
        BY <2>2, <3>1 DEF ReversalReturns
      <3> QED
        BY <3>1, <3>2, TrxMove
    <2> QED
      BY <2>1, <2>2
  <1>3. NoId \notin credited /\ NoId \notin booked
    BY NoIdIsNone DEF TypeOK
  <1>4. TypeOK'
    BY <1>1, <1>2 DEF TypeOK, search, appData, outside, bounds
  <1>5. RoundInv' /\ ~CardMayTake'
    BY <1>1, <1>2, <1>3 DEF RoundInv, Between, CardMayTake, outside
  <1>6. \A t \in Ids : Untouched(t)' = Untouched(t)
    BY <1>1 DEF Untouched, outside
  <1>7. UntouchedInv' /\ StatusInv'
    BY <1>1, <1>5, <1>6 DEF UntouchedInv, StatusInv, ReadStatusInv, outside, TypeOK
  <1>8. OwedIsFlagged'
    BY <1>1, <1>2 DEF OwedInv, OwedIsFlagged, Owed, outside
  <1>9. OwedInv'
    BY <1>1, <1>2, <1>3, <1>8 DEF OwedInv, outside
  <1> QED
    BY <1>4, <1>5, <1>7, <1>9

-----------------------------------------------------------------------------
(* performReversal, and the client's clear.                                *)

\* Rows that are touched already may be read, sent and selected.
LEMMA ReversalStep ==
    ASSUME Inv, TypeOK', UNCHANGED <<Transactions, trx, booked, credited, derailed>>,
           \A t \in Ids : Untouched(t) => Untouched(t)',
           \A thread \in Threads : ReadStatusInv(thread)'
    PROVE  Inv'
  <1> USE DEF Inv
  <1>1. RoundInv' /\ (CardMayTake' <=> CardMayTake)
    BY DEF RoundInv, Between, CardMayTake
  <1>2. UntouchedInv'
    <2>1. CardMayTake => trx.id \in Ids
      BY DEF CardMayTake, RoundInv, Between, TypeOK, TrxLocals
    <2> QED
      BY <1>1, <2>1 DEF UntouchedInv, TypeOK
  <1>3. StatusInv'
    BY <1>1 DEF StatusInv
  <1>4. OwedInv'
    BY DEF OwedInv, OwedIsFlagged, Owed
  <1> QED
    BY <1>1, <1>2, <1>3, <1>4

\* The reversal thread, or the client's clear, finds a pending row.
LEMMA FindPendingInv ==
    ASSUME Inv, NEW t \in Ids, VerifyAndDoReversal(t) \/ ClearSelect(t)
    PROVE  Inv'
  <1> USE DEF Inv
  <1>1. ~Untouched(t)
    BY DEF VerifyAndDoReversal, ClearSelect, FirstPending, PendingReversals, Untouched
  <1>2. UNCHANGED <<Transactions, search, trx, leftover, outside, hasty, crashes, profile>>
        /\ clears' \in Nat
    BY DEF VerifyAndDoReversal, ClearSelect, bounds, TypeOK
  <1>3. CASE VerifyAndDoReversal(t)
    <2>1. /\ call' = [call EXCEPT !["reversal"] = Called(t)] /\ clearing' = clearing
          /\ Called(t) \in CallLocals /\ Called(t).pc = "read" /\ Called(t).id = t
          /\ Called(t).copy = NoId /\ "reversal" \in Threads
      BY <1>3, CallsTyped DEF VerifyAndDoReversal, Threads
    <2>2. /\ call' \in [Threads -> CallLocals] /\ call'["reversal"] = Called(t)
          /\ \A other \in Threads \ {"reversal"} : call'[other] = call[other]
      BY <2>1, CallChange
    <2>3. TypeOK'
      BY <1>2, <2>1, <2>2 DEF TypeOK, search, appData, outside
    <2>4. \A r \in Ids : Untouched(r) => Untouched(r)'
      BY <1>1, <1>2, <2>1, <2>2, NoIdIsNone DEF Untouched, outside
    <2>5. \A thread \in Threads : ReadStatusInv(thread)'
      BY <1>2, <2>1, <2>2 DEF StatusInv, ReadStatusInv
    <2> QED
      BY <1>2, <2>3, <2>4, <2>5, ReversalStep DEF outside
  <1>4. CASE ClearSelect(t)
    <2>1. call' = call /\ clearing' = t
      BY <1>4 DEF ClearSelect
    <2>2. TypeOK'
      BY <1>2, <2>1 DEF TypeOK, search, appData, outside
    <2>3. \A r \in Ids : Untouched(r) => Untouched(r)'
      BY <1>1, <1>2, <2>1 DEF Untouched, outside
    <2>4. \A thread \in Threads : ReadStatusInv(thread)'
      BY <1>2, <2>1 DEF StatusInv, ReadStatusInv
    <2> QED
      BY <1>2, <2>2, <2>3, <2>4, ReversalStep DEF outside
  <1> QED
    BY <1>3, <1>4

\* The row is read into the thread's copy.
LEMMA ReadRowInv ==
    ASSUME Inv, NEW thread \in Threads, NEW copy \in Ids \cup {NoId}, ReadRow(thread, copy)
    PROVE  Inv'
  <1> USE DEF Inv
  <1> DEFINE local == [call[thread] EXCEPT !.pc = "send", !.copy = copy,
                          !.txn = IF copy = NoId THEN "none" ELSE Transactions[copy].txn]
  <1>1. UNCHANGED <<Transactions, search, trx, clearing, outside, bounds>>
    BY DEF ReadRow
  <1>2. /\ call' = [call EXCEPT ![thread] = local] /\ local \in CallLocals
        /\ local.id = call[thread].id /\ local.copy = copy /\ local.pc = "send"
        /\ copy # NoId => local.txn = Transactions[copy].txn
    <2>1. copy # NoId => Transactions[copy].txn \in {"none", "Pending", "Success", "Failure"}
      BY DEF TypeOK, Row, NoRow
    <2> QED
      BY <2>1 DEF ReadRow, TypeOK, CallLocals
  <1> HIDE DEF local
  <1>3. /\ call' \in [Threads -> CallLocals] /\ call'[thread] = local
        /\ \A other \in Threads \ {thread} : call'[other] = call[other]
    BY <1>2, CallChange
  <1>4. /\ copy \in Ids => ~Untouched(copy)
        /\ leftover' \in {leftover, leftover \cup {copy}} /\ leftover' \subseteq Ids
        /\ call[thread].id # NoId => copy = call[thread].id /\ copy \in Ids
    <2>1. call[thread].id # NoId => copy = call[thread].id /\ copy \in Ids
      BY DEF ReadRow, TypeOK, CallLocals
    <2>2. call[thread].id = NoId => copy \in leftover \cup {NoId}
      BY DEF ReadRow
    <2>3. leftover' = leftover \/ (leftover' = leftover \cup {copy} /\ copy \in Ids)
      BY DEF ReadRow
    <2> QED
      BY <2>1, <2>2, <2>3, NoIdIsNone DEF Untouched, TypeOK
  <1>5. TypeOK'
    BY <1>1, <1>3, <1>4 DEF TypeOK, search, appData, outside, bounds
  <1>6. \A t \in Ids : Untouched(t) => Untouched(t)'
    BY <1>1, <1>2, <1>3, <1>4 DEF Untouched, outside
  <1>7. \A other \in Threads : ReadStatusInv(other)'
    <2>1. ASSUME NEW other \in Threads \ {thread} PROVE ReadStatusInv(other)'
      BY <1>1, <1>3 DEF StatusInv, ReadStatusInv
    <2>2. ASSUME call[thread].id # NoId
          PROVE  local.txn \in {"Pending", "Failure"} /\ local.txn = Transactions[copy].txn
      <3>1. Transactions[copy] \in Row /\ copy \notin credited
        BY <1>4, <2>2 DEF UntouchedInv, TypeOK
      <3> QED
        BY <1>2, <1>4, <2>2, <3>1, NoIdIsNone DEF StatusInv, Row
    <2> QED
      BY <1>1, <1>2, <1>3, <1>4, <2>1, <2>2 DEF ReadStatusInv
  <1> QED
    BY <1>1, <1>5, <1>6, <1>7, ReversalStep DEF outside

\* The host is asked to reverse.
LEMMA SendReversalInv ==
    ASSUME Inv, NEW thread \in Threads, NEW executed \in BOOLEAN, NEW answer \in {"00", "other"},
           SendReversal(thread, executed, answer)
    PROVE  Inv'
  <1> USE DEF Inv
  <1> DEFINE local == IF answer = "00" THEN [call[thread] EXCEPT !.pc = "write"] ELSE NoCall
  <1>1. UNCHANGED <<Transactions, search, trx, clearing, leftover, booked, credited, derailed, bounds>>
    BY DEF SendReversal
  <1>2. /\ call' = [call EXCEPT ![thread] = local] /\ local \in CallLocals
        /\ local.id \in {call[thread].id, NoId} /\ local.copy \in {call[thread].copy, NoId}
        /\ local.pc \in {"write", "none"}
        /\ local.pc = "write" => local.id = call[thread].id /\ local.txn = call[thread].txn
        /\ call[thread].pc = "send"
    <2>1. call[thread] \in CallLocals
      BY DEF TypeOK
    <2>2. CASE answer = "00"
      BY <2>1, <2>2 DEF SendReversal, CallLocals
    <2>3. CASE answer # "00"
      BY <2>3, CallsTyped DEF SendReversal
    <2> QED
      BY <2>2, <2>3
  <1> HIDE DEF local
  <1>3. /\ call' \in [Threads -> CallLocals] /\ call'[thread] = local
        /\ \A other \in Threads \ {thread} : call'[other] = call[other]
    BY <1>2, CallChange
  <1>4. undone' \subseteq Ids /\ undone' \subseteq undone \cup {call[thread].copy}
    BY DEF SendReversal, TypeOK, CallLocals
  <1>5. TypeOK'
    BY <1>1, <1>3, <1>4 DEF TypeOK, search, appData, bounds
  <1>6. \A t \in Ids : Untouched(t) => Untouched(t)'
    BY <1>1, <1>2, <1>3, <1>4, NoIdIsNone DEF Untouched
  <1>7. \A other \in Threads : ReadStatusInv(other)'
    BY <1>1, <1>2, <1>3 DEF StatusInv, ReadStatusInv
  <1> QED
    BY <1>1, <1>5, <1>6, <1>7, ReversalStep

\* A row that is touched already gets another reversal status.
LEMMA TouchedRowInv ==
    ASSUME Inv, TypeOK', NEW id \in Ids, ~Untouched(id), NEW row \in Row,
           Transactions' = Updated(id, row),
           Transactions[id] # NoRow => /\ row.kind = Transactions[id].kind
                                       /\ row.code = Transactions[id].code
                                       /\ row.reversal \in {"Success", "Failure"}
                                       /\ row.txn \in {Transactions[id].txn, "Failure"},
           UNCHANGED <<trx, leftover, outside>>,
           \A t \in Ids \ {id} : Untouched(t) /\ Transactions'[t] = Transactions[t] => Untouched(t)',
           \A thread \in Threads : call'[thread] \in {call[thread], NoCall}
    PROVE  Inv' /\ TxnKept
  <1> USE DEF Inv
  <1>1. /\ \A t \in Ids \ {id} : Transactions'[t] = Transactions[t]
        /\ Transactions'[id] = IF Transactions[id] = NoRow THEN NoRow ELSE row
        /\ \A t \in Ids : Transactions'[t] = NoRow <=> Transactions[t] = NoRow
    BY RowChange
  <1>2. Transactions[id] # NoRow /\ id \notin credited /\ id \notin {NoId}
    BY NoIdIsNone DEF UntouchedInv
  <1>3. CardMayTake => trx.id \in Ids \ {id}
    BY DEF CardMayTake, RoundInv, Between, UntouchedInv, TypeOK, TrxLocals
  <1>4. \A t \in Ids : /\ Transactions'[t].kind = Transactions[t].kind
                       /\ Transactions'[t].code = Transactions[t].code
                       /\ Transactions[t].reversal # "none" => Transactions'[t].reversal # "none"
                       /\ Transactions'[t].reversal = "Pending" => Transactions[t].reversal = "Pending"
    BY <1>1, <1>2
  <1>5. \A t \in Ids : Transactions'[t].txn \in {Transactions[t].txn, "Failure"}
    BY <1>1, <1>2
  <1>6. TxnKept
    <2>1. Transactions[id].txn # "Success"
      BY <1>2 DEF StatusInv
    <2> QED
      BY <1>1, <1>2, <2>1 DEF TxnKept
  <1>7. RoundInv' /\ (CardMayTake' <=> CardMayTake)
    <2>1. trx.id # NoId => trx.id \in Ids
      BY DEF TypeOK, TrxLocals
    <2> QED
      BY <1>1, <1>4, <2>1 DEF RoundInv, Between, CardMayTake, outside
  <1>8. UntouchedInv'
    <2>1. \A t \in Ids \ {id} : Untouched(t) => Untouched(t)'
      BY <1>1
    <2> QED
      BY <1>1, <1>2, <1>3, <1>7, <2>1 DEF UntouchedInv, outside, TypeOK
  <1>9. StatusInv'
    <2>1. \A t \in Ids : Transactions'[t].txn = "Success" => t \in credited'
      BY <1>5 DEF StatusInv, outside
    <2>2. CardMayTake' => Transactions'[trx'.id].txn = "Pending"
      BY <1>1, <1>3, <1>7 DEF StatusInv
    <2>3. ASSUME NEW thread \in Threads PROVE ReadStatusInv(thread)'
      <3>1. CASE call'[thread] = NoCall
        BY <3>1, CallsTyped DEF ReadStatusInv
      <3>2. CASE call'[thread] = call[thread]
        <4>1. call[thread].id # NoId => call[thread].id \in Ids
          BY DEF TypeOK, CallLocals
        <4>2. ReadStatusInv(thread)
          BY DEF StatusInv
        <4> QED
          BY <1>5, <3>2, <4>1, <4>2 DEF ReadStatusInv
      <3> QED
        BY <3>1, <3>2
    <2> QED
      BY <2>1, <2>2, <2>3 DEF StatusInv
  <1>10. OwedInv'
    <2>1. Owed' = Owed
      BY <1>4 DEF Owed, outside, TypeOK
    <2>2. trx.id # NoId => trx.id \in Ids
      BY DEF TypeOK, TrxLocals
    <2>3. OwedIsFlagged'
      BY <1>4, <2>1 DEF OwedInv, OwedIsFlagged, Owed, TypeOK
    <2>4. trx.id \in Owed => trx.id \in Ids
      BY DEF Owed, TypeOK
    <2> QED
      BY <1>4, <2>1, <2>2, <2>3, <2>4 DEF OwedInv, outside
  <1> QED
    BY <1>6, <1>7, <1>8, <1>9, <1>10

\* The host's 00 is written to the row.
LEMMA WriteReversalInv ==
    ASSUME Inv, NEW thread \in Threads, WriteReversal(thread)
    PROVE  Inv' /\ TxnKept
  <1> USE DEF Inv
  <1> DEFINE id == call[thread].id
             row == [Transactions[id] EXCEPT !.reversal = "Success", !.host = "Success",
                                             !.txn = StatusReversed(call[thread].txn)]
  <1>1. /\ UNCHANGED <<search, trx, clearing, leftover, outside, bounds>> /\ call[thread].pc = "write"
        /\ id \in Ids \cup {NoId}
    BY DEF WriteReversal, TypeOK, CallLocals
  <1>2. /\ call' \in [Threads -> CallLocals] /\ call'[thread] = NoCall
        /\ \A other \in Threads \ {thread} : call'[other] = call[other]
    <2>1. NoCall \in CallLocals /\ call' = [call EXCEPT ![thread] = NoCall]
      BY CallsTyped DEF WriteReversal
    <2> QED
      BY <2>1, CallChange
  <1>3. \A t \in Ids : Untouched(t) /\ Transactions'[t] = Transactions[t] => Untouched(t)'
    BY <1>1, <1>2, CallsTyped, NoIdIsNone DEF Untouched, outside
  <1>4. CASE id = NoId
    <2>1. Transactions' = Transactions
      BY <1>4 DEF WriteReversal
    <2>2. TypeOK'
      BY <1>1, <1>2, <2>1 DEF TypeOK, search, appData, outside, bounds
    <2>3. \A other \in Threads : ReadStatusInv(other)'
      BY <1>2, <2>1, CallsTyped DEF StatusInv, ReadStatusInv
    <2>4. TxnKept
      BY <2>1 DEF TxnKept
    <2> QED
      BY <1>1, <1>3, <2>1, <2>2, <2>3, <2>4, ReversalStep DEF outside
  <1>5. CASE id # NoId
    <2>1. id \in Ids /\ ~Untouched(id) /\ Transactions[id] # NoRow /\ Transactions[id] \in Row
      <3>1. id \in Ids /\ ~Untouched(id)
        BY <1>1, <1>5 DEF Untouched
      <3> QED
        BY <3>1 DEF UntouchedInv, TypeOK
    <2>2. call[thread].txn \in {"Pending", "Failure"}
      BY <1>1, <1>5 DEF StatusInv, ReadStatusInv
    <2>3. /\ row \in Row /\ row.kind = Transactions[id].kind /\ row.code = Transactions[id].code
          /\ row.reversal = "Success" /\ row.txn = "Failure"
      BY <2>1, <2>2 DEF Row, StatusReversed
    <2>4. Transactions' = Updated(id, row)
      BY <1>5 DEF WriteReversal
    <2> HIDE DEF row, id
    <2>5. Transactions' \in [Ids -> Row \cup {NoRow}]
      BY <2>1, <2>3, <2>4, RowChange
    <2>6. TypeOK'
      BY <1>1, <1>2, <2>5 DEF TypeOK, search, appData, outside, bounds
    <2> QED
      BY <1>1, <1>2, <1>3, <2>1, <2>3, <2>4, <2>6, TouchedRowInv
  <1> QED
    BY <1>4, <1>5

\* The client's clear gives the row up.
LEMMA ClearUpdateInv ==
    ASSUME Inv, ClearUpdate
    PROVE  Inv' /\ TxnKept
  <1> USE DEF Inv
  <1> DEFINE row == [Transactions[clearing] EXCEPT !.reversal = "Failure", !.cleared = TRUE]
  <1>1. /\ UNCHANGED <<search, trx, call, leftover, outside, bounds>> /\ clearing' = NoId
        /\ clearing \in Ids /\ Transactions' = Updated(clearing, row)
    BY DEF ClearUpdate, TypeOK
  <1>2. ~Untouched(clearing) /\ Transactions[clearing] # NoRow /\ Transactions[clearing] \in Row
    <2>1. ~Untouched(clearing)
      BY DEF Untouched
    <2> QED
      BY <1>1, <2>1 DEF UntouchedInv, TypeOK
  <1>3. /\ row \in Row /\ row.kind = Transactions[clearing].kind
        /\ row.code = Transactions[clearing].code
        /\ row.reversal = "Failure" /\ row.txn = Transactions[clearing].txn
    BY <1>2 DEF Row
  <1> HIDE DEF row
  <1>4. Transactions' \in [Ids -> Row \cup {NoRow}]
    BY <1>1, <1>3, RowChange
  <1>5. TypeOK'
    BY <1>1, <1>4 DEF TypeOK, search, appData, outside, bounds
  <1>6. \A t \in Ids : Untouched(t) /\ Transactions'[t] = Transactions[t] => Untouched(t)'
    BY <1>1, NoIdIsNone DEF Untouched, outside
  <1> QED
    BY <1>1, <1>2, <1>3, <1>5, <1>6, TouchedRowInv

\* A kill leaves the table; the row of the round counts as cut.
LEMMA RestartInv ==
    ASSUME Inv, Restart
    PROVE  Inv'
  <1> USE DEF Inv
  <1>1. /\ UNCHANGED <<Transactions, booked, undone, credited, hasty, clears, profile>>
        /\ crashes' \in Nat
        /\ clearing' = NoId /\ leftover' = {}
        /\ derailed' = IF trx.id = NoId THEN derailed ELSE derailed \cup {trx.id}
    BY DEF Restart, TypeOK
  <1>2. trx' \in TrxLocals /\ trx'.pc = "idle" /\ trx'.id = NoId
    BY DEF Restart, Idle, TrxLocals
  <1>3. /\ call' \in [Threads -> CallLocals]
        /\ \A thread \in Threads : call'[thread] = NoCall
    BY CallsTyped DEF Restart
  <1>4. /\ derailed \subseteq derailed' /\ derailed' \subseteq Ids
        /\ trx.id # NoId => trx.id \in derailed'
    BY <1>1 DEF TypeOK, TrxLocals
  <1>5. TypeOK'
    <2>1. /\ clearing' \in Ids \cup {NoId} /\ leftover' \in SUBSET Ids
          /\ derailed' \in SUBSET Ids /\ crashes' \in Nat
      BY <1>1, <1>4
    <2>2. UNCHANGED <<Transactions, booked, undone, credited, hasty, clears, profile>>
      BY <1>1
    <2>3. SearchTypeOK'
      BY <1>1 DEF Restart, SearchTypeOK, TypeOK, HandlerLocals
    <2> QED
      BY <1>2, <1>3, <2>1, <2>2, <2>3 DEF TypeOK, SearchTypeOK
  <1>6. RoundInv' /\ ~CardMayTake'
    <2>1. NoId \notin credited
      BY NoIdIsNone DEF TypeOK
    <2> QED
      BY <1>1, <1>2, <2>1 DEF RoundInv, Between, CardMayTake
  <1>7. \A t \in Ids : Untouched(t) => Untouched(t)'
    BY <1>1, <1>3, CallsTyped, NoIdIsNone DEF Untouched
  <1>8. UntouchedInv'
    BY <1>1, <1>6, <1>7 DEF UntouchedInv, TypeOK
  <1>9. StatusInv'
    BY <1>1, <1>3, <1>6, CallsTyped DEF StatusInv, ReadStatusInv
  <1>10. OwedInv'
    BY <1>1, <1>2, <1>4, NoIdIsNone DEF OwedInv, OwedIsFlagged, Owed, TypeOK
  <1> QED
    BY <1>5, <1>6, <1>8, <1>9, <1>10

-----------------------------------------------------------------------------
(* The theorems.                                                           *)

LEMMA StepInv == Inv /\ [Next]_vars => Inv' /\ TxnKept
  <1> SUFFICES ASSUME Inv, [Next]_vars PROVE Inv' /\ TxnKept
    OBVIOUS
  <1>1. Transactions' = Transactions => TxnKept
    BY DEF TxnKept
  <1>2. CASE UNCHANGED vars
    BY <1>1, <1>2 DEF vars, search, appData, outside, bounds, Inv, TypeOK, RoundInv, UntouchedInv,
           Untouched, StatusInv, ReadStatusInv, OwedInv, OwedIsFlagged, Owed, CardMayTake
  <1>3. CASE SearchMove
    BY <1>1, <1>3, BetweenInv, SearchMoves DEF Inv
  <1>4. ASSUME NEW t \in Ids, InsertRow(t) PROVE Inv' /\ TxnKept
    <2>1. NoRow.txn = "none"
      BY DEF NoRow
    <2> QED
      BY <1>4, <2>1, InsertRowInv DEF TxnKept
  <1>5. ASSUME NEW t \in Ids, VerifyAndDoReversal(t) \/ ClearSelect(t) PROVE Inv' /\ TxnKept
    BY <1>1, <1>5, FindPendingInv DEF VerifyAndDoReversal, ClearSelect
  <1>6. CASE RoundStep
    <2>1. CASE \/ \E answer \in Answers, books \in BOOLEAN : AskHost(answer, books)
               \/ CardTakes \/ CardDeclines
      <3>1. Transactions' = Transactions
        BY <2>1 DEF AskHost, CardTakes, CardDeclines
      <3> QED
        BY <1>1, <2>1, <3>1, AnswerInv
    <2>2. CASE ReversalReturns
      BY <1>1, <2>2, ReversalReturnsInv DEF ReversalReturns
    <2> QED
      BY <1>6, <2>1, <2>2, StoreAnswerInv, SecondTapNotPresentedInv, WriteTxnStatusInv,
         FlagReversalInv DEF RoundStep
  <1>7. ASSUME NEW thread \in Threads, CallStep(thread) PROVE Inv' /\ TxnKept
    <2>1. ASSUME NEW copy \in Ids \cup {NoId}, ReadRow(thread, copy) PROVE Inv' /\ TxnKept
      BY <1>1, <2>1, ReadRowInv DEF ReadRow
    <2>2. ASSUME NEW executed \in BOOLEAN, NEW answer \in {"00", "other"},
                 SendReversal(thread, executed, answer)
          PROVE  Inv' /\ TxnKept
      BY <1>1, <2>2, SendReversalInv DEF SendReversal
    <2> QED
      BY <1>7, <2>1, <2>2, WriteReversalInv DEF CallStep
  <1>8. CASE Restart
    BY <1>1, <1>8, RestartInv DEF Restart
  <1> QED
    BY <1>2, <1>3, <1>4, <1>5, <1>6, <1>7, <1>8, ClearUpdateInv DEF Next, SearchMove

\* Every state of a run satisfies the inductive invariant.
THEOREM ReversalInv == Safety => []Inv
  BY InitInv, StepInv, PTL DEF Safety

\* The columns, thread positions and sets stay in the ranges the program writes.
THEOREM ReversalTypeCorrect == Safety => []TypeOK
  <1>1. Inv => TypeOK
    BY DEF Inv
  <1> QED
    BY <1>1, ReversalInv, PTL

\* Neither thread's copy, nor an uninitialised one, makes performReversal reverse what
\* a card has taken.
THEOREM CreditedStays == Safety => []CreditedNotReversed
  <1>1. Inv => CreditedNotReversed
    BY DEF Inv, UntouchedInv, Untouched, CreditedNotReversed
  <1> QED
    BY <1>1, ReversalInv, PTL

\* What the host booked and the card did not take carries a reversal.
THEOREM NoMoneyLost == Safety => []OwedIsFlagged
  <1>1. Inv => OwedIsFlagged
    BY DEF Inv, OwedInv
  <1> QED
    BY <1>1, ReversalInv, PTL

\* A status that is final stays, whatever the two threads write back.
THEOREM StatusStaysFinal == Safety => TxnStatusFinal
  <1>1. Inv /\ [Next]_vars => [\A t \in Ids : Transactions[t].txn \in {"Success", "Failure"}
                                => Transactions'[t].txn = Transactions[t].txn]_vars
    BY StepInv DEF TxnKept
  <1> QED
    BY <1>1, ReversalInv, PTL DEF Safety, TxnStatusFinal

-----------------------------------------------------------------------------
(* Clients that wait for their turn: one search at a time is handled, and  *)
(* none while a round is on, so that the test it passed and the type it    *)
(* wrote are those of the round.                                           *)

Requested ==
    \/ canRunTransaction /\ trx.pc = "idle"
    \/ trx.pc \in {"begin", "copy", "armed"}

\* The thread of a channel has found no reversal pending.
Passed(ch) ==
    \/ handler[ch].pc = "run" /\ handler[ch].kind \in AllKinds
    \/ handler[ch].pc = "bin" /\ handler[ch].kind = "service_create"

InTurnInv ==
    /\ \A ch \in Channels : handler[ch] # Free =>
          /\ trx.pc = "idle" /\ ~canRunTransaction
          /\ \A other \in Channels \ {ch} : handler[other] = Free
          /\ handler[ch].pc \in {"bin", "check", "run"} => trxType = handler[ch].kind
          /\ Passed(ch) => PendingReversals = {}
    /\ trx.pc = "armed" => trx.kind = trxType
    /\ Requested /\ searchMode = "single" /\ trxType \in AllKinds => PendingReversals = {}

TurnInv == hasty = 0 => InTurnInv

\* While nobody touches the search, no row becomes pending but from the thread's round.
LEMMA TurnStays ==
    ASSUME InTurnInv, UNCHANGED search,
           \/ trx' = trx /\ PendingReversals' \subseteq PendingReversals
           \/ {trx.pc, trx'.pc} \cap {"idle", "begin", "copy", "armed"} = {}
    PROVE  InTurnInv'
  BY DEF InTurnInv, Requested, Passed, search, appData

\* A search that is sent, written and tested in turn.
LEMMA SearchStepTurn ==
    ASSUME Inv, TurnInv, hasty' = 0, NEW ch \in Channels, SearchStep(ch)
    PROVE  InTurnInv'
  <1>1. hasty = 0
    BY DEF SearchStep, SearchCard, SetMode, SetType, SetBin, CheckLoop, CheckReversal, RequestRound,
           bounds, Inv, TypeOK
  <1>2. InTurnInv /\ TypeOK
    BY <1>1 DEF TurnInv, Inv
  <1>3. UNCHANGED <<Transactions, trx>> /\ PendingReversals' = PendingReversals
    BY <1>2, SearchStepMoves DEF PendingReversals
  <1>4. CASE \E kind \in profile.kinds, mode \in profile.modes : SearchCard(ch, kind, mode)
    <2>1. PICK kind \in profile.kinds, mode \in profile.modes : SearchCard(ch, kind, mode)
      BY <1>4
    <2>2. InTurn
      BY <1>1, <2>1 DEF SearchCard
    <2>3. /\ handler'[ch].pc = "mode"
          /\ \A other \in Channels \ {ch} : handler'[other] = Free
          /\ trxType' = "none" /\ canRunTransaction' = canRunTransaction
      BY <1>2, <2>1, <2>2 DEF SearchCard, InTurn, TypeOK
    <2> QED
      BY <1>3, <2>2, <2>3 DEF InTurnInv, InTurn, Requested, Passed, AllKinds
  <1>5. CASE ~\E kind \in profile.kinds, mode \in profile.modes : SearchCard(ch, kind, mode)
    <2>1. handler[ch].pc \in Busy /\ handler[ch] # Free
      BY <1>5 DEF SearchStep, SetMode, SetType, SetBin, CheckLoop, CheckReversal, RequestRound, Busy,
                  Free
    <2>2. /\ trx.pc = "idle" /\ ~canRunTransaction
          /\ \A other \in Channels \ {ch} : handler[other] = Free
          /\ handler[ch].pc \in {"bin", "check", "run"} => trxType = handler[ch].kind
          /\ Passed(ch) => PendingReversals = {}
      BY <1>2, <2>1 DEF InTurnInv
    <2>3. ASSUME NEW pc \in Busy \cup {"free"}, Goes(ch, pc), ~canRunTransaction',
                 pc \in {"bin", "check", "run"} => trxType' = handler[ch].kind,
                 pc = "run" /\ handler[ch].kind \in AllKinds => PendingReversals = {},
                 pc = "bin" /\ handler[ch].kind = "service_create" => PendingReversals = {}
          PROVE  InTurnInv'
      <3>1. /\ \A other \in Channels \ {ch} : handler'[other] = Free
            /\ pc = "free" => handler'[ch] = Free
            /\ pc # "free" => handler'[ch].pc = pc /\ handler'[ch].kind = handler[ch].kind
        BY <1>2, <2>1, <2>2, <2>3, GoesTyped
      <3>2. ASSUME NEW other \in Channels, handler'[other] # Free
            PROVE  /\ other = ch
                   /\ handler'[other].pc \in {"bin", "check", "run"} => trxType' = handler'[other].kind
                   /\ Passed(other)' => PendingReversals' = {}
        BY <1>3, <2>3, <3>1, <3>2 DEF Passed
      <3> QED
        BY <1>3, <2>2, <2>3, <3>1, <3>2 DEF InTurnInv, Requested
    <2>4. CASE SetMode(ch)
      <3>1. PICK pc \in {"inquiry", "type"} : Goes(ch, pc)
        BY <2>4 DEF SetMode
      <3> QED
        BY <2>2, <2>3, <2>4, <3>1 DEF SetMode, Busy
    <2>5. CASE SetType(ch)
      <3>1. PICK pc \in {"run", "check", "bin"} :
               /\ Goes(ch, pc) /\ trxType' = handler[ch].kind
               /\ pc = "run" => handler[ch].kind = "balance_inquiry"
               /\ pc = "bin" => handler[ch].kind # "service_create"
        BY <2>5 DEF SetType
      <3> QED
        BY <2>2, <2>3, <2>5, <3>1 DEF SetType, Busy, AllKinds
    <2>6. CASE SetBin(ch)
      <3>1. PICK pc \in {"loop", "run", "check"} :
               /\ Goes(ch, pc)
               /\ pc \in {"run", "check"} => handler[ch].pc = "bin"
               /\ pc = "run" => handler[ch].kind \in {"purchase", "service_create"}
        BY <2>6 DEF SetBin
      <3>2. trxType' = trxType /\ canRunTransaction' = canRunTransaction
        BY <2>6 DEF SetBin
      <3>3. pc = "run" /\ handler[ch].kind \in AllKinds => PendingReversals = {}
        BY <2>2, <3>1 DEF Passed, AllKinds
      <3> QED
        BY <2>2, <2>3, <3>1, <3>2, <3>3 DEF Busy
    <2>7. CASE CheckLoop(ch)
      <3>1. PICK pc \in {"free", "type"} : Goes(ch, pc)
        BY <2>7 DEF CheckLoop
      <3> QED
        BY <2>2, <2>3, <2>7, <3>1 DEF CheckLoop, Busy
    <2>8. CASE CheckReversal(ch)
      <3>1. PICK pc \in {"free", "bin", "run"} :
               Goes(ch, pc) /\ (pc # "free" => PendingReversals = {})
        BY <2>8 DEF CheckReversal, SearchAllowed
      <3>2. UNCHANGED <<trxType, canRunTransaction>> /\ handler[ch].pc = "check"
        BY <2>8 DEF CheckReversal, appData
      <3> QED
        BY <2>2, <2>3, <3>1, <3>2 DEF Busy
    <2>9. CASE RequestRound(ch)
      <3>1. /\ Goes(ch, "free") /\ handler[ch].pc = "run"
            /\ UNCHANGED <<searchMode, trxType>>
        BY <2>9 DEF RequestRound, appData
      <3>2. \A other \in Channels : handler'[other] = Free
        BY <1>2, <2>1, <2>2, <3>1, GoesTyped
      <3>3. trxType \in AllKinds => PendingReversals = {}
        BY <2>2, <3>1 DEF Passed
      <3> QED
        BY <1>3, <2>2, <3>1, <3>2, <3>3 DEF InTurnInv
    <2> QED
      BY <1>5, <2>4, <2>5, <2>6, <2>7, <2>8, <2>9 DEF SearchStep
  <1> QED
    BY <1>4, <1>5

\* The transaction thread takes the request up, and ends its round.
LEMMA RoundTurn ==
    ASSUME Inv, InTurnInv,
           \/ StopSearch \/ Poll \/ CopyBin \/ CopyType \/ EndRound
           \/ \E code \in {"none", "00"} : EndWithoutRow(code)
           \/ \E t \in Ids : InsertRow(t)
    PROVE  InTurnInv'
  <1> USE DEF Inv, TypeOK
  <1>1. ASSUME UNCHANGED <<Transactions, appData, handler>>,
               trx.pc # "idle" \/ canRunTransaction,
               trx'.pc = "armed" => trx'.kind = trxType,
               Requested' => Requested \/ searchMode # "single"
        PROVE  InTurnInv'
    <2>1. \A ch \in Channels : handler'[ch] = Free
      BY <1>1 DEF InTurnInv
    <2>2. PendingReversals' = PendingReversals
      BY <1>1 DEF PendingReversals
    <2> QED
      BY <1>1, <2>1, <2>2 DEF InTurnInv, appData
  <1>2. CASE StopSearch
    BY <1>1, <1>2 DEF StopSearch, InTurnInv, Requested
  <1>3. CASE Poll
    <2>1. trx'.pc = "begin"
      BY <1>3 DEF Poll, Idle
    <2> QED
      BY <1>1, <1>3, <2>1 DEF Poll, search, Requested
  <1>4. CASE CopyBin
    <2>1. trx'.pc = "copy"
      BY <1>4 DEF CopyBin, TrxLocals
    <2> QED
      BY <1>1, <1>4, <2>1 DEF CopyBin, search, Requested
  <1>5. CASE CopyType
    <2>1. trx'.pc = "armed" /\ trx'.kind = trxType
      BY <1>5 DEF CopyType, TrxLocals
    <2> QED
      BY <1>1, <1>5, <2>1 DEF CopyType, search, Requested
  <1>6. CASE EndRound
    <2>1. trx'.pc = "idle" /\ (searchMode = "single" => canRunTransaction' = FALSE)
      BY <1>6 DEF EndRound, Idle
    <2> QED
      BY <1>1, <1>6, <2>1 DEF EndRound, Requested
  <1>7. CASE \E code \in {"none", "00"} : EndWithoutRow(code)
    <2>1. trx'.pc \in {"flag", "end"} /\ trx.pc = "armed"
      <3>1. trx' = [trx EXCEPT !.pc = "flag", !.id = NoId] \/ trx' = Over
        BY <1>7 DEF EndWithoutRow
      <3>2. trx' = [trx EXCEPT !.pc = "flag", !.id = NoId] => trx'.pc = "flag"
        BY DEF TrxLocals
      <3> QED
        BY <1>7, <3>1, <3>2, TrxOver DEF EndWithoutRow
    <2> QED
      BY <1>1, <1>7, <2>1 DEF EndWithoutRow, search, Requested
  <1>8. ASSUME NEW t \in Ids, InsertRow(t)
        PROVE  InTurnInv'
    <2>1. trx'.pc = "send" /\ trx.pc = "armed" /\ UNCHANGED search
      BY <1>8 DEF InsertRow, TrxLocals
    <2>2. \A ch \in Channels : handler'[ch] = Free
      BY <2>1 DEF InTurnInv, search
    <2> QED
      BY <2>1, <2>2 DEF InTurnInv, Requested
  <1> QED
    BY <1>2, <1>3, <1>4, <1>5, <1>6, <1>7, <1>8

\* With its card there, the thread is not between two searches.
LEMMA RoundStepPlaces ==
    ASSUME Inv, RoundStep
    PROVE  /\ UNCHANGED search /\ trx.pc # "armed"
           /\ {trx.pc, trx'.pc} \cap {"idle", "begin", "copy", "armed"} = {}
  <1> USE DEF Inv, TypeOK, TrxLocals
  <1>1. CASE \/ \E answer \in Answers, books \in BOOLEAN : AskHost(answer, books)
             \/ CardTakes \/ CardDeclines \/ SecondTapNotPresented
    BY <1>1 DEF AskHost, CardTakes, CardDeclines, SecondTapNotPresented
  <1>2. CASE StoreAnswer
    BY <1>2 DEF StoreAnswer
  <1>3. CASE WriteTxnStatus
    BY <1>3, TrxOver DEF WriteTxnStatus
  <1>4. CASE FlagReversal
    BY <1>4 DEF FlagReversal
  <1>5. CASE ReversalReturns
    <2>1. trx.next \in {"tap", "over"}
      BY <1>5 DEF ReversalReturns, RoundInv
    <2> QED
      BY <1>5, <2>1, TrxOver DEF ReversalReturns
  <1> QED
    BY <1>1, <1>2, <1>3, <1>4, <1>5 DEF RoundStep

\* performReversal and the clear: no row becomes pending.
LEMMA PendingShrinks ==
    ASSUME Inv,
           \/ \E t \in Ids : VerifyAndDoReversal(t) \/ ClearSelect(t)
           \/ \E thread \in Threads : CallStep(thread)
           \/ ClearUpdate
    PROVE  UNCHANGED <<search, trx, hasty>> /\ PendingReversals' \subseteq PendingReversals
  <1>1. UNCHANGED <<search, trx, hasty>>
    BY DEF VerifyAndDoReversal, ClearSelect, CallStep, ReadRow, SendReversal, WriteReversal,
           ClearUpdate, bounds
  <1>2. ASSUME NEW id \in Ids, NEW row \in Row, Transactions' = Updated(id, row),
               row.reversal # "Pending"
        PROVE  PendingReversals' \subseteq PendingReversals
    <2>1. \A t \in Ids : \/ Transactions'[t] = Transactions[t]
                         \/ Transactions'[t].reversal # "Pending"
      BY <1>2, RowChange DEF Inv
    <2> QED
      BY <2>1 DEF PendingReversals
  <1>3. CASE Transactions' = Transactions
    BY <1>1, <1>3 DEF PendingReversals
  <1>4. ASSUME NEW thread \in Threads, WriteReversal(thread), call[thread].id # NoId
        PROVE  PendingReversals' \subseteq PendingReversals
    <2> DEFINE id == call[thread].id
               row == [Transactions[id] EXCEPT !.reversal = "Success", !.host = "Success",
                                               !.txn = StatusReversed(call[thread].txn)]
    <2>1. id \in Ids /\ ~Untouched(id) /\ call[thread].txn \in {"Pending", "Failure"}
      BY <1>4 DEF WriteReversal, Untouched, Inv, TypeOK, CallLocals, StatusInv, ReadStatusInv
    <2>2. Transactions[id] \in Row
      BY <2>1 DEF Inv, UntouchedInv, TypeOK
    <2>3. row \in Row /\ row.reversal # "Pending"
      BY <2>1, <2>2 DEF Row, StatusReversed
    <2>4. Transactions' = Updated(id, row)
      BY <1>4 DEF WriteReversal
    <2> HIDE DEF id, row
    <2> QED
      BY <1>2, <2>1, <2>3, <2>4
  <1>5. CASE ClearUpdate
    <2> DEFINE row == [Transactions[clearing] EXCEPT !.reversal = "Failure", !.cleared = TRUE]
    <2>1. clearing \in Ids /\ ~Untouched(clearing) /\ Transactions' = Updated(clearing, row)
      BY <1>5 DEF ClearUpdate, Untouched, Inv, TypeOK
    <2>2. Transactions[clearing] \in Row
      BY <2>1 DEF Inv, UntouchedInv, TypeOK
    <2>3. row \in Row /\ row.reversal # "Pending"
      BY <2>2 DEF Row
    <2> HIDE DEF row
    <2> QED
      BY <1>1, <1>2, <2>1, <2>3
  <1>6. \/ Transactions' = Transactions
        \/ ClearUpdate
        \/ \E thread \in Threads : WriteReversal(thread) /\ call[thread].id # NoId
    BY DEF VerifyAndDoReversal, ClearSelect, CallStep, ReadRow, SendReversal, WriteReversal
  <1> QED
    BY <1>1, <1>3, <1>4, <1>5, <1>6

\* A row is stored only by InsertRow.
LEMMA TurnStep ==
    ASSUME Inv, TurnInv, [Next]_vars
    PROVE  /\ TurnInv'
           /\ trx.pc = "armed" /\ trx'.pc = "send" => \E t \in Ids : InsertRow(t)
  <1>1. CASE \E ch \in Channels : SearchStep(ch)
    <2>1. trx' = trx
      BY <1>1, SearchStepMoves DEF Inv
    <2> QED
      BY <1>1, <2>1, SearchStepTurn DEF TurnInv
  <1>2. CASE \/ StopSearch \/ Poll \/ CopyBin \/ CopyType \/ EndRound
             \/ \E code \in {"none", "00"} : EndWithoutRow(code)
    <2>1. hasty' = hasty
      BY <1>2 DEF StopSearch, Poll, CopyBin, CopyType, EndRound, EndWithoutRow, bounds
    <2>2. trx' = trx \/ trx'.pc \in Between \cup {"flag"}
      BY <1>2, SearchMoves DEF SearchMove, Inv
    <2> QED
      BY <1>2, <2>1, <2>2, RoundTurn DEF TurnInv, Between
  <1>3. CASE \E t \in Ids : InsertRow(t)
    <2>1. hasty' = hasty
      BY <1>3 DEF InsertRow, bounds
    <2> QED
      BY <1>3, <2>1, RoundTurn DEF TurnInv
  <1>4. CASE RoundStep
    <2>1. hasty' = hasty
      BY <1>4 DEF RoundStep, AskHost, StoreAnswer, CardTakes, CardDeclines, SecondTapNotPresented,
                  WriteTxnStatus, FlagReversal, ReversalReturns, bounds
    <2> QED
      BY <1>4, <2>1, RoundStepPlaces, TurnStays DEF TurnInv
  <1>5. CASE \/ \E t \in Ids : VerifyAndDoReversal(t) \/ ClearSelect(t)
             \/ \E thread \in Threads : CallStep(thread)
             \/ ClearUpdate
    BY <1>5, PendingShrinks, TurnStays DEF TurnInv
  <1>6. CASE Restart
    <2>1. /\ trx'.pc = "idle" /\ canRunTransaction' = FALSE
          /\ \A ch \in Channels : handler'[ch] = Free
      BY <1>6 DEF Restart, Idle
    <2> QED
      BY <2>1 DEF TurnInv, InTurnInv, Requested
  <1>7. CASE UNCHANGED vars
    <2>1. UNCHANGED <<search, trx, hasty>> /\ PendingReversals' = PendingReversals
      BY <1>7 DEF vars, bounds, PendingReversals
    <2> QED
      BY <2>1, TurnStays DEF TurnInv
  <1> QED
    BY <1>1, <1>2, <1>3, <1>4, <1>5, <1>6, <1>7 DEF Next

\* Whatever is refused, stopped or killed, a single search of clients that wait for their
\* turn stores its row with no reversal pending.
THEOREM SearchStartsReconciled == Safety => StartsReconciled
  <1>1. Init => TurnInv
    BY DEF Init, TurnInv, InTurnInv, Requested, Idle
  <1>2. Inv /\ TurnInv /\ [Next]_vars
           => /\ TurnInv'
              /\ [(hasty = 0 /\ searchMode = "single" /\ trx.pc = "armed" /\ trx'.pc = "send")
                    => PendingReversals = {}]_vars
    <2> SUFFICES ASSUME Inv, TurnInv, [Next]_vars
                 PROVE  /\ TurnInv'
                        /\ (hasty = 0 /\ searchMode = "single" /\ trx.pc = "armed" /\ trx'.pc = "send")
                              => PendingReversals = {}
      OBVIOUS
    <2>1. TurnInv' /\ (trx.pc = "armed" /\ trx'.pc = "send" => trx.kind \in AllKinds)
      BY TurnStep DEF InsertRow
    <2> QED
      BY <2>1 DEF TurnInv, InTurnInv, Requested
  <1> QED
    BY <1>1, <1>2, ReversalInv, PTL DEF Safety, StartsReconciled

-----------------------------------------------------------------------------
(* The promise.  What performReversal and the client's clear have in hand  *)
(* is on record, what the host answered with 00 is booked, and a row stays *)
(* on record.                                                              *)

NotedInv ==
    /\ leftover \subseteq Noted
    /\ clearing # NoId => clearing \in Noted
    /\ \A thread \in Threads : {call[thread].id, call[thread].copy} \ {NoId} \subseteq Noted

ChargedInv == trx.pc \in {"respond", "tap"} /\ trx.answer = "00" => trx.id \in booked

PromiseInv == NotedInv /\ ChargedInv /\ crashes <= profile.crashes

\* What the promise sees of an update of a stored row.
LEMMA NotedMoves ==
    ASSUME TypeOK, NEW id \in Ids, NEW row \in Row, Transactions' = Updated(id, row),
           Transactions[id] # NoRow, row.kind = Transactions[id].kind
    PROVE  /\ Stored' = Stored /\ MovesMoney' = MovesMoney
           /\ row.reversal # "none" => Noted' = Noted \cup {id}
           /\ row.reversal = Transactions[id].reversal => Noted' = Noted
  <1>1. /\ Transactions' \in [Ids -> Row \cup {NoRow}]
        /\ \A t \in Ids \ {id} : Transactions'[t] = Transactions[t]
        /\ Transactions'[id] = row
        /\ \A t \in Ids : Transactions'[t] = NoRow <=> Transactions[t] = NoRow
    BY RowChange
  <1>2. Stored' = Stored
    BY <1>1 DEF Stored
  <1>3. MovesMoney' = MovesMoney
    <2>1. \A t \in Ids : Transactions'[t].kind = Transactions[t].kind
      BY <1>1
    <2>2. \A t \in Stored : t \in Ids
      BY DEF Stored
    <2> QED
      BY <1>2, <2>1, <2>2 DEF MovesMoney
  <1>4. row.reversal # "none" => Noted' = Noted \cup {id}
    BY <1>1 DEF Noted
  <1>5. row.reversal = Transactions[id].reversal => Noted' = Noted
    BY <1>1 DEF Noted
  <1> QED
    BY <1>2, <1>3, <1>4, <1>5

\* What the promise sees of a table that stays.
LEMMA NotedStays ==
    ASSUME Transactions' = Transactions
    PROVE  Stored' = Stored /\ MovesMoney' = MovesMoney /\ Noted' = Noted
  BY DEF Stored, MovesMoney, Noted

\* A step the promise does not see.
LEMMA PromiseStutters ==
    ASSUME UNCHANGED <<Stored, MovesMoney, InHand, Noted, booked, credited, undone, derailed,
                       crashes, profile>>
    PROVE  UNCHANGED Promise!topUpVars
  BY DEF Promise!topUpVars

\* The transaction thread has at most one transaction in hand.
LEMMA HandHolds ==
    ASSUME TypeOK
    PROVE  /\ trx.id = NoId => InHand = {}
           /\ trx.id # NoId => InHand = {trx.id} /\ trx.id \in Ids
           /\ trx'.id = NoId => InHand' = {}
           /\ trx'.id # NoId => InHand' = {trx'.id}
           /\ trx'.id = trx.id => InHand' = InHand
  <1>1. trx.id # NoId => trx.id \in Ids
    BY DEF TypeOK, TrxLocals
  <1> QED
    BY <1>1 DEF InHand

\* What was on record is on record still.
LEMMA NotedInvStays ==
    ASSUME NotedInv, Noted \subseteq Noted', UNCHANGED <<leftover, clearing, call>>
    PROVE  NotedInv'
  BY DEF NotedInv

\* performReversal is called for a row that is on record.
LEMMA NotedInvCall ==
    ASSUME TypeOK, NotedInv, Noted \subseteq Noted', UNCHANGED <<leftover, clearing>>,
           NEW thread \in Threads, NEW id \in Ids \cup {NoId}, id # NoId => id \in Noted',
           call' = [call EXCEPT ![thread] = Called(id)]
    PROVE  NotedInv'
  <1>1. /\ call'[thread].id = id /\ call'[thread].copy = NoId
        /\ \A other \in Threads \ {thread} : call'[other] = call[other]
    BY CallsTyped, CallChange
  <1> QED
    BY <1>1 DEF NotedInv

\* Between two rows the promise sees nothing.
LEMMA BetweenPromise ==
    ASSUME Inv, PromiseInv, SearchMove
    PROVE  PromiseInv' /\ UNCHANGED Promise!topUpVars
  <1> USE DEF PromiseInv
  <1>1. /\ UNCHANGED <<Transactions, call, clearing, leftover, outside, clears, crashes, profile>>
        /\ \/ trx' = trx
           \/ trx.id = NoId /\ trx'.id = NoId /\ trx'.pc \in Between \cup {"flag"}
    BY SearchMoves DEF Inv
  <1>2. NotedInv'
    BY <1>1, NotedStays, NotedInvStays
  <1>3. ChargedInv' /\ crashes' <= profile'.crashes
    BY <1>1 DEF ChargedInv, Between, outside
  <1>4. UNCHANGED <<InHand, booked, credited, undone, derailed, crashes, profile>>
    BY <1>1 DEF InHand, outside
  <1> QED
    BY <1>1, <1>2, <1>3, <1>4, NotedStays, PromiseStutters

\* The stored row is begun.
LEMMA InsertRowPromise ==
    ASSUME Inv, PromiseInv, NEW t \in Ids, InsertRow(t)
    PROVE  PromiseInv' /\ Promise!TopUpNext
  <1> USE DEF PromiseInv
  <1> DEFINE new == [kind |-> trx.kind, txn |-> "Pending", host |-> "Pending", code |-> "none",
                     reversal |-> "none", cleared |-> FALSE]
  <1>1. /\ UNCHANGED <<search, call, clearing, leftover, outside, bounds>>
        /\ t \in Ids \ Stored /\ trx.pc = "armed" /\ trx.id = NoId
        /\ Transactions' = [Transactions EXCEPT ![t] = new]
        /\ trx' = [trx EXCEPT !.pc = "send", !.id = t]
    BY DEF InsertRow, Inv, RoundInv, Between
  <1>2. trx'.pc = "send" /\ trx'.id = t
    BY <1>1 DEF Inv, TypeOK, TrxLocals
  <1>3. new \in Row /\ new.reversal = "none"
    BY DEF InsertRow, Row
  <1>4. /\ Transactions'[t] = new /\ \A r \in Ids \ {t} : Transactions'[r] = Transactions[r]
        /\ Transactions[t].reversal = "none"
    BY <1>1 DEF Inv, TypeOK, Stored, NoRow
  <1> HIDE DEF new
  <1>5. Stored' = Stored \cup {t}
    BY <1>1, <1>3, <1>4, NoRowNotRow DEF Stored
  <1>6. MovesMoney' \in {MovesMoney, MovesMoney \cup {t}}
    <2>1. \A r \in Stored : r \in Ids \ {t}
      BY <1>1 DEF Stored
    <2> QED
      BY <1>4, <1>5, <2>1 DEF MovesMoney
  <1>7. Noted' = Noted
    BY <1>3, <1>4 DEF Noted
  <1>8. InHand = {} /\ InHand' = {t}
    BY <1>1, <1>2, NoIdIsNone DEF InHand
  <1>9. NotedInv' /\ ChargedInv' /\ crashes' <= profile'.crashes
    BY <1>1, <1>2, <1>7, NotedInvStays DEF ChargedInv, bounds
  <1>10. Promise!Begin(t)
    BY <1>1, <1>5, <1>6, <1>7, <1>8 DEF Promise!Begin, outside, bounds
  <1> QED
    BY <1>9, <1>10 DEF Promise!TopUpNext

\* The host charges, or the card takes what is charged, or does not.
LEMMA AnswerPromise ==
    ASSUME Inv, PromiseInv,
           \/ \E answer \in Answers, books \in BOOLEAN : AskHost(answer, books)
           \/ CardTakes \/ CardDeclines
    PROVE  PromiseInv' /\ [Promise!TopUpNext]_Promise!topUpVars
  <1> USE DEF PromiseInv
  <1>1. /\ UNCHANGED <<Transactions, search, call, clearing, leftover, undone, bounds>>
        /\ trx.id \in Ids /\ trx.id # NoId /\ trx.pc \in {"send", "tap"}
    BY NoIdIsNone DEF AskHost, CardTakes, CardDeclines, Inv, RoundInv, Between, outside, TypeOK, TrxLocals
  <1>2. /\ UNCHANGED <<Stored, MovesMoney, Noted>> /\ NotedInv' /\ InHand = {trx.id}
        /\ crashes' <= profile'.crashes /\ UNCHANGED <<crashes, profile>>
    BY <1>1, NotedStays, NotedInvStays, HandHolds DEF Inv, bounds
  <1>3. CardMayTake => trx.id \notin Noted
    BY DEF Inv, UntouchedInv, Untouched, Noted
  <1>4. ASSUME NEW answer \in Answers, NEW books \in BOOLEAN, AskHost(answer, books)
        PROVE  PromiseInv' /\ [Promise!TopUpNext]_Promise!topUpVars
    <2>1. trx'.pc = "respond" /\ trx'.id = trx.id /\ trx'.answer = answer /\ trx.pc = "send"
      BY <1>4 DEF AskHost, Inv, TypeOK, TrxLocals
    <2>2. InHand' = InHand /\ credited' = credited
      BY <1>4, <2>1, HandHolds DEF AskHost, Inv
    <2>3. answer = "00" => books
      BY <1>4 DEF AskHost, MayBook
    <2>4. ChargedInv'
      <3>1. books => trx.id \in booked'
        BY <1>4 DEF AskHost
      <3> QED
        BY <2>1, <2>3, <3>1 DEF ChargedInv
    <2>5. CASE books
      <3>1. trx.id \notin booked /\ trx.id \notin Noted
        BY <1>3, <2>1 DEF Inv, OwedInv, CardMayTake
      <3>2. booked' = booked \cup {trx.id} /\ derailed' \in {derailed, derailed \cup {trx.id}}
        BY <1>4, <2>5 DEF AskHost
      <3>3. Promise!Charge(trx.id)
        BY <1>1, <1>2, <2>2, <3>1, <3>2 DEF Promise!Charge
      <3> QED
        BY <1>1, <1>2, <2>4, <3>3 DEF Promise!TopUpNext
    <2>6. CASE ~books
      <3>1. booked' = booked /\ derailed' = derailed
        BY <1>4, <2>6 DEF AskHost
      <3> QED
        BY <1>1, <1>2, <2>2, <2>4, <3>1, PromiseStutters
    <2> QED
      BY <2>5, <2>6
  <1>5. CASE CardTakes
    <2>1. trx'.pc = "approved" /\ trx'.id = trx.id
      BY <1>5, TrxMove DEF CardTakes, Inv
    <2>2. trx.id \in booked /\ trx.id \notin Noted
      BY <1>3, <1>5 DEF CardTakes, ChargedInv, CardMayTake
    <2>3. ChargedInv' /\ InHand' = InHand
      BY <2>1, HandHolds DEF ChargedInv, Inv
    <2>4. Promise!Load(trx.id)
      BY <1>1, <1>2, <1>5, <2>2, <2>3 DEF Promise!Load, CardTakes
    <2> QED
      BY <1>1, <1>2, <2>3, <2>4 DEF Promise!TopUpNext
  <1>6. CASE CardDeclines
    <2>1. trx'.pc = "declined" /\ trx'.id = trx.id /\ UNCHANGED outside
      BY <1>6, TrxMove DEF CardDeclines, Inv
    <2>2. ChargedInv' /\ InHand' = InHand
      BY <2>1, HandHolds DEF ChargedInv, Inv
    <2> QED
      BY <1>1, <1>2, <2>1, <2>2, PromiseStutters DEF outside
  <1> QED
    BY <1>4, <1>5, <1>6

\* A stored answer puts the row on record, or leaves it off it.
LEMMA StoreAnswerPromise ==
    ASSUME Inv, PromiseInv, StoreAnswer
    PROVE  PromiseInv' /\ [Promise!TopUpNext]_Promise!topUpVars
  <1> USE DEF PromiseInv
  <1> DEFINE row == Answered(Transactions[trx.id], trx.answer)
  <1>1. /\ trx.pc = "respond" /\ trx.id \in Ids /\ trx.id # NoId /\ trx.id \notin credited
        /\ Transactions[trx.id] \in Row /\ Transactions[trx.id] # NoRow
        /\ Transactions[trx.id].reversal = "none"
        /\ Transactions[trx.id].kind = trx.kind
        /\ UNCHANGED <<search, clearing, leftover, outside, bounds>>
    BY NoIdIsNone DEF StoreAnswer, Inv, RoundInv, Between, CardMayTake, UntouchedInv, Untouched,
                      TypeOK, TrxLocals
  <1>2. /\ row \in Row /\ row.kind = Transactions[trx.id].kind
        /\ row.reversal # "none" <=> NeedsReversal(trx.kind, trx.answer)
        /\ row.reversal \in {"none", "Pending"}
    BY <1>1 DEF Answered, Row, NeedsReversal
  <1>3. Transactions' = Updated(trx.id, row)
    BY DEF StoreAnswer
  <1> HIDE DEF row
  <1>4. /\ UNCHANGED <<Stored, MovesMoney>>
        /\ row.reversal # "none" => Noted' = Noted \cup {trx.id}
        /\ row.reversal = "none" => Noted' = Noted
    BY <1>1, <1>2, <1>3, NotedMoves DEF Inv
  <1>5. \/ trx' = [trx EXCEPT !.pc = "tap"] /\ call' = call
        \/ /\ trx' = [trx EXCEPT !.pc = "reverse", !.next = "tap"] /\ row.reversal # "none"
           /\ call' = [call EXCEPT !["transaction"] = Called(trx.id)]
    BY <1>2 DEF StoreAnswer
  <1>6. /\ trx'.id = trx.id /\ trx'.answer = trx.answer
        /\ trx'.pc \in {"tap", "reverse"}
    BY <1>5, TrxMove, TrxReverse DEF Inv
  <1>7. Noted \subseteq Noted' /\ InHand' = InHand /\ InHand = {trx.id}
    BY <1>1, <1>2, <1>4, <1>6, HandHolds DEF Inv
  <1>8. NotedInv'
    <2>1. row.reversal # "none" => trx.id \in Noted'
      BY <1>4
    <2> QED
      BY <1>1, <1>5, <1>7, <2>1, NotedInvStays, NotedInvCall DEF Inv, Threads
  <1>9. ChargedInv' /\ UNCHANGED <<crashes, profile>> /\ UNCHANGED <<booked, credited, undone, derailed>>
    BY <1>1, <1>6 DEF ChargedInv, outside, bounds
  <1>10. CASE row.reversal # "none"
    <2>1. Promise!Note(trx.id)
      BY <1>1, <1>4, <1>7, <1>9, <1>10 DEF Promise!Note
    <2> QED
      BY <1>1, <1>8, <1>9, <2>1 DEF Promise!TopUpNext
  <1>11. CASE row.reversal = "none"
    BY <1>4, <1>7, <1>8, <1>9, <1>11, PromiseStutters
  <1> QED
    BY <1>10, <1>11

\* A missing second tap puts the row on record.
LEMMA SecondTapNotPresentedPromise ==
    ASSUME Inv, PromiseInv, SecondTapNotPresented
    PROVE  PromiseInv' /\ Promise!TopUpNext
  <1> USE DEF PromiseInv
  <1> DEFINE row == [Transactions[trx.id] EXCEPT !.reversal = "Pending"]
  <1>1. /\ trx.pc = "tap" /\ trx.id \in Ids /\ trx.id # NoId /\ trx.id \notin credited
        /\ Transactions[trx.id] \in Row /\ Transactions[trx.id] # NoRow
        /\ UNCHANGED <<search, call, clearing, leftover, outside, bounds>>
    BY NoIdIsNone DEF SecondTapNotPresented, Inv, RoundInv, Between, TypeOK, TrxLocals
  <1>2. row \in Row /\ row.kind = Transactions[trx.id].kind /\ row.reversal = "Pending"
    BY <1>1 DEF Row
  <1>3. Transactions' = Updated(trx.id, row)
    BY DEF SecondTapNotPresented
  <1> HIDE DEF row
  <1>4. UNCHANGED <<Stored, MovesMoney>> /\ Noted' = Noted \cup {trx.id}
    BY <1>1, <1>2, <1>3, NotedMoves DEF Inv
  <1>5. trx'.id = trx.id /\ trx'.pc = "absent"
    BY TrxMove DEF SecondTapNotPresented, Inv
  <1>6. NotedInv' /\ InHand' = InHand /\ InHand = {trx.id}
    BY <1>1, <1>4, <1>5, NotedInvStays, HandHolds DEF Inv
  <1>7. ChargedInv' /\ UNCHANGED <<crashes, profile>> /\ UNCHANGED <<booked, credited, undone, derailed>>
    BY <1>1, <1>5 DEF ChargedInv, outside, bounds
  <1>8. Promise!Note(trx.id)
    BY <1>1, <1>4, <1>6, <1>7 DEF Promise!Note
  <1> QED
    BY <1>1, <1>6, <1>7, <1>8 DEF Promise!TopUpNext

\* The thread lets go of a transaction only if it is not owed, or is on record.
LEMMA LetsGo ==
    ASSUME Inv, Inv', trx.id # NoId, trx'.id = NoId,
           UNCHANGED <<Stored, MovesMoney, Noted, booked, credited, undone, derailed, crashes, profile>>
    PROVE  Promise!TopUpNext
  <1>1. trx.id \in Ids /\ InHand = {trx.id} /\ InHand' = {}
    BY HandHolds DEF Inv
  <1>2. ASSUME trx.id \in booked \cap MovesMoney, trx.id \notin credited \cup derailed
        PROVE  trx.id \in Noted
    <2>1. trx.id \in booked' \ (credited' \cup derailed') /\ trx.id \in MovesMoney'
      BY <1>2
    <2>2. trx.id \in Owed'
      BY <2>1 DEF Owed, MovesMoney
    <2>3. Transactions'[trx.id].reversal # "none"
      BY <1>1, <2>2, NoIdIsNone DEF Inv, OwedInv, OwedIsFlagged
    <2> QED
      BY <1>1, <2>3 DEF Noted
  <1>3. Promise!End(trx.id)
    BY <1>1, <1>2 DEF Promise!End
  <1> QED
    BY <1>1, <1>3 DEF Promise!TopUpNext

\* The status of the transaction is written, and the thread may let go of the row.
LEMMA WriteTxnStatusPromise ==
    ASSUME Inv, Inv', PromiseInv, WriteTxnStatus
    PROVE  PromiseInv' /\ [Promise!TopUpNext]_Promise!topUpVars
  <1> USE DEF PromiseInv
  <1> DEFINE row == [Transactions[trx.id] EXCEPT !.txn = StatusLeft]
  <1>1. /\ trx.id \in Ids /\ trx.id # NoId
        /\ Transactions[trx.id] \in Row /\ Transactions[trx.id] # NoRow
        /\ UNCHANGED <<search, call, clearing, leftover, outside, bounds>>
    BY WriteTxnStatusMoves
  <1>2. /\ row \in Row /\ row.kind = Transactions[trx.id].kind
        /\ row.reversal = Transactions[trx.id].reversal
    BY WriteTxnStatusMoves
  <1>3. Transactions' = Updated(trx.id, row)
    BY WriteTxnStatusMoves
  <1> HIDE DEF row
  <1>4. UNCHANGED <<Stored, MovesMoney, Noted>>
    BY <1>1, <1>2, <1>3, NotedMoves DEF Inv
  <1>5. /\ trx' = [trx EXCEPT !.pc = "flag"] => trx'.id = trx.id /\ trx'.pc = "flag"
        /\ trx' = Over => trx'.id = NoId /\ trx'.pc = "end"
        /\ trx' = [trx EXCEPT !.pc = "flag"] \/ trx' = Over
    BY TrxMove, TrxOver DEF WriteTxnStatus, Inv
  <1>6. NotedInv' /\ ChargedInv' /\ UNCHANGED <<crashes, profile>>
        /\ UNCHANGED <<booked, credited, undone, derailed>>
    BY <1>1, <1>4, <1>5, NotedInvStays DEF ChargedInv, outside, bounds
  <1>7. CASE trx'.id = trx.id
    BY <1>4, <1>6, <1>7, HandHolds, PromiseStutters DEF Inv
  <1>8. CASE trx'.id = NoId
    BY <1>1, <1>4, <1>6, <1>8, LetsGo
  <1> QED
    BY <1>5, <1>7, <1>8

\* The flag puts the row, if there is one, on record.
LEMMA FlagReversalPromise ==
    ASSUME Inv, PromiseInv, FlagReversal
    PROVE  PromiseInv' /\ [Promise!TopUpNext]_Promise!topUpVars
  <1> USE DEF PromiseInv
  <1>1. /\ trx.id \in Ids \cup {NoId} /\ trx.id \notin credited
        /\ UNCHANGED <<search, clearing, leftover, outside, bounds>>
        /\ call' = [call EXCEPT !["transaction"] = Called(trx.id)]
    BY DEF FlagReversal, Inv, RoundInv, TypeOK, TrxLocals
  <1>2. trx'.id = trx.id /\ trx'.pc = "reverse"
    <2>1. trx' = [trx EXCEPT !.pc = "reverse", !.next = "over"]
      BY DEF FlagReversal
    <2> QED
      BY <2>1, TrxReverse DEF Inv
  <1>3. ChargedInv' /\ UNCHANGED <<crashes, profile>> /\ UNCHANGED <<booked, credited, undone, derailed>>
    BY <1>1, <1>2 DEF ChargedInv, outside, bounds
  <1>4. InHand' = InHand
    BY <1>2, HandHolds DEF Inv
  <1>5. CASE trx.id = NoId
    <2>1. Transactions' = Transactions
      BY <1>5 DEF FlagReversal
    <2>2. UNCHANGED <<Stored, MovesMoney, Noted>>
      BY <2>1, NotedStays
    <2>3. NotedInv'
      BY <1>1, <1>5, <2>2, NotedInvCall DEF Inv, Threads
    <2> QED
      BY <1>3, <1>4, <2>2, <2>3, PromiseStutters
  <1>6. CASE trx.id # NoId
    <2> DEFINE row == [Transactions[trx.id] EXCEPT !.reversal = "Pending"]
    <2>1. Transactions[trx.id] \in Row /\ Transactions[trx.id] # NoRow
      BY <1>1, <1>6 DEF Inv, RoundInv, TypeOK
    <2>2. row \in Row /\ row.kind = Transactions[trx.id].kind /\ row.reversal = "Pending"
      BY <2>1 DEF Row
    <2>3. Transactions' = Updated(trx.id, row)
      BY <1>6 DEF FlagReversal
    <2> HIDE DEF row
    <2>4. UNCHANGED <<Stored, MovesMoney>> /\ Noted' = Noted \cup {trx.id}
      BY <1>1, <1>6, <2>1, <2>2, <2>3, NotedMoves DEF Inv
    <2>5. NotedInv'
      BY <1>1, <2>4, NotedInvCall DEF Inv, Threads
    <2>6. Promise!Note(trx.id)
      BY <1>1, <1>3, <1>4, <1>6, <2>4, HandHolds DEF Promise!Note, Inv
    <2> QED
      BY <1>1, <1>3, <1>6, <2>5, <2>6 DEF Promise!TopUpNext
  <1> QED
    BY <1>5, <1>6

\* performReversal has returned: the thread lets go of the row, or has none.
LEMMA ReversalReturnsPromise ==
    ASSUME Inv, Inv', PromiseInv, ReversalReturns
    PROVE  PromiseInv' /\ [Promise!TopUpNext]_Promise!topUpVars
  <1> USE DEF PromiseInv
  <1>1. /\ UNCHANGED <<Transactions, search, call, clearing, leftover, outside, bounds>>
        /\ trx.pc = "reverse"
    BY DEF ReversalReturns
  <1>2. UNCHANGED <<Stored, MovesMoney, Noted, booked, credited, undone, derailed, crashes, profile>>
    BY <1>1, NotedStays DEF outside, bounds
  <1>3. NotedInv' /\ crashes' <= profile'.crashes
    BY <1>1, <1>2, NotedInvStays
  <1>4. \/ trx'.id = trx.id /\ ChargedInv'
        \/ trx'.id = NoId /\ ChargedInv'
    <2>1. CASE trx' = Over
      BY <2>1, TrxOver DEF ChargedInv, Inv
    <2>2. CASE trx' = [trx EXCEPT !.pc = trx.next] /\ trx.next # "over"
      <3>1. trx.next = "tap" /\ trx.answer = "lost"
        BY <1>1, <2>2 DEF Inv, RoundInv
      <3>2. trx'.id = trx.id /\ trx'.answer = trx.answer
        BY <2>2, <3>1, TrxMove DEF Inv
      <3> QED
        BY <3>1, <3>2 DEF ChargedInv
    <2> QED
      BY <2>1, <2>2 DEF ReversalReturns
  <1>5. CASE trx'.id = trx.id
    BY <1>2, <1>3, <1>4, <1>5, HandHolds, PromiseStutters DEF Inv
  <1>6. CASE trx'.id = NoId /\ trx.id # NoId
    BY <1>2, <1>3, <1>4, <1>6, LetsGo
  <1> QED
    BY <1>4, <1>5, <1>6

\* performReversal begins with a row on record, or takes one up that is; the client
\* selects a row on record; nothing of it is seen.
LEMMA FindPendingPromise ==
    ASSUME Inv, PromiseInv, NEW t \in Ids, VerifyAndDoReversal(t) \/ ClearSelect(t)
    PROVE  PromiseInv' /\ UNCHANGED Promise!topUpVars
  <1> USE DEF PromiseInv
  <1>1. UNCHANGED <<Transactions, trx, leftover, outside, crashes, profile>> /\ t \in Noted
    BY DEF VerifyAndDoReversal, ClearSelect, bounds, FirstPending, PendingReversals, Noted
  <1>2. UNCHANGED <<Stored, MovesMoney, Noted, InHand>>
    BY <1>1, NotedStays DEF InHand
  <1>3. ChargedInv' /\ UNCHANGED <<booked, credited, undone, derailed>>
    BY <1>1 DEF ChargedInv, outside
  <1>4. CASE VerifyAndDoReversal(t)
    <2>1. NotedInv'
      BY <1>1, <1>2, <1>4, NotedInvCall DEF VerifyAndDoReversal, Inv, Threads
    <2> QED
      BY <1>1, <1>2, <1>3, <2>1, PromiseStutters
  <1>5. CASE ClearSelect(t)
    <2>1. NotedInv'
      BY <1>1, <1>2, <1>5 DEF ClearSelect, NotedInv
    <2> QED
      BY <1>1, <1>2, <1>3, <2>1, PromiseStutters
  <1> QED
    BY <1>4, <1>5

LEMMA ReadRowPromise ==
    ASSUME Inv, PromiseInv, NEW thread \in Threads, NEW copy \in Ids \cup {NoId},
           ReadRow(thread, copy)
    PROVE  PromiseInv' /\ UNCHANGED Promise!topUpVars
  <1> USE DEF PromiseInv
  <1>1. UNCHANGED <<Transactions, search, trx, clearing, outside, bounds>>
    BY DEF ReadRow
  <1>2. UNCHANGED <<Stored, MovesMoney, Noted, InHand>>
    BY <1>1, NotedStays DEF InHand
  <1>3. copy = NoId \/ copy \in Noted
    BY DEF ReadRow, NotedInv
  <1>4. leftover' \subseteq Noted
    BY <1>3 DEF ReadRow, NotedInv
  <1>5. /\ call'[thread].id = call[thread].id /\ call'[thread].copy = copy
        /\ \A other \in Threads \ {thread} : call'[other] = call[other]
    BY DEF ReadRow, Inv, TypeOK, CallLocals
  <1>6. NotedInv'
    BY <1>1, <1>2, <1>3, <1>4, <1>5 DEF NotedInv
  <1>7. ChargedInv' /\ UNCHANGED <<crashes, profile>> /\ UNCHANGED <<booked, credited, undone, derailed>>
    BY <1>1 DEF ChargedInv, outside, bounds
  <1> QED
    BY <1>2, <1>6, <1>7, PromiseStutters

\* A thread gives up its call.
LEMMA NotedInvReturn ==
    ASSUME TypeOK, NotedInv, Noted \subseteq Noted', UNCHANGED <<leftover>>,
           clearing' \in {clearing, NoId},
           \A thread \in Threads : /\ call'[thread].id \in {call[thread].id, NoId}
                                   /\ call'[thread].copy \in {call[thread].copy, NoId}
    PROVE  NotedInv'
  BY DEF NotedInv

\* Only what is on record is reversed, whatever copy the thread has.
LEMMA SendReversalPromise ==
    ASSUME Inv, PromiseInv, NEW thread \in Threads, NEW executed \in BOOLEAN,
           NEW answer \in {"00", "other"}, SendReversal(thread, executed, answer)
    PROVE  PromiseInv' /\ [Promise!TopUpNext]_Promise!topUpVars
  <1> USE DEF PromiseInv
  <1>1. UNCHANGED <<Transactions, search, trx, clearing, leftover, booked, credited, derailed, bounds>>
    BY DEF SendReversal
  <1>2. UNCHANGED <<Stored, MovesMoney, Noted, InHand>>
    BY <1>1, NotedStays DEF InHand
  <1>3. \A other \in Threads : /\ call'[other].id \in {call[other].id, NoId}
                               /\ call'[other].copy \in {call[other].copy, NoId}
    <2>1. CASE answer = "00"
      BY <2>1 DEF SendReversal, Inv, TypeOK, CallLocals
    <2>2. CASE answer # "00"
      <3>1. call' = [call EXCEPT ![thread] = NoCall]
        BY <2>2 DEF SendReversal
      <3> QED
        BY <3>1, CallsTyped DEF Inv, TypeOK
    <2> QED
      BY <2>1, <2>2
  <1>4. NotedInv'
    BY <1>1, <1>2, <1>3, NotedInvReturn DEF Inv
  <1>5. ChargedInv' /\ UNCHANGED <<crashes, profile>>
    BY <1>1 DEF ChargedInv, bounds
  <1>6. undone' = undone \/ (call[thread].copy # NoId /\ undone' = undone \cup {call[thread].copy})
    BY DEF SendReversal
  <1>7. CASE undone' = undone
    BY <1>1, <1>2, <1>4, <1>5, <1>7, PromiseStutters
  <1>8. CASE call[thread].copy # NoId /\ undone' = undone \cup {call[thread].copy}
    <2>1. call[thread].copy \in Noted /\ call[thread].copy \in Ids
      BY <1>8 DEF NotedInv, Noted
    <2>2. Promise!Refund(call[thread].copy)
      BY <1>1, <1>2, <1>5, <1>8, <2>1 DEF Promise!Refund
    <2> QED
      BY <1>4, <1>5, <2>1, <2>2 DEF Promise!TopUpNext
  <1> QED
    BY <1>6, <1>7, <1>8

\* Another reversal status of a row on record is not seen.
LEMMA WriteReversalPromise ==
    ASSUME Inv, PromiseInv, NEW thread \in Threads, WriteReversal(thread)
    PROVE  PromiseInv' /\ UNCHANGED Promise!topUpVars
  <1> USE DEF PromiseInv
  <1> DEFINE id == call[thread].id
             row == [Transactions[id] EXCEPT !.reversal = "Success", !.host = "Success",
                                             !.txn = StatusReversed(call[thread].txn)]
  <1>1. /\ UNCHANGED <<search, trx, clearing, leftover, outside, bounds>> /\ call[thread].pc = "write"
        /\ id \in Ids \cup {NoId} /\ call' = [call EXCEPT ![thread] = NoCall]
    BY DEF WriteReversal, Inv, TypeOK, CallLocals
  <1>2. UNCHANGED <<Stored, MovesMoney, Noted>>
    <2>1. CASE id = NoId
      BY <2>1, NotedStays DEF WriteReversal
    <2>2. CASE id # NoId
      <3>1. id \in Ids /\ id \in Noted /\ Transactions[id] \in Row /\ Transactions[id] # NoRow
        BY <1>1, <2>2 DEF NotedInv, Noted, Inv, TypeOK, NoRow
      <3>2. call[thread].txn \in {"Pending", "Failure"}
        BY <1>1, <2>2 DEF Inv, StatusInv, ReadStatusInv
      <3>3. row \in Row /\ row.kind = Transactions[id].kind /\ row.reversal = "Success"
        BY <3>1, <3>2 DEF Row, StatusReversed
      <3>4. Transactions' = Updated(id, row)
        BY <2>2 DEF WriteReversal
      <3> HIDE DEF row, id
      <3>5. UNCHANGED <<Stored, MovesMoney>> /\ Noted' = Noted \cup {id}
        BY <3>1, <3>3, <3>4, NotedMoves DEF Inv
      <3> QED
        BY <3>1, <3>5
    <2> QED
      BY <2>1, <2>2
  <1>3. \A other \in Threads : /\ call'[other].id \in {call[other].id, NoId}
                               /\ call'[other].copy \in {call[other].copy, NoId}
    BY <1>1, CallsTyped DEF Inv, TypeOK
  <1>4. NotedInv'
    BY <1>1, <1>2, <1>3, NotedInvReturn DEF Inv
  <1>5. /\ ChargedInv' /\ UNCHANGED <<crashes, profile>> /\ UNCHANGED <<InHand, booked, credited, undone, derailed>>
    BY <1>1 DEF ChargedInv, outside, bounds, InHand
  <1> QED
    BY <1>2, <1>4, <1>5, PromiseStutters

LEMMA ClearUpdatePromise ==
    ASSUME Inv, PromiseInv, ClearUpdate
    PROVE  PromiseInv' /\ UNCHANGED Promise!topUpVars
  <1> USE DEF PromiseInv
  <1> DEFINE row == [Transactions[clearing] EXCEPT !.reversal = "Failure", !.cleared = TRUE]
  <1>1. /\ UNCHANGED <<search, trx, call, leftover, outside, bounds>> /\ clearing' = NoId
        /\ clearing \in Ids /\ Transactions' = Updated(clearing, row) /\ clearing \in Noted
    BY DEF ClearUpdate, Inv, TypeOK, NotedInv
  <1>2. Transactions[clearing] \in Row /\ Transactions[clearing] # NoRow
    BY <1>1 DEF Noted, Inv, TypeOK, NoRow
  <1>3. row \in Row /\ row.kind = Transactions[clearing].kind /\ row.reversal = "Failure"
    BY <1>2 DEF Row
  <1> HIDE DEF row
  <1>4. UNCHANGED <<Stored, MovesMoney>> /\ Noted' = Noted \cup {clearing}
    BY <1>1, <1>2, <1>3, NotedMoves DEF Inv
  <1>5. NotedInv'
    BY <1>1, <1>4, NotedInvReturn DEF Inv
  <1>6. /\ ChargedInv' /\ UNCHANGED <<crashes, profile>> /\ UNCHANGED <<InHand, booked, credited, undone, derailed>>
    BY <1>1 DEF ChargedInv, outside, bounds, InHand
  <1> QED
    BY <1>1, <1>4, <1>5, <1>6, PromiseStutters

\* A kill is an incident that cuts the transaction in hand.
LEMMA RestartPromise ==
    ASSUME Inv, PromiseInv, Restart
    PROVE  PromiseInv' /\ Promise!TopUpNext
  <1> USE DEF PromiseInv
  <1>1. /\ UNCHANGED <<Transactions, booked, undone, credited, clears, profile>>
        /\ clearing' = NoId /\ leftover' = {} /\ crashes' = crashes + 1
        /\ crashes < profile.crashes
        /\ derailed' = IF trx.id = NoId THEN derailed ELSE derailed \cup {trx.id}
    BY DEF Restart
  <1>2. trx'.id = NoId /\ trx'.pc = "idle"
    BY DEF Restart, Idle
  <1>3. \A thread \in Threads : call'[thread].id = NoId /\ call'[thread].copy = NoId
    BY CallsTyped DEF Restart
  <1>4. UNCHANGED <<Stored, MovesMoney, Noted>>
    BY <1>1, NotedStays
  <1>5. NotedInv' /\ ChargedInv'
    BY <1>1, <1>2, <1>3 DEF NotedInv, ChargedInv
  <1>6. /\ crashes' <= profile'.crashes /\ profile.crashes - crashes > 0
        /\ profile'.crashes - crashes' = (profile.crashes - crashes) - 1
    <2>1. profile.crashes \in Nat /\ crashes \in Nat
      BY ProfilesAssumption DEF Inv, TypeOK, Profile
    <2> QED
      BY <1>1, <2>1
  <1>7. derailed' = derailed \cup InHand /\ InHand' = {}
    BY <1>1, <1>2, HandHolds DEF Inv
  <1>8. Promise!Incident
    BY <1>1, <1>4, <1>6, <1>7 DEF Promise!Incident
  <1> QED
    BY <1>5, <1>6, <1>8 DEF Promise!TopUpNext

LEMMA PromiseStep == Inv /\ Inv' /\ PromiseInv /\ [Next]_vars
                        => PromiseInv' /\ [Promise!TopUpNext]_Promise!topUpVars
  <1> SUFFICES ASSUME Inv, Inv', PromiseInv, [Next]_vars
               PROVE  PromiseInv' /\ [Promise!TopUpNext]_Promise!topUpVars
    OBVIOUS
  <1>1. CASE UNCHANGED vars
    <2>1. UNCHANGED <<Transactions, trx, call, clearing, leftover, outside, bounds>>
      BY <1>1 DEF vars
    <2>2. UNCHANGED <<Stored, MovesMoney, Noted, InHand>>
      BY <2>1, NotedStays DEF InHand
    <2>3. PromiseInv'
      BY <2>1, <2>2 DEF PromiseInv, NotedInv, ChargedInv, outside, bounds
    <2> QED
      BY <2>1, <2>2, <2>3, PromiseStutters DEF outside, bounds
  <1>2. ASSUME NEW thread \in Threads, CallStep(thread)
        PROVE  PromiseInv' /\ [Promise!TopUpNext]_Promise!topUpVars
    BY <1>2, ReadRowPromise, SendReversalPromise, WriteReversalPromise DEF CallStep
  <1>3. CASE RoundStep
    BY <1>3, AnswerPromise, StoreAnswerPromise, SecondTapNotPresentedPromise,
       WriteTxnStatusPromise, FlagReversalPromise, ReversalReturnsPromise DEF RoundStep
  <1>4. ASSUME NEW t \in Ids, InsertRow(t) \/ VerifyAndDoReversal(t) \/ ClearSelect(t)
        PROVE  PromiseInv' /\ [Promise!TopUpNext]_Promise!topUpVars
    BY <1>4, InsertRowPromise, FindPendingPromise
  <1>5. CASE SearchMove
    BY <1>5, BetweenPromise
  <1> QED
    BY <1>1, <1>2, <1>3, <1>4, <1>5, ClearUpdatePromise, RestartPromise DEF Next, SearchMove

LEMMA PromiseInit == Init => PromiseInv /\ Promise!TopUpInit
  <1> SUFFICES ASSUME Init PROVE PromiseInv /\ Promise!TopUpInit
    OBVIOUS
  <1>1. /\ Stored = {} /\ Noted = {} /\ MovesMoney = {}
    BY DEF Init, Stored, Noted, MovesMoney, NoRow
  <1>2. trx.id = NoId /\ trx.pc = "idle" /\ InHand = {}
    BY DEF Init, Idle, InHand
  <1>3. \A thread \in Threads : call[thread].id = NoId /\ call[thread].copy = NoId
    BY CallsTyped DEF Init
  <1>4. profile.crashes \in Nat
    BY ProfilesAssumption DEF Init, Profile
  <1>5. PromiseInv
    BY <1>1, <1>2, <1>3, <1>4 DEF Init, PromiseInv, NotedInv, ChargedInv
  <1>6. profile.crashes - crashes \in Nat
    BY <1>4 DEF Init
  <1> QED
    BY <1>1, <1>2, <1>5, <1>6 DEF Init, Promise!TopUpInit

\* Every step of the two threads, the client and a kill is a step of the promise, or none:
\* the cardholder's money is on the card, on record, or excused by a kill or by a host that
\* reports an error for what it books.
THEOREM OnlineImplementsTopUp == Safety => ImplementsTopUp
  <1>1. Inv /\ Inv' /\ PromiseInv /\ [Next]_vars
           => PromiseInv' /\ [Promise!TopUpNext]_Promise!topUpVars
    BY PromiseStep
  <1> QED
    BY <1>1, PromiseInit, ReversalInv, PTL DEF Safety, ImplementsTopUp, Promise!TopUpSpec

\* What the promise comes to, whoever keeps it: nothing is both on the card and reversed,
\* and what was charged and is out of hand is on the card, on record or excused.
THEOREM TopUpBalances == Promise!TopUpSpec => []Promise!Balanced
  <1> DEFINE BalanceInv == /\ Promise!Balanced
                           /\ undone \subseteq Noted /\ credited \cap Noted = {}
                           /\ \A t \in InHand : InHand = {t}
  <1>1. Promise!TopUpInit => BalanceInv
    BY DEF Promise!TopUpInit, Promise!Balanced
  <1>2. BalanceInv /\ [Promise!TopUpNext]_Promise!topUpVars => BalanceInv'
    <2> SUFFICES ASSUME BalanceInv, [Promise!TopUpNext]_Promise!topUpVars PROVE BalanceInv'
      OBVIOUS
    <2> USE DEF Promise!Balanced
    <2>1. ASSUME NEW t \in Ids, Promise!Begin(t) \/ Promise!Charge(t) \/ Promise!Load(t)
          PROVE  BalanceInv'
      <3>1. CASE Promise!Begin(t)
        <4>1. InHand = {} /\ InHand' = {t} /\ MovesMoney' \subseteq MovesMoney \cup {t}
              /\ UNCHANGED <<booked, credited, Noted, undone, derailed>>
          BY <3>1 DEF Promise!Begin
        <4> QED
          BY <4>1
      <3>2. CASE Promise!Charge(t)
        BY <3>2 DEF Promise!Charge
      <3>3. CASE Promise!Load(t)
        BY <3>3 DEF Promise!Load
      <3> QED
        BY <2>1, <3>1, <3>2, <3>3
    <2>2. ASSUME NEW t \in Ids, Promise!Note(t) \/ Promise!Refund(t)
          PROVE  BalanceInv'
      BY <2>2 DEF Promise!Note, Promise!Refund
    <2>3. ASSUME NEW t \in Ids, Promise!End(t)
          PROVE  BalanceInv'
      BY <2>3 DEF Promise!End
    <2>4. CASE Promise!Incident
      BY <2>4 DEF Promise!Incident
    <2>5. CASE UNCHANGED Promise!topUpVars
      BY <2>5 DEF Promise!topUpVars
    <2> QED
      BY <2>1, <2>2, <2>3, <2>4, <2>5 DEF Promise!TopUpNext
  <1>3. BalanceInv => Promise!Balanced
    OBVIOUS
  <1> QED
    BY <1>1, <1>2, <1>3, PTL DEF Promise!TopUpSpec

-----------------------------------------------------------------------------
(* What the data channel sees.  FetchChannels takes the steps of           *)
(* TransactionRows for the threads that make and reverse transactions;     *)
(* these are the steps this module takes.                                  *)

Table == INSTANCE TransactionRows

RowSeen(row) == [online |-> TRUE, txn |-> row.txn, host |-> row.host]

RowStep(t) ==
    \/ Transactions[t] = NoRow /\ RowSeen(Transactions'[t]) \in Table!NewRows
    \/ RowSeen(Transactions'[t]) = RowSeen(Transactions[t])
    \/ RowSeen(Transactions'[t]) \in Table!OnlineChanges(RowSeen(Transactions[t]))

RowsMove ==
    \/ UNCHANGED Transactions
    \/ \E t \in Ids : /\ \A r \in Ids \ {t} : Transactions'[r] = Transactions[r]
                      /\ RowStep(t)

\* One row at a time is made or changed, and only as TransactionRows says: in what the
\* data channel sees of a row no step undoes another, although two threads and a clear
\* write it.
OnlineRowsAsAssumed == [][RowsMove]_vars

\* Nobody but the thread that waits for the host's answer has to do with an unanswered row.
AnsweredInv ==
    /\ trx.pc \in {"send", "respond"} => Transactions[trx.id].host = "Pending"
    /\ \A t \in Ids : Transactions[t].host = "Pending" =>
          /\ Transactions[t].reversal = "none" /\ clearing # t
          /\ \A thread \in Threads : call[thread].id # t
          /\ trx.id = t => trx.pc \in {"send", "respond"}

\* The changes of a row, column by column.
LEMMA OnlineChangesAre ==
    ASSUME NEW online, NEW txn, NEW host, NEW to \in {"Success", "Failure"}
    PROVE  LET changes == Table!OnlineChanges([online |-> online, txn |-> txn, host |-> host])
           IN  /\ host = "Pending" => [online |-> online, txn |-> txn, host |-> to] \in changes
               /\ host # "Pending" /\ txn = "Pending"
                    => [online |-> online, txn |-> to, host |-> host] \in changes
               /\ host # "Pending" /\ txn \in {"Pending", "Failure"}
                    => [online |-> online, txn |-> "Failure", host |-> "Success"] \in changes
  <1> DEFINE row == [online |-> online, txn |-> txn, host |-> host]
             reversed == [row EXCEPT !.host = "Success"]
  <1>1. row.host = host /\ row.txn = txn
    OBVIOUS
  <1>2. [row EXCEPT !.host = to] = [online |-> online, txn |-> txn, host |-> to]
    OBVIOUS
  <1>3. [row EXCEPT !.txn = to] = [online |-> online, txn |-> to, host |-> host]
    OBVIOUS
  <1>4. [reversed EXCEPT !.txn = "Failure"]
          = [online |-> online, txn |-> "Failure", host |-> "Success"]
    <2>1. \A h, t : [[online |-> online, txn |-> txn, host |-> h] EXCEPT !.txn = t]
                       = [online |-> online, txn |-> t, host |-> h]
      OBVIOUS
    <2>2. [[online |-> online, txn |-> txn, host |-> "Success"] EXCEPT !.txn = "Failure"]
            = [online |-> online, txn |-> "Failure", host |-> "Success"]
      BY <2>1
    <2>3. \A h : [row EXCEPT !.host = h] = [online |-> online, txn |-> txn, host |-> h]
      OBVIOUS
    <2>4. reversed = [online |-> online, txn |-> txn, host |-> "Success"]
      BY <2>3
    <2>5. [reversed EXCEPT !.txn = "Failure"]
            = [[online |-> online, txn |-> txn, host |-> "Success"] EXCEPT !.txn = "Failure"]
      BY <2>4
    <2> QED
      BY <2>2, <2>5
  <1>5. /\ host = "Pending" => [row EXCEPT !.host = to] \in Table!OnlineChanges(row)
        /\ host # "Pending" /\ txn = "Pending"
             => [row EXCEPT !.txn = to] \in Table!OnlineChanges(row)
        /\ host # "Pending" /\ txn \in {"Pending", "Failure"}
             => [reversed EXCEPT !.txn = "Failure"] \in Table!OnlineChanges(row)
    <2>1. \A r : /\ r.host = "Pending" => [r EXCEPT !.host = to] \in Table!OnlineChanges(r)
                 /\ r.host # "Pending" /\ r.txn = "Pending"
                      => [r EXCEPT !.txn = to] \in Table!OnlineChanges(r)
                 /\ r.host # "Pending" /\ r.txn \in {"Pending", "Failure"}
                      => [[r EXCEPT !.host = "Success"] EXCEPT !.txn = "Failure"]
                            \in Table!OnlineChanges(r)
      BY DEF Table!OnlineChanges
    <2> HIDE DEF row
    <2> QED
      BY <1>1, <2>1
  <1> QED
    BY <1>2, <1>3, <1>4, <1>5

\* The row stays as it is.
LEMMA AnsweredStays ==
    ASSUME Inv, AnsweredInv, UNCHANGED Transactions,
           \/ trx'.id = NoId /\ trx'.pc \notin {"send", "respond"}
           \/ /\ trx'.id = trx.id
              /\ trx'.pc \in {"send", "respond"} <=> trx.pc \in {"send", "respond"},
           clearing' \in {clearing, NoId} \cup PendingReversals,
           \A thread \in Threads :
              call'[thread].id \in {call[thread].id, NoId} \cup PendingReversals
    PROVE  AnsweredInv'
  <1>1. \A t \in Ids : Transactions[t].host = "Pending" => t \notin {NoId} \cup PendingReversals
    BY NoIdIsNone DEF AnsweredInv, PendingReversals
  <1> QED
    BY <1>1 DEF AnsweredInv

\* A row that is answered, or was before, is written.
LEMMA AnsweredRow ==
    ASSUME Inv, AnsweredInv, NEW id \in Ids, Transactions[id] # NoRow, NEW row \in Row,
           Transactions' = Updated(id, row), row.host # "Pending",
           \/ trx' = trx /\ Transactions[id].host # "Pending"
           \/ trx'.id \in {id, NoId} /\ trx'.pc \notin {"send", "respond"},
           clearing' \in {clearing, NoId},
           \A thread \in Threads : call'[thread].id \in {call[thread].id, id, NoId}
    PROVE  AnsweredInv'
  <1>1. /\ \A t \in Ids \ {id} : Transactions'[t] = Transactions[t]
        /\ Transactions'[id] = row
    BY RowChange DEF Inv
  <1>2. trx.pc \in {"send", "respond"} => trx.id \in Ids
    BY DEF Inv, RoundInv, Between, TypeOK, TrxLocals
  <1> QED
    BY <1>1, <1>2, NoIdIsNone DEF AnsweredInv

LEMMA InsertRowSeen ==
    ASSUME Inv, AnsweredInv, NEW t \in Ids, InsertRow(t)
    PROVE  AnsweredInv' /\ RowsMove
  <1> USE DEF Inv
  <1> DEFINE new == [kind |-> trx.kind, txn |-> "Pending", host |-> "Pending", code |-> "none",
                     reversal |-> "none", cleared |-> FALSE]
  <1>1. /\ UNCHANGED <<search, call, clearing>> /\ Transactions[t] = NoRow
        /\ Transactions' = [Transactions EXCEPT ![t] = new]
        /\ trx' = [trx EXCEPT !.pc = "send", !.id = t] /\ trx.id = NoId
    BY DEF InsertRow, Stored, RoundInv, Between
  <1>2. trx'.pc = "send" /\ trx'.id = t
    BY <1>1 DEF TypeOK, TrxLocals
  <1>3. /\ Transactions'[t] = new
        /\ \A r \in Ids \ {t} : Transactions'[r] = Transactions[r]
    BY <1>1 DEF TypeOK
  <1>4. clearing # t /\ \A thread \in Threads : call[thread].id # t
    BY <1>1 DEF UntouchedInv, Untouched
  <1>5. /\ new.reversal = "none" /\ new.host = "Pending"
        /\ RowSeen(new) = [online |-> TRUE, txn |-> "Pending", host |-> "Pending"]
    BY DEF RowSeen
  <1> HIDE DEF new
  <1>6. AnsweredInv'
    BY <1>1, <1>2, <1>3, <1>4, <1>5 DEF AnsweredInv
  <1>7. RowSeen(Transactions'[t]) \in Table!NewRows
    BY <1>3, <1>5 DEF Table!NewRows
  <1> QED
    BY <1>1, <1>3, <1>6, <1>7 DEF RowsMove, RowStep

\* The thread's calls, as far as its row goes.
LEMMA CallsOwnRow ==
    ASSUME Inv, call' = call \/ call' = [call EXCEPT !["transaction"] = Called(trx.id)]
    PROVE  \A thread \in Threads : call'[thread].id \in {call[thread].id, trx.id, NoId}
  <1>1. trx.id \in Ids \cup {NoId} /\ "transaction" \in Threads
    BY DEF Inv, TypeOK, TrxLocals, Threads
  <1>2. CASE call' = [call EXCEPT !["transaction"] = Called(trx.id)]
    <2>1. /\ call'["transaction"].id = trx.id
          /\ \A other \in Threads \ {"transaction"} : call'[other] = call[other]
      BY <1>1, <1>2, CallsTyped, CallChange DEF Inv
    <2> QED
      BY <2>1
  <1> QED
    BY <1>2

LEMMA StoreAnswerSeen ==
    ASSUME Inv, AnsweredInv, StoreAnswer
    PROVE  AnsweredInv' /\ RowsMove
  <1> USE DEF Inv
  <1> DEFINE row == Answered(Transactions[trx.id], trx.answer)
  <1>1. /\ trx.pc = "respond" /\ trx.id \in Ids /\ Transactions[trx.id] \in Row
        /\ Transactions[trx.id] # NoRow /\ Transactions[trx.id].host = "Pending"
        /\ clearing' = clearing
    BY DEF StoreAnswer, RoundInv, Between, TypeOK, TrxLocals, AnsweredInv
  <1>2. /\ row \in Row /\ row.host \in {"Success", "Failure"}
        /\ row.txn = Transactions[trx.id].txn
    BY <1>1 DEF Answered, Row
  <1>3. trx'.pc \in {"tap", "reverse"} /\ trx'.id = trx.id
    BY DEF StoreAnswer, TypeOK, TrxLocals
  <1>4. Transactions' = Updated(trx.id, row)
    BY DEF StoreAnswer
  <1>5. \A thread \in Threads : call'[thread].id \in {call[thread].id, trx.id, NoId}
    BY CallsOwnRow DEF StoreAnswer
  <1> HIDE DEF row
  <1>6. AnsweredInv'
    BY <1>1, <1>2, <1>3, <1>4, <1>5, AnsweredRow
  <1>7. /\ Transactions'[trx.id] = row
        /\ \A r \in Ids \ {trx.id} : Transactions'[r] = Transactions[r]
    BY <1>1, <1>2, <1>4, RowChange
  <1>8. /\ RowSeen(row) = [online |-> TRUE, txn |-> row.txn, host |-> row.host]
        /\ RowSeen(Transactions[trx.id]) = [online |-> TRUE, txn |-> row.txn, host |-> "Pending"]
    BY <1>1, <1>2 DEF RowSeen
  <1>9. RowSeen(row) \in Table!OnlineChanges(RowSeen(Transactions[trx.id]))
    BY <1>2, <1>8, OnlineChangesAre
  <1> QED
    BY <1>1, <1>6, <1>7, <1>9 DEF RowsMove, RowStep

\* A step that writes the reversal columns of an answered row: what the data channel sees
\* of the row stays.
LEMMA SameSeen ==
    ASSUME Inv, AnsweredInv, NEW id \in Ids, Transactions[id] \in Row,
           Transactions[id].host # "Pending", NEW row \in Row, Transactions' = Updated(id, row),
           row.txn = Transactions[id].txn, row.host = Transactions[id].host,
           \/ trx' = trx
           \/ trx'.id \in {id, NoId} /\ trx'.pc \notin {"send", "respond"},
           clearing' \in {clearing, NoId},
           \A thread \in Threads : call'[thread].id \in {call[thread].id, id, NoId}
    PROVE  AnsweredInv' /\ RowsMove
  <1>1. Transactions[id] # NoRow
    BY NoRowNotRow
  <1>2. AnsweredInv'
    BY <1>1, AnsweredRow
  <1>3. /\ Transactions'[id] = row
        /\ \A r \in Ids \ {id} : Transactions'[r] = Transactions[r]
    BY <1>1, RowChange DEF Inv
  <1>4. RowSeen(row) = RowSeen(Transactions[id])
    BY DEF RowSeen
  <1> QED
    BY <1>2, <1>3, <1>4 DEF RowsMove, RowStep

LEMMA WriteTxnStatusSeen ==
    ASSUME Inv, AnsweredInv, WriteTxnStatus
    PROVE  AnsweredInv' /\ RowsMove
  <1> USE DEF Inv
  <1> DEFINE id == trx.id
             row == [Transactions[id] EXCEPT !.txn = StatusLeft]
             to == IF trx.pc = "approved" THEN "Success" ELSE "Failure"
  <1>1. /\ trx.pc \in {"approved", "declined", "absent"} /\ id \in Ids /\ id # NoId
        /\ Transactions[id] # NoRow /\ Transactions[id] \in Row
        /\ UNCHANGED <<clearing, call>> /\ Transactions' = Updated(id, row)
        /\ id \in credited <=> trx.pc = "approved"
    BY WriteTxnStatusMoves
  <1>2. Transactions[id].host \in {"Success", "Failure"}
    BY <1>1 DEF AnsweredInv, Row
  <1>3. /\ row \in Row /\ row.txn = StatusLeft /\ row.host = Transactions[id].host
        /\ to \in {"Success", "Failure"}
    BY WriteTxnStatusMoves
  <1>4. trx'.id \in {id, NoId} /\ trx'.pc \notin {"send", "respond"}
    <2>1. trx' = [trx EXCEPT !.pc = "flag"] \/ trx' = Over
      BY DEF WriteTxnStatus
    <2> QED
      BY <2>1, TrxMove, TrxOver
  <1>5. \/ StatusLeft = Transactions[id].txn
        \/ StatusLeft = to /\ Transactions[id].txn = "Pending"
    <2>1. trx.pc = "approved" => Transactions[id].txn = "Pending"
      BY DEF StatusInv, CardMayTake
    <2>2. trx.pc # "approved" => Transactions[id].txn # "Success"
      BY <1>1 DEF StatusInv
    <2>3. StatusLeft \in {Transactions[id].txn, to}
      BY DEF StatusLeft
    <2> QED
      BY <1>1, <2>1, <2>2, <2>3 DEF Row
  <1> HIDE DEF row, to, id
  <1>6. AnsweredInv'
    BY <1>1, <1>2, <1>3, <1>4, AnsweredRow
  <1>7. /\ Transactions'[id] = row
        /\ \A r \in Ids \ {id} : Transactions'[r] = Transactions[r]
    BY <1>1, <1>3, RowChange
  <1>8. /\ RowSeen(row) = [online |-> TRUE, txn |-> StatusLeft, host |-> Transactions[id].host]
        /\ RowSeen(Transactions[id])
             = [online |-> TRUE, txn |-> Transactions[id].txn, host |-> Transactions[id].host]
    BY <1>3 DEF RowSeen
  <1>9. RowStep(id)
    <2>1. CASE StatusLeft = to /\ Transactions[id].txn = "Pending"
      <3>1. RowSeen(row) \in Table!OnlineChanges(RowSeen(Transactions[id]))
        BY <1>2, <1>3, <1>8, <2>1, OnlineChangesAre
      <3> QED
        BY <1>7, <3>1 DEF RowStep
    <2>2. CASE StatusLeft = Transactions[id].txn
      BY <1>7, <1>8, <2>2 DEF RowStep
    <2> QED
      BY <1>5, <2>1, <2>2
  <1> QED
    BY <1>1, <1>6, <1>7, <1>9 DEF RowsMove

\* The flag, and no second tap.
LEMMA FlagSeen ==
    ASSUME Inv, AnsweredInv, FlagReversal \/ SecondTapNotPresented
    PROVE  AnsweredInv' /\ RowsMove
  <1> USE DEF Inv
  <1> DEFINE row == [Transactions[trx.id] EXCEPT !.reversal = "Pending"]
  <1>1. /\ trx.pc \in {"flag", "tap"} /\ clearing' = clearing
        /\ trx'.id = trx.id /\ trx'.pc \in {"reverse", "absent"}
        /\ trx.id \in Ids \cup {NoId}
        /\ \A thread \in Threads : call'[thread].id \in {call[thread].id, trx.id, NoId}
    BY CallsOwnRow DEF FlagReversal, SecondTapNotPresented, TypeOK, TrxLocals
  <1>2. CASE trx.id = NoId
    <2>1. Transactions' = Transactions
      BY <1>2 DEF FlagReversal, SecondTapNotPresented, RoundInv, Between
    <2>2. AnsweredInv'
      BY <1>1, <1>2, <2>1, AnsweredStays
    <2> QED
      BY <2>1, <2>2 DEF RowsMove
  <1>3. CASE trx.id # NoId
    <2>1. /\ trx.id \in Ids /\ Transactions[trx.id] \in Row
          /\ Transactions[trx.id].host # "Pending"
      BY <1>1, <1>3 DEF RoundInv, TypeOK, AnsweredInv
    <2>2. Transactions' = Updated(trx.id, row)
      BY <1>3 DEF FlagReversal, SecondTapNotPresented
    <2>3. /\ row \in Row /\ row.txn = Transactions[trx.id].txn
          /\ row.host = Transactions[trx.id].host
      BY <2>1 DEF Row
    <2> HIDE DEF row
    <2> QED
      BY <1>1, <2>1, <2>2, <2>3, SameSeen
  <1> QED
    BY <1>2, <1>3

LEMMA WriteReversalSeen ==
    ASSUME Inv, AnsweredInv, NEW thread \in Threads, WriteReversal(thread)
    PROVE  AnsweredInv' /\ RowsMove
  <1> USE DEF Inv
  <1> DEFINE id == call[thread].id
             row == [Transactions[id] EXCEPT !.reversal = "Success", !.host = "Success",
                                             !.txn = StatusReversed(call[thread].txn)]
  <1>1. /\ UNCHANGED <<trx, clearing>> /\ call[thread].pc = "write" /\ id \in Ids \cup {NoId}
        /\ \A other \in Threads : call'[other].id \in {call[other].id, NoId}
    <2>1. /\ NoCall \in CallLocals /\ call' = [call EXCEPT ![thread] = NoCall]
          /\ NoCall.id = NoId
      BY CallsTyped DEF WriteReversal
    <2>2. \A other \in Threads : call'[other] \in {call[other], NoCall}
      BY <2>1, CallChange
    <2> QED
      BY <2>1, <2>2 DEF WriteReversal, TypeOK, CallLocals
  <1>2. CASE id = NoId
    <2>1. Transactions' = Transactions
      BY <1>2 DEF WriteReversal
    <2>2. AnsweredInv'
      BY <1>1, <2>1, AnsweredStays
    <2> QED
      BY <2>1, <2>2 DEF RowsMove
  <1>3. CASE id # NoId
    <2>1. /\ id \in Ids /\ Transactions[id] # NoRow /\ Transactions[id] \in Row
          /\ Transactions[id].txn \in {"Pending", "Failure"}
      <3>1. id \in Ids /\ ~Untouched(id)
        BY <1>1, <1>3 DEF Untouched
      <3>2. Transactions[id] # NoRow /\ id \notin credited
        BY <3>1 DEF UntouchedInv
      <3> QED
        BY <3>1, <3>2 DEF StatusInv, TypeOK, Row
    <2>2. call[thread].txn \in {"Pending", "Failure"}
      BY <1>1, <1>3 DEF StatusInv, ReadStatusInv
    <2>3. Transactions[id].host \in {"Success", "Failure"}
      BY <2>1 DEF AnsweredInv, Row
    <2>4. row \in Row /\ row.txn = "Failure" /\ row.host = "Success"
      BY <2>1, <2>2 DEF Row, StatusReversed
    <2>5. Transactions' = Updated(id, row)
      BY <1>3 DEF WriteReversal
    <2> HIDE DEF row, id
    <2>6. AnsweredInv'
      BY <1>1, <2>1, <2>3, <2>4, <2>5, AnsweredRow
    <2>7. /\ Transactions'[id] = row
          /\ \A r \in Ids \ {id} : Transactions'[r] = Transactions[r]
      BY <2>1, <2>4, <2>5, RowChange
    <2>8. /\ RowSeen(row) = [online |-> TRUE, txn |-> "Failure", host |-> "Success"]
          /\ RowSeen(Transactions[id])
               = [online |-> TRUE, txn |-> Transactions[id].txn, host |-> Transactions[id].host]
      BY <2>4 DEF RowSeen
    <2>9. RowSeen(row) \in Table!OnlineChanges(RowSeen(Transactions[id]))
      <3>1. [online |-> TRUE, txn |-> "Failure", host |-> "Success"]
              \in Table!OnlineChanges([online |-> TRUE, txn |-> Transactions[id].txn,
                                       host |-> Transactions[id].host])
        BY <2>1, <2>3, OnlineChangesAre
      <3> QED
        BY <2>8, <3>1
    <2> QED
      BY <2>1, <2>6, <2>7, <2>9 DEF RowsMove, RowStep
  <1> QED
    BY <1>2, <1>3

LEMMA ClearUpdateSeen ==
    ASSUME Inv, AnsweredInv, ClearUpdate
    PROVE  AnsweredInv' /\ RowsMove
  <1> USE DEF Inv
  <1> DEFINE row == [Transactions[clearing] EXCEPT !.reversal = "Failure", !.cleared = TRUE]
  <1>1. /\ UNCHANGED <<trx, call>> /\ clearing' = NoId
        /\ clearing \in Ids /\ Transactions' = Updated(clearing, row)
    BY DEF ClearUpdate, TypeOK
  <1>2. Transactions[clearing] # NoRow /\ Transactions[clearing] \in Row
    BY <1>1 DEF UntouchedInv, Untouched, TypeOK
  <1>3. Transactions[clearing].host # "Pending"
    BY <1>1 DEF AnsweredInv
  <1>4. /\ row \in Row /\ row.txn = Transactions[clearing].txn
        /\ row.host = Transactions[clearing].host
    BY <1>2 DEF Row
  <1> HIDE DEF row
  <1> QED
    BY <1>1, <1>2, <1>3, <1>4, SameSeen

\* The steps that leave the table alone.
LEMMA SameTableSeen ==
    ASSUME Inv, AnsweredInv,
           \/ SearchMove
           \/ \E answer \in Answers, books \in BOOLEAN : AskHost(answer, books)
           \/ CardTakes \/ CardDeclines \/ ReversalReturns \/ Restart \/ UNCHANGED vars
    PROVE  AnsweredInv' /\ RowsMove
  <1> USE DEF Inv
  <1>1. CASE SearchMove
    <2>1. /\ UNCHANGED <<Transactions, call, clearing>>
          /\ \/ trx' = trx
             \/ trx'.id = NoId /\ trx'.pc \in Between \cup {"flag"}
      BY <1>1, SearchMoves
    <2> QED
      BY <2>1, AnsweredStays DEF RowsMove, Between
  <1>2. CASE Restart
    <2>1. Transactions' = Transactions /\ trx'.id = NoId /\ trx'.pc = "idle" /\ clearing' = NoId
      BY <1>2 DEF Restart, Idle
    <2>2. \A thread \in Threads : call'[thread].id = NoId
      BY <1>2, CallsTyped DEF Restart
    <2> QED
      BY <2>1, <2>2, AnsweredStays DEF RowsMove
  <1>3. CASE ~SearchMove /\ ~Restart
    <2>1. UNCHANGED <<Transactions, call, clearing>>
      BY <1>3 DEF AskHost, CardTakes, CardDeclines, ReversalReturns, vars
    <2>2. \/ trx'.id = NoId /\ trx'.pc \notin {"send", "respond"}
          \/ /\ trx'.id = trx.id
             /\ trx'.pc \in {"send", "respond"} <=> trx.pc \in {"send", "respond"}
      <3>1. CASE \/ \E answer \in Answers, books \in BOOLEAN : AskHost(answer, books)
                 \/ CardTakes \/ CardDeclines
        BY <3>1 DEF AskHost, CardTakes, CardDeclines, TypeOK, TrxLocals
      <3>2. CASE ReversalReturns
        <4>1. CASE trx' = Over
          BY <4>1, TrxOver
        <4>2. CASE trx' # Over
          <5>1. trx' = [trx EXCEPT !.pc = trx.next] /\ trx.next = "tap" /\ trx.pc = "reverse"
            BY <3>2, <4>2 DEF ReversalReturns, RoundInv
          <5> QED
            BY <5>1 DEF TypeOK, TrxLocals
        <4> QED
          BY <4>1, <4>2
      <3>3. CASE UNCHANGED vars
        BY <3>3 DEF vars
      <3> QED
        BY <1>3, <3>1, <3>2, <3>3
    <2> QED
      BY <2>1, <2>2, AnsweredStays DEF RowsMove
  <1> QED
    BY <1>1, <1>2, <1>3

\* performReversal up to the write, and the clear's select.
LEMMA CallsSeen ==
    ASSUME Inv, AnsweredInv, Transactions' = Transactions, trx' = trx,
           \/ \E t \in Ids : VerifyAndDoReversal(t) \/ ClearSelect(t)
           \/ \E thread \in Threads, copy \in Ids \cup {NoId} : ReadRow(thread, copy)
           \/ \E thread \in Threads, executed \in BOOLEAN, answer \in {"00", "other"} :
                 SendReversal(thread, executed, answer)
    PROVE  AnsweredInv' /\ RowsMove
  <1> USE DEF Inv
  <1>1. ASSUME NEW t \in Ids, VerifyAndDoReversal(t)
        PROVE  AnsweredInv'
    <2>1. /\ call'["reversal"].id = t /\ t \in PendingReversals /\ clearing' = clearing
          /\ \A other \in Threads \ {"reversal"} : call'[other] = call[other]
      BY <1>1, CallsTyped, CallChange DEF VerifyAndDoReversal, FirstPending, Threads
    <2> QED
      BY <2>1, AnsweredStays
  <1>2. ASSUME NEW t \in Ids, ClearSelect(t)
        PROVE  AnsweredInv'
    <2>1. call' = call /\ clearing' = t /\ t \in PendingReversals
      BY <1>2 DEF ClearSelect, FirstPending
    <2> QED
      BY <2>1, AnsweredStays
  <1>3. ASSUME NEW thread \in Threads, NEW copy \in Ids \cup {NoId}, ReadRow(thread, copy)
        PROVE  AnsweredInv'
    <2>1. \A other \in Threads : call'[other].id = call[other].id
      BY <1>3 DEF ReadRow, TypeOK, CallLocals
    <2>2. clearing' = clearing
      BY <1>3 DEF ReadRow
    <2> QED
      BY <2>1, <2>2, AnsweredStays
  <1>4. ASSUME NEW thread \in Threads, NEW executed \in BOOLEAN, NEW answer \in {"00", "other"},
               SendReversal(thread, executed, answer)
        PROVE  AnsweredInv'
    <2>1. \A other \in Threads : call'[other].id \in {call[other].id, NoId}
      <3> DEFINE local == IF answer = "00" THEN [call[thread] EXCEPT !.pc = "write"] ELSE NoCall
      <3>1. /\ call' = [call EXCEPT ![thread] = local] /\ local \in CallLocals
            /\ local.id \in {call[thread].id, NoId}
        <4>1. call[thread] \in CallLocals
          BY DEF TypeOK
        <4> QED
          BY <1>4, <4>1, CallsTyped DEF SendReversal, CallLocals
      <3> HIDE DEF local
      <3> QED
        BY <3>1, CallChange
    <2>2. clearing' = clearing
      BY <1>4 DEF SendReversal
    <2> QED
      BY <2>1, <2>2, AnsweredStays
  <1> QED
    BY <1>1, <1>2, <1>3, <1>4 DEF RowsMove

LEMMA SeenStep == Inv /\ AnsweredInv /\ [Next]_vars => AnsweredInv' /\ RowsMove
  <1> SUFFICES ASSUME Inv, AnsweredInv, [Next]_vars PROVE AnsweredInv' /\ RowsMove
    OBVIOUS
  <1>1. ASSUME NEW t \in Ids, VerifyAndDoReversal(t) \/ ClearSelect(t)
        PROVE  AnsweredInv' /\ RowsMove
    <2>1. UNCHANGED <<Transactions, trx>>
      BY <1>1 DEF VerifyAndDoReversal, ClearSelect
    <2> QED
      BY <1>1, <2>1, CallsSeen
  <1>2. ASSUME NEW thread \in Threads, CallStep(thread)
        PROVE  AnsweredInv' /\ RowsMove
    <2>1. CASE ~WriteReversal(thread)
      <3>1. UNCHANGED <<Transactions, trx>>
        BY <1>2, <2>1 DEF CallStep, ReadRow, SendReversal
      <3> QED
        BY <1>2, <2>1, <3>1, CallsSeen DEF CallStep
    <2> QED
      BY <2>1, WriteReversalSeen
  <1>3. CASE RoundStep
    BY <1>3, SameTableSeen, StoreAnswerSeen, WriteTxnStatusSeen, FlagSeen DEF RoundStep
  <1> QED
    BY <1>1, <1>2, <1>3, SameTableSeen, InsertRowSeen, ClearUpdateSeen DEF Next, SearchMove

\* The threads that make and reverse online transactions do to the rows what FetchChannels
\* takes them to do.
THEOREM OnlineRows == Safety => OnlineRowsAsAssumed
  <1>1. Init => AnsweredInv
    <2> SUFFICES ASSUME Init PROVE AnsweredInv
      OBVIOUS
    <2>1. trx.pc = "idle" /\ \A t \in Ids : Transactions[t].host = "none"
      BY DEF Init, Idle, NoRow
    <2> QED
      BY <2>1 DEF AnsweredInv
  <1>2. Inv /\ AnsweredInv /\ [Next]_vars => AnsweredInv' /\ [RowsMove]_vars
    BY SeenStep
  <1> QED
    BY <1>1, <1>2, ReversalInv, PTL DEF Safety, OnlineRowsAsAssumed
=============================================================================
