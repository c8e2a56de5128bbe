------------------------- MODULE SearchControl_proofs -------------------------
(***************************************************************************)
(* Theorems about SearchControl, for any number of cards and commands and  *)
(* any choice of the channels, the commands, the modes and the clients.    *)
(***************************************************************************)
EXTENDS SearchControl, TLAPS

-----------------------------------------------------------------------------
(* The types.  A handler has a mode until it has stored it.                *)

Typed(ch) == handler[ch].pc \in {"search", "searchMore", "mode"} => handler[ch].arg \in Modes

TypeInv == TypeOK /\ \A ch \in Channels : Typed(ch)

LEMMA TypesOfInit == Init => TypeInv
  <1> SUFFICES ASSUME Init PROVE TypeInv
    OBVIOUS
  <1>1. /\ Waiting \in TrxLocals /\ Free \in HandlerLocals /\ Free.pc = "free"
        /\ 0 \in Cards \cup {NoCard}
    BY DEF Waiting, TrxLocals, Free, HandlerLocals, HandlerPcs, NoCard
  <1>2. patient \in BOOLEAN
    BY SearchKinds DEF Init
  <1>3. /\ handler \in [Channels -> HandlerLocals]
        /\ \A ch \in Channels : handler[ch].pc = "free"
    BY <1>1 DEF Init
  <1> QED
    BY <1>1, <1>2, <1>3 DEF Init, TypeInv, Typed, TypeOK, NoCard

\* A step of a handler moves that handler, which keeps its locals until it is free.
LEMMA HandlerGoes ==
    ASSUME TypeOK, NEW ch \in Channels, NEW pc \in HandlerPcs, Goes(ch, pc)
    PROVE  /\ handler' \in [Channels -> HandlerLocals] /\ handler'[ch].pc = pc
           /\ pc # "free" => /\ handler'[ch].arg = handler[ch].arg
                             /\ handler'[ch].amount = handler[ch].amount
           /\ \A other \in Channels \ {ch} : handler'[other] = handler[other]
  <1>1. handler \in [Channels -> HandlerLocals]
    BY DEF TypeOK
  <1>2. CASE pc = "free"
    <2>1. Free \in HandlerLocals /\ Free.pc = "free" /\ handler' = [handler EXCEPT ![ch] = Free]
      BY <1>2 DEF Goes, Free, HandlerLocals
    <2> QED
      BY <1>1, <1>2, <2>1
  <1>3. CASE pc # "free"
    <2> DEFINE local == [handler[ch] EXCEPT !.pc = pc]
    <2>1. handler' = [handler EXCEPT ![ch] = local]
      BY <1>3 DEF Goes
    <2>2. /\ local \in HandlerLocals /\ local.pc = pc /\ local.arg = handler[ch].arg
          /\ local.amount = handler[ch].amount
      BY <1>1 DEF HandlerLocals
    <2> HIDE DEF local
    <2> QED
      BY <1>1, <1>3, <2>1, <2>2
  <1> QED
    BY <1>2, <1>3

\* What a step of a handler does: where it goes, and the variables it may write.
HandlerMoves(ch, pcs) ==
    /\ handler' \in [Channels -> HandlerLocals] /\ handler'[ch].pc \in pcs
    /\ handler'[ch].pc # "free" => /\ handler'[ch].arg = handler[ch].arg
                                   /\ handler'[ch].amount = handler[ch].amount
    /\ \A other \in Channels \ {ch} : handler'[other] = handler[other]

\* The tests write nothing.
Tests(ch) ==
    \/ CheckSearch(ch) \/ CheckSearchMore(ch) \/ CheckStop(ch) \/ CheckWrite(ch)
    \/ CheckConfig(ch) \/ CheckRecalc(ch) \/ RecalcFails(ch)

LEMMA TestMoves ==
    ASSUME TypeInv, NEW ch \in Channels, Tests(ch)
    PROVE  /\ UNCHANGED <<appStatus, flags, amounts, trx, trxData, cards, client, ghosts>>
           /\ \/ handler[ch].pc = "search" /\ HandlerMoves(ch, {"free", "searchMore"})
              \/ handler[ch].pc = "searchMore" /\ HandlerMoves(ch, {"free", "mode"})
              \/ /\ handler[ch].pc \in {"stop", "stopCardSearch"} /\ appStatus = "AWAIT_CARD"
                 /\ HandlerMoves(ch, {"stopCardSearch", "stopping"})
              \/ handler[ch].pc = "write" /\ HandlerMoves(ch, {"free", "amount"})
              \/ handler[ch].pc = "config" /\ HandlerMoves(ch, {"free", "save"})
              \/ /\ handler[ch].pc = "recalc" /\ appStatus = "READY"
                 /\ HandlerMoves(ch, {"recalcStart"})
              \/ handler[ch].pc # "free" /\ HandlerMoves(ch, {"free"})
  <1> USE DEF TypeInv, HandlerPcs, AllCommands
  <1>1. UNCHANGED <<appStatus, flags, amounts, trx, trxData, cards, client, ghosts>>
    BY DEF Tests, CheckSearch, CheckSearchMore, CheckStop, CheckWrite, CheckConfig, CheckRecalc,
           RecalcFails
  <1>2. ASSUME NEW pc \in HandlerPcs, Goes(ch, pc)
        PROVE  HandlerMoves(ch, {pc})
    BY <1>2, HandlerGoes DEF HandlerMoves
  <1>3. ASSUME NEW pcs, NEW pc \in pcs, HandlerMoves(ch, {pc})
        PROVE  HandlerMoves(ch, pcs)
    BY <1>3 DEF HandlerMoves
  <1>4. ASSUME CheckSearch(ch)
        PROVE  handler[ch].pc = "search" /\ HandlerMoves(ch, {"free", "searchMore"})
    BY <1>2, <1>3, <1>4 DEF CheckSearch
  <1>5. ASSUME CheckSearchMore(ch)
        PROVE  handler[ch].pc = "searchMore" /\ HandlerMoves(ch, {"free", "mode"})
    BY <1>2, <1>3, <1>5 DEF CheckSearchMore
  <1>6. ASSUME CheckStop(ch)
        PROVE  \/ /\ handler[ch].pc \in {"stop", "stopCardSearch"} /\ appStatus = "AWAIT_CARD"
                  /\ HandlerMoves(ch, {"stopCardSearch", "stopping"})
               \/ handler[ch].pc # "free" /\ HandlerMoves(ch, {"free"})
    BY <1>2, <1>3, <1>6 DEF CheckStop
  <1>7. ASSUME CheckWrite(ch)
        PROVE  handler[ch].pc = "write" /\ HandlerMoves(ch, {"free", "amount"})
    BY <1>2, <1>3, <1>7 DEF CheckWrite
  <1>8. ASSUME CheckConfig(ch)
        PROVE  handler[ch].pc = "config" /\ HandlerMoves(ch, {"free", "save"})
    BY <1>2, <1>3, <1>8 DEF CheckConfig
  <1>9. ASSUME CheckRecalc(ch)
        PROVE  \/ /\ handler[ch].pc = "recalc" /\ appStatus = "READY"
                  /\ HandlerMoves(ch, {"recalcStart"})
               \/ handler[ch].pc # "free" /\ HandlerMoves(ch, {"free"})
    BY <1>2, <1>9 DEF CheckRecalc, RecalcAllowed
  <1>10. ASSUME RecalcFails(ch)
         PROVE  handler[ch].pc # "free" /\ HandlerMoves(ch, {"free"})
    BY <1>2, <1>10 DEF RecalcFails
  <1> QED
    BY <1>1, <1>4, <1>5, <1>6, <1>7, <1>8, <1>9, <1>10 DEF Tests

\* The others write, each at its place.
LEMMA WriteMoves ==
    ASSUME TypeInv, NEW ch \in Channels
    PROVE  /\ SetMode(ch) => handler[ch].pc = "mode" /\ HandlerMoves(ch, {"run"})
           /\ RequestRound(ch) => handler[ch].pc = "run" /\ HandlerMoves(ch, {"free"})
           /\ SetStopping(ch) => handler[ch].pc = "stopping" /\ HandlerMoves(ch, {"cancel"})
           /\ CancelRequest(ch) => handler[ch].pc = "cancel" /\ HandlerMoves(ch, {"free"})
           /\ SetAmount(ch) => handler[ch].pc = "amount" /\ HandlerMoves(ch, {"flag"})
           /\ SetFlag(ch) => handler[ch].pc = "flag" /\ HandlerMoves(ch, {"free"})
           /\ SaveConfig(ch) => handler[ch].pc = "save" /\ HandlerMoves(ch, {"free"})
           /\ StartRecalc(ch) => /\ handler[ch].pc = "recalcStart"
                                 /\ HandlerMoves(ch, {"recalculating"})
           /\ RecalcRow(ch) => /\ handler[ch].pc \in {"recalculating", "recalcRows"}
                               /\ HandlerMoves(ch, {"recalcRows"})
           /\ EndRecalc(ch) => /\ handler[ch].pc \in {"recalculating", "recalcRows"}
                               /\ HandlerMoves(ch, {"free"})
  <1>1. ASSUME NEW pc \in HandlerPcs, Goes(ch, pc)
        PROVE  HandlerMoves(ch, {pc})
    BY <1>1, HandlerGoes DEF HandlerMoves, TypeInv
  <1> QED
    BY <1>1 DEF SetMode, RequestRound, SetStopping, CancelRequest, SetAmount, SetFlag, SaveConfig,
           StartRecalc, RecalcRow, EndRecalc, HandlerPcs

\* A message is received, or the client goes away.
LEMMA ReceiveMoves ==
    ASSUME TypeInv, NEW ch \in Channels, NEW cmd \in Commands, NEW arg \in Modes,
           Receive(ch, cmd, arg)
    PROVE  /\ handler' \in [Channels -> HandlerLocals]
           /\ handler'[ch].pc = cmd /\ handler'[ch].arg = arg
           /\ handler'[ch].amount = IF cmd = "write" THEN toAnswer ELSE NoCard
           /\ \A other \in Channels \ {ch} : handler'[other] = handler[other]
           /\ handler[ch].pc = "free" /\ isWriteCardCommand' = 0
  <1> DEFINE local == [pc |-> cmd, arg |-> arg,
                       amount |-> IF cmd = "write" THEN toAnswer ELSE NoCard]
  <1>1. local \in HandlerLocals
    BY SearchKinds DEF Receive, HandlerLocals, HandlerPcs, TypeInv, TypeOK
  <1>2. handler' = [handler EXCEPT ![ch] = local] /\ handler[ch].pc = "free"
        /\ isWriteCardCommand' = 0
    BY SearchKinds DEF Receive, FlagAfterMessage
  <1>3. handler \in [Channels -> HandlerLocals]
    BY DEF TypeInv, TypeOK
  <1>4. /\ local.pc = cmd /\ local.arg = arg
        /\ local.amount = IF cmd = "write" THEN toAnswer ELSE NoCard
    OBVIOUS
  <1> HIDE DEF local
  <1> QED
    BY <1>1, <1>2, <1>3, <1>4

LEMMA DisconnectMoves ==
    ASSUME TypeInv, NEW ch \in Channels, Disconnect(ch)
    PROVE  ch = "socket" /\ handler[ch].pc = "free" /\ HandlerMoves(ch, {"stopCardSearch"})
  <1> DEFINE local == [handler[ch] EXCEPT !.pc = "stopCardSearch"]
  <1>1. handler \in [Channels -> HandlerLocals]
    BY DEF TypeInv, TypeOK
  <1>2. handler' = [handler EXCEPT ![ch] = local] /\ ch = "socket" /\ handler[ch].pc = "free"
    BY DEF Disconnect
  <1>3. /\ local \in HandlerLocals /\ local.pc = "stopCardSearch"
        /\ local.arg = handler[ch].arg /\ local.amount = handler[ch].amount
    BY <1>1 DEF HandlerLocals, HandlerPcs
  <1> HIDE DEF local
  <1> QED
    BY <1>1, <1>2, <1>3 DEF HandlerMoves

\* The types of what the handlers write.
LEMMA HandlerTypes ==
    ASSUME TypeInv, NEW ch \in Channels, HandlerStep(ch) \/ RecalcRow(ch)
    PROVE  TypeInv'
  <1> USE DEF TypeInv
  <1>1. CASE Tests(ch)
    <2>1. UNCHANGED <<appStatus, flags, amounts, trx, trxData, cards, client, ghosts>>
          /\ handler' \in [Channels -> HandlerLocals]
      BY <1>1, TestMoves DEF HandlerMoves
    <2>2. TypeOK'
      BY <2>1 DEF TypeOK, flags, amounts, client, ghosts
    <2>3. \A other \in Channels \ {ch} : handler'[other] = handler[other]
      BY <1>1, TestMoves DEF HandlerMoves
    <2>4. Typed(ch)'
      BY <1>1, TestMoves DEF HandlerMoves, Typed
    <2> QED
      BY <2>2, <2>3, <2>4 DEF Typed
  <1>2. CASE ~Tests(ch)
    <2>1. \/ SetMode(ch) \/ RequestRound(ch) \/ SetStopping(ch) \/ CancelRequest(ch)
          \/ SetAmount(ch) \/ SetFlag(ch) \/ SaveConfig(ch) \/ StartRecalc(ch)
          \/ EndRecalc(ch) \/ RecalcRow(ch)
      BY <1>2 DEF HandlerStep, Tests
    <2>2. /\ handler' \in [Channels -> HandlerLocals]
          /\ \A other \in Channels \ {ch} : handler'[other] = handler[other]
          /\ handler'[ch].pc \in {"run", "free", "cancel", "flag", "recalculating", "recalcRows"}
      BY <2>1, WriteMoves DEF HandlerMoves
    <2>3. \A other \in Channels : Typed(other)'
      BY <2>2 DEF Typed
    <2>4. handler[ch].amount \in Cards \cup {NoCard}
      BY DEF TypeOK, HandlerLocals
    <2>5. ASSUME SetMode(ch) PROVE handler[ch].arg \in {"single", "loop"}
      BY <2>5, SearchKinds, WriteMoves DEF Typed
    <2> HIDE DEF TypeInv
    <2>6. /\ UNCHANGED <<DEVICE_STATUS, trx, cards, client>>
          /\ appStatus' \in {appStatus, "STOPPING_SEARCH", "RECALC_MAC", "READY"}
          /\ canRunTransaction' \in {canRunTransaction, TRUE, FALSE}
          /\ searchMode' \in {searchMode, "single", "loop"}
          /\ isWriteCardCommand' \in {isWriteCardCommand, 1}
          /\ writeCardAmount' \in {writeCardAmount, handler[ch].amount}
          /\ trxData' \in {trxData, "recalc"}
          /\ searchOpen' \in {searchOpen, TRUE, FALSE} /\ unasked' \in {unasked, 0}
      BY <2>1, <2>5 DEF SetMode, RequestRound, SetStopping, CancelRequest, SetAmount, SetFlag,
             FlagSet, SaveConfig, StartRecalc, EndRecalc, RecalcRow, flags, amounts, ghosts
    <2>7. TypeOK'
      <3>1. /\ appStatus' \in {"READY", "AWAIT_CARD", "CARD_PRESENTED", "STOPPING_SEARCH",
                               "RECALC_MAC"}
            /\ canRunTransaction' \in BOOLEAN /\ searchMode' \in {"single", "loop"}
            /\ isWriteCardCommand' \in {0, 1}
        BY <2>6 DEF TypeInv, TypeOK
      <3>2. writeCardAmount' \in Cards \cup {NoCard}
        BY <2>4, <2>6 DEF TypeInv, TypeOK
      <3>4. trxData' \in {"none", "round", "recalc"} /\ unasked' \in Nat
        BY <2>6 DEF TypeInv, TypeOK
      <3>5. searchOpen' \in BOOLEAN
        BY <2>6 DEF TypeInv, TypeOK
      <3>3. UNCHANGED <<DEVICE_STATUS, trx, cards, toAnswer, sent, patient>>
        BY <2>6 DEF client
      <3> QED
        BY <2>2, <3>1, <3>2, <3>3, <3>4, <3>5 DEF TypeInv, TypeOK
    <2> QED
      BY <2>3, <2>7 DEF TypeInv
  <1> QED
    BY <1>1, <1>2

\* The types of what the transaction thread writes.
LEMMA RoundTypes ==
    ASSUME TypeInv, RoundStep \/ PreprocessFails \/ CardPresented \/ DeviceOnline
    PROVE  TypeInv'
  <1> USE DEF TypeInv
  <1>1. handler' = handler /\ UNCHANGED <<searchMode, sent, patient>>
    BY DEF RoundStep, Poll, PollAgain, BeginRound, PreprocessFails, CardPresented, NoCardFound,
           SeeWriteCommand, WriteTimeout, TakeAmount, Complete, EndRequest, EndStatus,
           DeviceOnline, vars, flags, client
  <1>2. \A ch \in Channels : Typed(ch)'
    BY <1>1 DEF Typed
  <1>3. /\ Waiting \in TrxLocals /\ [Waiting EXCEPT !.pc = "reading"] \in TrxLocals
        /\ [Waiting EXCEPT !.pc = "next"] \in TrxLocals
        /\ \A pc \in {"arm", "reading", "wait", "take", "completed", "last", "poll", "ended"} :
              [trx EXCEPT !.pc = pc] \in TrxLocals
    BY DEF TypeOK, TrxLocals, Waiting
  <1>4. CASE PollAgain
    BY <1>1, <1>2, <1>4 DEF PollAgain, vars, flags, amounts, client, ghosts, TypeOK
  <1>5. CASE CardPresented
    <2>1. cards + 1 \in Cards /\ cards' = cards + 1
      BY <1>5, SearchBounds DEF CardPresented, TypeOK, Cards, NoCard
    <2>2. trx' \in TrxLocals
      BY <1>5, <2>1 DEF CardPresented, TypeOK, TrxLocals
    <2> QED
      BY <1>1, <1>2, <1>5, <2>1, <2>2 DEF CardPresented, TypeOK, flags, amounts, ghosts
  <1>6. CASE TakeAmount
    <2>1. trx' \in TrxLocals
      BY <1>6 DEF TakeAmount, TypeOK, TrxLocals
    <2> QED
      BY <1>1, <1>2, <1>6, <2>1 DEF TakeAmount, TypeOK, flags, client, ghosts
  <1>7. CASE BeginRound
    <2>1. trx' \in TrxLocals
      BY <1>3, <1>7 DEF BeginRound
    <2>2. /\ appStatus' = "AWAIT_CARD" /\ trxData' = "round"
          /\ UNCHANGED <<flags, amounts, handler, cards, client>>
      BY <1>7 DEF BeginRound, StatusOfRound
    <2>3. searchOpen' \in BOOLEAN
      BY <1>7 DEF BeginRound
    <2>4. unasked' \in Nat
      BY <1>7 DEF BeginRound, TypeOK
    <2>5. TypeOK'
      BY <2>1, <2>2, <2>3, <2>4 DEF TypeOK, flags, amounts, client
    <2> QED
      BY <1>2, <2>5
  <1>8. CASE \/ Poll \/ PreprocessFails \/ NoCardFound \/ SeeWriteCommand \/ WriteTimeout
    <2>1. trx' \in TrxLocals
      BY <1>3, <1>8 DEF Poll, PreprocessFails, NoCardFound, SeeWriteCommand, WriteTimeout
    <2>2. UNCHANGED <<appStatus, flags, amounts, handler, trxData, cards, client, ghosts>>
      BY <1>8 DEF Poll, PreprocessFails, NoCardFound, SeeWriteCommand, WriteTimeout
    <2>3. TypeOK'
      BY <2>1, <2>2 DEF TypeOK, flags, amounts, client, ghosts
    <2> QED
      BY <1>2, <2>3
  <1>9. CASE EndRequest \/ EndStatus
    <2>1. trx' \in TrxLocals
      BY <1>3, <1>9 DEF EndRequest, EndStatus, EndPhase, Then
    <2>2. /\ UNCHANGED <<searchMode, DEVICE_STATUS, amounts, handler, trxData, cards, client, ghosts>>
          /\ appStatus' \in {appStatus, "READY"}
      BY <1>9 DEF EndRequest, EndStatus, flags
    <2>3. canRunTransaction' \in BOOLEAN
      BY <1>9 DEF EndRequest, EndStatus, flags, TypeOK
    <2>4. TypeOK'
      BY <2>1, <2>2, <2>3 DEF TypeOK, amounts, client, ghosts
    <2> QED
      BY <1>2, <2>4
  <1>10. CASE DeviceOnline \/ \E status \in {"ONLINE", "OFFLINE"} : Complete(status)
    <2>1. trx' \in TrxLocals
      BY <1>3, <1>10 DEF DeviceOnline, Complete, TypeOK
    <2>2. /\ UNCHANGED <<appStatus, canRunTransaction, searchMode, amounts, handler, trxData, cards,
                         client, ghosts>>
          /\ DEVICE_STATUS' \in {DEVICE_STATUS, "ONLINE", "OFFLINE"}
      BY <1>10 DEF DeviceOnline, Complete
    <2> QED
      BY <1>2, <2>1, <2>2 DEF TypeOK, amounts, client, ghosts
  <1> QED
    BY <1>4, <1>5, <1>6, <1>7, <1>8, <1>9, <1>10 DEF RoundStep

\* The types of what the clients send.
LEMMA ClientTypes ==
    ASSUME TypeInv, NEW ch \in Channels,
           \/ \E cmd \in Commands, arg \in Modes : Receive(ch, cmd, arg)
           \/ Disconnect(ch)
    PROVE  TypeInv'
  <1> USE DEF TypeInv
  <1>1. ASSUME NEW cmd \in Commands, NEW arg \in Modes, Receive(ch, cmd, arg)
        PROVE  TypeInv'
    <2>1. /\ handler' \in [Channels -> HandlerLocals] /\ handler'[ch].arg = arg
          /\ \A other \in Channels \ {ch} : handler'[other] = handler[other]
          /\ isWriteCardCommand' = 0
      BY <1>1, ReceiveMoves
    <2>2. /\ UNCHANGED <<appStatus, flags, writeCardAmount, trx, trxData, cards, patient, ghosts>>
          /\ toAnswer' \in {NoCard, toAnswer} /\ sent' = sent + 1
      BY <1>1 DEF Receive
    <2>3. TypeOK'
      BY <2>1, <2>2 DEF TypeOK, flags, ghosts
    <2> QED
      BY <2>1, <2>3 DEF Typed
  <1>2. CASE Disconnect(ch)
    <2>1. HandlerMoves(ch, {"stopCardSearch"})
      BY <1>2, DisconnectMoves
    <2>2. UNCHANGED <<appStatus, flags, amounts, trx, trxData, cards, toAnswer, patient, ghosts>>
          /\ sent' = sent + 1
      BY <1>2 DEF Disconnect
    <2>3. TypeOK'
      BY <2>1, <2>2 DEF HandlerMoves, TypeOK, flags, amounts, ghosts
    <2> QED
      BY <2>1, <2>3 DEF HandlerMoves, Typed
  <1> QED
    BY <1>1, <1>2

LEMMA TypesOfStep == TypeInv /\ [Next]_vars => TypeInv'
  <1> SUFFICES ASSUME TypeInv, [Next]_vars PROVE TypeInv'
    OBVIOUS
  <1>1. CASE UNCHANGED vars
    BY <1>1 DEF TypeInv, TypeOK, Typed, vars, flags, amounts, client, ghosts
  <1> QED
    BY <1>1, RoundTypes, HandlerTypes, ClientTypes DEF Next

\* The statuses, flags and thread positions are those of the source.
THEOREM SearchTypeCorrect == Safety => []TypeOK
  <1>1. TypeInv => TypeOK
    BY DEF TypeInv
  <1> QED
    BY <1>1, TypesOfInit, TypesOfStep, PTL DEF Safety

-----------------------------------------------------------------------------
(* Rounds after a stop: only the search of a client requests one, and only *)
(* a requested round is armed.                                             *)

RequestInv ==
    /\ canRunTransaction => unasked = 0
    /\ trx.pc = "arm" => unasked = 0
    /\ unasked <= 1

\* The two assignments at the end of a round.
LEMMA EndMoves ==
    ASSUME TypeInv
    PROVE  /\ EndRequest => /\ trx.pc = "next" /\ trx'.pc \in {"last", "poll"}
                            /\ trx'.pc = "poll" => searchMode = "loop"
                            /\ trx'.amount # NoCard => trx'.amount = trx.amount /\ trx'.card = trx.card
           /\ EndStatus => /\ trx.pc = "last" /\ trx'.pc = "poll"
                           /\ trx'.amount = trx.amount /\ trx'.card = trx.card
  <1>1. trx \in TrxLocals /\ Waiting.pc = "poll" /\ Waiting.amount = NoCard
    BY DEF TypeInv, TypeOK, Waiting
  <1>2. EndPhase("canRun") = "next" /\ EndPhase("status") = "last" /\ Then("next") = "last"
        /\ Then("last") = "poll"
    BY DEF EndPhase, Then
  <1>3. ASSUME EndRequest
        PROVE  /\ trx.pc = "next"
               /\ \/ trx' = Waiting /\ searchMode = "loop"
                  \/ trx' = [trx EXCEPT !.pc = "last"]
    BY <1>2, <1>3 DEF EndRequest, GoesOn
  <1>4. ASSUME EndStatus
        PROVE  trx.pc = "last" /\ trx' = [trx EXCEPT !.pc = "poll"]
    BY <1>2, <1>4 DEF EndStatus
  <1> QED
    BY <1>1, <1>3, <1>4 DEF TrxLocals

LEMMA RequestStep ==
    ASSUME TypeInv, RequestInv, [Next]_vars
    PROVE  RequestInv'
  <1> USE DEF RequestInv
  <1>1. trx \in TrxLocals /\ unasked \in Nat
    BY DEF TypeInv, TypeOK
  <1>2. \A pc \in {"reading", "wait", "take", "completed", "next", "last", "poll", "ended"} :
           /\ [trx EXCEPT !.pc = pc].pc # "arm"
           /\ [Waiting EXCEPT !.pc = pc].pc # "arm"
    BY <1>1 DEF TrxLocals, Waiting
  <1>3. ASSUME UNCHANGED unasked, trx'.pc # "arm" \/ UNCHANGED trx,
               canRunTransaction' => canRunTransaction
        PROVE  RequestInv'
    BY <1>3
  <1>4. CASE Poll
    BY <1>4 DEF Poll, Requested, flags, ghosts
  <1>5. CASE BeginRound
    BY <1>1, <1>2, <1>5 DEF BeginRound, flags
  <1>6. CASE \/ PreprocessFails \/ CardPresented \/ NoCardFound \/ SeeWriteCommand
             \/ WriteTimeout \/ TakeAmount \/ \E status \in {"ONLINE", "OFFLINE"} : Complete(status)
    <2>1. UNCHANGED <<canRunTransaction, ghosts>>
      BY <1>6 DEF PreprocessFails, CardPresented, NoCardFound, SeeWriteCommand, WriteTimeout,
             TakeAmount, Complete, flags
    <2>2. trx'.pc # "arm"
      BY <1>1, <1>2, <1>6 DEF PreprocessFails, CardPresented, NoCardFound, SeeWriteCommand,
             WriteTimeout, TakeAmount, Complete, TrxLocals
    <2> QED
      BY <1>3, <2>1, <2>2 DEF ghosts
  <1>7. CASE EndRequest \/ EndStatus
    <2>1. UNCHANGED ghosts
      BY <1>7 DEF EndRequest, EndStatus
    <2>2. canRunTransaction' => canRunTransaction
      BY <1>7 DEF EndRequest, EndStatus, flags
    <2>3. trx'.pc # "arm"
      BY <1>7, EndMoves
    <2> QED
      BY <1>3, <2>1, <2>2, <2>3 DEF ghosts
  <1>8. CASE DeviceOnline \/ PollAgain \/ UNCHANGED vars
    BY <1>8 DEF DeviceOnline, PollAgain, vars, flags, ghosts
  <1>9. ASSUME NEW ch \in Channels, HandlerStep(ch) \/ RecalcRow(ch)
        PROVE  RequestInv'
    <2>1. CASE RequestRound(ch)
      BY <2>1 DEF RequestRound
    <2>2. CASE ~RequestRound(ch)
      BY <1>9, <2>2
         DEF HandlerStep, CheckSearch, CheckSearchMore, SetMode, CheckStop, SetStopping,
             CancelRequest, CheckWrite, SetAmount, SetFlag, CheckConfig, SaveConfig, CheckRecalc,
             StartRecalc, EndRecalc, RecalcFails, RecalcRow, flags, ghosts
    <2> QED
      BY <2>1, <2>2
  <1>10. ASSUME NEW ch \in Channels, NEW cmd \in Commands, NEW arg \in Modes, Receive(ch, cmd, arg)
         PROVE  RequestInv'
    BY <1>10 DEF Receive, flags, ghosts
  <1>11. ASSUME NEW ch \in Channels, Disconnect(ch)
         PROVE  RequestInv'
    BY <1>11 DEF Disconnect, flags, ghosts
  <1> QED
    BY <1>4, <1>5, <1>6, <1>7, <1>8, <1>9, <1>10, <1>11 DEF Next, RoundStep

\* Between two accepted searches at most one round begins that nobody has requested.
THEOREM StopHolds == Safety => []OneRoundAfterStop
  <1>1. Init => RequestInv
    BY DEF Init, RequestInv, Waiting
  <1>2. RequestInv => OneRoundAfterStop
    BY DEF RequestInv, OneRoundAfterStop
  <1>3. TypeInv /\ RequestInv /\ [Next]_vars => RequestInv'
    BY RequestStep
  <1> QED
    BY <1>1, <1>2, <1>3, TypesOfInit, TypesOfStep, PTL DEF Safety

-----------------------------------------------------------------------------
(* A patient client, that uses single searches on one channel: its search  *)
(* and its other commands never meet a round.                              *)

\* The handler is on its way to write the status, the request or the data of the round.
Arranging == {"search", "searchMore", "mode", "run", "config", "save", "recalcStart"}

Recalculating == {"recalculating", "recalcRows"}

Reading == {"reading", "wait", "take", "completed"}

\* The transaction thread has nothing to do.
Still == trx.pc = "poll" /\ ~canRunTransaction /\ ~searchOpen

HandlerTurn(ch) ==
    /\ ch # "socket" => handler[ch].pc = "free"
    /\ handler[ch].pc \in Arranging => appStatus = "READY" /\ Still
    /\ handler[ch].pc \in Recalculating => Still
    /\ handler[ch].pc \in {"recalc", "stopping", "cancel"} => ~searchOpen
    /\ handler[ch].pc \in {"search", "searchMore", "mode"} => handler[ch].arg = "single"

\* The transaction thread is armed by a search that is not served yet; the status is
\* not ready until the request of its round is cleared.
RoundTurn ==
    /\ searchMode = "single"
    /\ searchOpen => trx.pc \in {"poll", "arm"} /\ canRunTransaction /\ appStatus = "READY"
    /\ trx.pc = "arm" => searchOpen
    /\ trx.pc = "poll" /\ canRunTransaction => searchOpen
    /\ trx.pc = "last" => ~canRunTransaction
    /\ trx.pc \notin {"poll", "arm"} => appStatus # "READY"
    /\ trx.pc \in Reading => trxData = "round"

TurnInv == patient => RoundTurn /\ \A ch \in Channels : HandlerTurn(ch)

LEMMA TurnInit == Init => TurnInv
  BY DEF Init, TurnInv, RoundTurn, HandlerTurn, Waiting, Free, Arranging, Recalculating, Reading

\* A handler step of the patient client's; the others are free and stay it.
LEMMA OthersFree ==
    ASSUME TurnInv, patient, NEW ch \in Channels, handler[ch].pc # "free",
           NEW other \in Channels \ {ch}, handler'[other] = handler[other]
    PROVE  HandlerTurn(other)'
  <1>1. other # "socket" /\ handler[other].pc = "free"
    BY DEF TurnInv, HandlerTurn
  <1> QED
    BY <1>1 DEF HandlerTurn, Arranging, Recalculating

LEMMA TurnTests ==
    ASSUME TypeInv, TurnInv, patient, NEW ch \in Channels, Tests(ch)
    PROVE  TurnInv'
  <1>1. UNCHANGED <<appStatus, flags, amounts, trx, trxData, cards, client, ghosts>>
    BY TestMoves
  <1>2. RoundTurn'
    BY <1>1 DEF TurnInv, RoundTurn, flags, ghosts
  <1>3. handler[ch].pc # "free" /\ \A other \in Channels \ {ch} : handler'[other] = handler[other]
    BY TestMoves DEF HandlerMoves
  <1>4. RoundTurn /\ HandlerTurn(ch)
    BY DEF TurnInv
  <1>5. Still' = Still
    BY <1>1 DEF Still, flags, ghosts
  <1>6. UNCHANGED <<appStatus, searchOpen>>
    BY <1>1 DEF ghosts
  <1>7. HandlerTurn(ch)'
    <2>1. appStatus = "READY" /\ ~searchOpen => Still
      BY <1>4 DEF RoundTurn, Still, TypeInv, TypeOK, TrxLocals
    <2>2. /\ handler[ch].pc = "search" => handler'[ch].pc \in {"free", "searchMore"}
          /\ handler[ch].pc = "searchMore" => handler'[ch].pc \in {"free", "mode"}
          /\ handler'[ch].pc \in {"searchMore", "mode"} =>
                /\ handler[ch].pc \in {"search", "searchMore"}
                /\ handler'[ch].arg = handler[ch].arg
          /\ handler'[ch].pc = "save" => handler[ch].pc = "config"
          /\ handler'[ch].pc = "recalcStart" => handler[ch].pc = "recalc" /\ appStatus = "READY"
          /\ handler'[ch].pc = "stopping" => appStatus = "AWAIT_CARD"
          /\ handler'[ch].pc \in {"free", "searchMore", "mode", "stopCardSearch", "stopping",
                                  "amount", "save", "recalcStart"}
      BY TestMoves DEF HandlerMoves
    <2>3. ch # "socket" => handler'[ch].pc = "free"
      BY <1>3, <1>4 DEF HandlerTurn
    <2>4. handler'[ch].pc \in Arranging => appStatus = "READY" /\ Still
      BY <1>4, <2>1, <2>2 DEF HandlerTurn, Arranging
    <2>5. handler'[ch].pc \notin Recalculating
      BY <2>2 DEF Recalculating
    <2>6. handler'[ch].pc \in {"recalc", "stopping", "cancel"} => ~searchOpen
      BY <1>4, <2>2 DEF RoundTurn
    <2>7. handler'[ch].pc \in {"search", "searchMore", "mode"} => handler'[ch].arg = "single"
      BY <1>4, <2>2 DEF HandlerTurn
    <2> QED
      BY <1>5, <1>6, <2>3, <2>4, <2>5, <2>6, <2>7 DEF HandlerTurn
  <1> QED
    BY <1>2, <1>3, <1>7, OthersFree DEF TurnInv

\* What the handlers write does not meet a round.
LEMMA TurnWrites ==
    ASSUME TypeInv, TurnInv, patient, NEW ch \in Channels,
           \/ SetMode(ch) \/ RequestRound(ch) \/ SetStopping(ch) \/ CancelRequest(ch)
           \/ SetAmount(ch) \/ SetFlag(ch) \/ SaveConfig(ch) \/ StartRecalc(ch)
           \/ EndRecalc(ch) \/ RecalcRow(ch)
    PROVE  TurnInv'
  <1>1. RoundTurn /\ HandlerTurn(ch)
    BY DEF TurnInv
  <1>2. /\ handler[ch].pc # "free"
        /\ \A other \in Channels \ {ch} : handler'[other] = handler[other]
    BY WriteMoves DEF HandlerMoves
  <1>3. SUFFICES RoundTurn' /\ HandlerTurn(ch)'
    BY <1>2, OthersFree DEF TurnInv
  <1>4. ch = "socket"
    BY <1>1, <1>2 DEF HandlerTurn
  <1>5. CASE SetMode(ch)
    <2>1. handler[ch].pc = "mode" /\ handler'[ch].pc = "run"
      BY <1>5, WriteMoves DEF HandlerMoves
    <2>2. UNCHANGED <<appStatus, canRunTransaction, trx, trxData, searchOpen>>
          /\ searchMode' = handler[ch].arg
      BY <1>5 DEF SetMode, ghosts
    <2> QED
      BY <1>1, <1>4, <2>1, <2>2 DEF RoundTurn, HandlerTurn, Still, Arranging, Recalculating
  <1>6. CASE RequestRound(ch)
    <2>1. handler[ch].pc = "run" /\ handler'[ch].pc = "free"
      BY <1>6, WriteMoves DEF HandlerMoves
    <2>2. UNCHANGED <<appStatus, searchMode, trx, trxData>> /\ canRunTransaction' /\ searchOpen'
      BY <1>6 DEF RequestRound
    <2> QED
      BY <1>1, <1>4, <2>1, <2>2 DEF RoundTurn, HandlerTurn, Still, Arranging, Recalculating, Reading
  <1>7. CASE SetStopping(ch)
    <2>1. handler[ch].pc = "stopping" /\ handler'[ch].pc = "cancel"
      BY <1>7, WriteMoves DEF HandlerMoves
    <2>2. UNCHANGED <<canRunTransaction, searchMode, trx, trxData, searchOpen>>
          /\ appStatus' = "STOPPING_SEARCH"
      BY <1>7 DEF SetStopping, flags, ghosts
    <2> QED
      BY <1>1, <1>4, <2>1, <2>2 DEF RoundTurn, HandlerTurn, Arranging, Recalculating
  <1>8. CASE CancelRequest(ch)
    <2>1. handler[ch].pc = "cancel" /\ handler'[ch].pc = "free"
      BY <1>8, WriteMoves DEF HandlerMoves
    <2>2. UNCHANGED <<appStatus, searchMode, trx, trxData>> /\ ~canRunTransaction' /\ ~searchOpen'
      BY <1>8 DEF CancelRequest
    <2> QED
      BY <1>1, <1>4, <2>1, <2>2 DEF RoundTurn, HandlerTurn, Arranging, Recalculating
  <1>9. CASE SetAmount(ch) \/ SetFlag(ch)
    <2>1. handler'[ch].pc \in {"flag", "free"}
      BY <1>9, WriteMoves DEF HandlerMoves
    <2>2. UNCHANGED <<appStatus, canRunTransaction, searchMode, trx, trxData, searchOpen>>
      BY <1>9 DEF SetAmount, SetFlag, flags, ghosts
    <2> QED
      BY <1>1, <1>4, <2>1, <2>2 DEF RoundTurn, HandlerTurn, Arranging, Recalculating
  <1>10. CASE SaveConfig(ch) \/ EndRecalc(ch)
    <2>1. /\ handler[ch].pc \in Arranging \cup Recalculating /\ handler'[ch].pc = "free"
      BY <1>10, WriteMoves DEF HandlerMoves, Arranging, Recalculating
    <2>2. UNCHANGED <<canRunTransaction, searchMode, trx, trxData, searchOpen>>
          /\ appStatus' = "READY"
      BY <1>10 DEF SaveConfig, EndRecalc, flags, ghosts
    <2> QED
      BY <1>1, <1>4, <2>1, <2>2 DEF RoundTurn, HandlerTurn, Still, Arranging, Recalculating
  <1>11. CASE StartRecalc(ch)
    <2>1. handler[ch].pc \in Arranging /\ handler'[ch].pc = "recalculating"
      BY <1>11, WriteMoves DEF HandlerMoves, Arranging
    <2>2. UNCHANGED <<canRunTransaction, searchMode, trx, trxData, searchOpen>>
          /\ appStatus' = "RECALC_MAC"
      BY <1>11 DEF StartRecalc, flags, ghosts
    <2> QED
      BY <1>1, <1>4, <2>1, <2>2 DEF RoundTurn, HandlerTurn, Still, Arranging, Recalculating
  <1>12. CASE RecalcRow(ch)
    <2>1. handler[ch].pc \in Recalculating /\ handler'[ch].pc = "recalcRows"
      BY <1>12, WriteMoves DEF HandlerMoves, Recalculating
    <2>2. UNCHANGED <<appStatus, canRunTransaction, searchMode, trx, searchOpen>>
      BY <1>12 DEF RecalcRow, flags, ghosts
    <2> QED
      BY <1>1, <1>4, <2>1, <2>2 DEF RoundTurn, HandlerTurn, Still, Arranging, Recalculating, Reading
  <1> QED
    BY <1>5, <1>6, <1>7, <1>8, <1>9, <1>10, <1>11, <1>12

\* A step of the transaction thread: no handler is arranging anything, unless the thread
\* only looks.
LEMMA TurnRound ==
    ASSUME TypeInv, TurnInv, patient, RoundStep \/ PreprocessFails \/ CardPresented \/ DeviceOnline
    PROVE  TurnInv'
  <1>1. RoundTurn
    BY DEF TurnInv
  <1>2. handler' = handler /\ UNCHANGED searchMode
    BY DEF RoundStep, Poll, PollAgain, BeginRound, PreprocessFails, CardPresented, NoCardFound,
           SeeWriteCommand, WriteTimeout, TakeAmount, Complete, EndRequest, EndStatus,
           DeviceOnline, vars, flags
  <1>3. trx \in TrxLocals /\ Waiting \in TrxLocals
    BY DEF TypeInv, TypeOK, Waiting, TrxLocals
  <1>4. ASSUME ~Still, searchOpen' => searchOpen, RoundTurn'
        PROVE  TurnInv'
    <2>1. ASSUME NEW ch \in Channels PROVE HandlerTurn(ch)'
      BY <1>2, <1>4 DEF TurnInv, HandlerTurn
    <2> QED
      BY <1>4, <2>1 DEF TurnInv
  <1>5. ASSUME UNCHANGED <<appStatus, canRunTransaction, trx, trxData, searchOpen>>
        PROVE  TurnInv'
    <2>1. RoundTurn'
      BY <1>1, <1>2, <1>5 DEF RoundTurn
    <2>2. ASSUME NEW ch \in Channels PROVE HandlerTurn(ch)'
      BY <1>2, <1>5 DEF TurnInv, HandlerTurn, Still
    <2> QED
      BY <2>1, <2>2 DEF TurnInv
  <1>6. CASE DeviceOnline \/ PollAgain
    BY <1>5, <1>6 DEF DeviceOnline, PollAgain, vars, flags, ghosts
  <1>7. CASE Poll
    <2>1. ~Still /\ trx.pc = "poll" /\ canRunTransaction
      BY <1>7 DEF Poll, Requested, Still
    <2>2. UNCHANGED <<appStatus, canRunTransaction, searchOpen>> /\ trx'.pc = "arm"
      BY <1>3, <1>7 DEF Poll, TrxLocals, flags, ghosts
    <2> QED
      BY <1>1, <1>2, <1>4, <2>1, <2>2 DEF RoundTurn, Reading
  <1>8. CASE BeginRound
    <2>1. ~Still /\ trx.pc = "arm"
      BY <1>8 DEF BeginRound, Still
    <2>2. trx'.pc = "reading" /\ ~searchOpen' /\ appStatus' = "AWAIT_CARD" /\ trxData' = "round"
      BY <1>8 DEF BeginRound, StatusOfRound, Waiting
    <2> QED
      BY <1>1, <1>2, <1>4, <2>1, <2>2 DEF RoundTurn
  <1>9. CASE \/ PreprocessFails \/ CardPresented \/ NoCardFound \/ SeeWriteCommand
             \/ WriteTimeout \/ TakeAmount \/ \E status \in {"ONLINE", "OFFLINE"} : Complete(status)
    <2>1. trx.pc \in Reading /\ ~Still
      BY <1>9 DEF PreprocessFails, CardPresented, NoCardFound, SeeWriteCommand, WriteTimeout,
             TakeAmount, Complete, Reading, Still
    <2>2. trx'.pc \in {"ended", "wait", "completed", "take", "next"}
      BY <1>3, <1>9 DEF PreprocessFails, CardPresented, NoCardFound, SeeWriteCommand, WriteTimeout,
             TakeAmount, Complete, TrxLocals, Waiting
    <2>3. /\ UNCHANGED <<canRunTransaction, searchOpen, trxData>>
          /\ appStatus' \in {appStatus, "CARD_PRESENTED"}
      BY <1>9 DEF PreprocessFails, CardPresented, NoCardFound, SeeWriteCommand, WriteTimeout,
             TakeAmount, Complete, flags, ghosts
    <2> QED
      BY <1>1, <1>2, <1>4, <2>1, <2>2, <2>3 DEF RoundTurn, Reading
  <1>10. CASE EndRequest
    <2>1. trx.pc = "next" /\ trx'.pc = "last" /\ ~Still
      BY <1>1, <1>10, EndMoves DEF RoundTurn, Still
    <2>2. UNCHANGED <<appStatus, trxData, searchOpen>> /\ ~canRunTransaction'
      BY <1>1, <1>10 DEF EndRequest, RoundTurn, ghosts
    <2> QED
      BY <1>1, <1>2, <1>4, <2>1, <2>2 DEF RoundTurn, Reading
  <1>11. CASE EndStatus
    <2>1. trx.pc = "last" /\ trx'.pc = "poll" /\ ~Still
      BY <1>11, EndMoves DEF Still
    <2>2. UNCHANGED <<canRunTransaction, trxData, searchOpen>> /\ appStatus' = "READY"
      BY <1>11 DEF EndStatus, flags, ghosts
    <2> QED
      BY <1>1, <1>2, <1>4, <2>1, <2>2 DEF RoundTurn, Reading
  <1> QED
    BY <1>6, <1>7, <1>8, <1>9, <1>10, <1>11 DEF RoundStep

\* The client sends a search or a configuration only when the thread has nothing to do.
LEMMA TurnClient ==
    ASSUME TypeInv, TurnInv, patient, NEW ch \in Channels,
           \/ \E cmd \in Commands, arg \in Modes : Receive(ch, cmd, arg)
           \/ Disconnect(ch)
    PROVE  TurnInv'
  <1>1. RoundTurn
    BY DEF TurnInv
  <1>2. UNCHANGED <<appStatus, flags, trx, trxData, ghosts, patient>>
    BY DEF Receive, Disconnect
  <1>3. RoundTurn' /\ Still' = Still /\ UNCHANGED <<appStatus, searchOpen>>
    BY <1>1, <1>2 DEF RoundTurn, Still, flags, ghosts
  <1>4. \A other \in Channels \ {ch} : handler'[other] = handler[other]
    BY ReceiveMoves, DisconnectMoves DEF HandlerMoves
  <1>5. \A other \in Channels \ {ch} : HandlerTurn(other)'
    BY <1>3, <1>4 DEF TurnInv, HandlerTurn
  <1>6. ASSUME NEW cmd \in Commands, NEW arg \in Modes, Receive(ch, cmd, arg)
        PROVE  HandlerTurn(ch)'
    <2>1. /\ ch = "socket" /\ arg = "single"
          /\ cmd \in {"search", "config"} => appStatus = "READY"
          /\ cmd \in {"search", "config", "recalc"} => ~searchOpen
      BY <1>6 DEF Receive, MaySend
    <2>2. handler'[ch].pc = cmd /\ handler'[ch].arg = arg /\ cmd \in AllCommands
      BY <1>6, ReceiveMoves, SearchKinds
    <2>3. appStatus = "READY" /\ ~searchOpen => Still
      BY <1>1 DEF RoundTurn, Still
    <2> QED
      BY <1>3, <2>1, <2>2, <2>3 DEF HandlerTurn, Arranging, Recalculating, AllCommands
  <1>7. ASSUME Disconnect(ch)
        PROVE  HandlerTurn(ch)'
    <2>1. ch = "socket" /\ handler'[ch].pc = "stopCardSearch"
      BY <1>7, DisconnectMoves DEF HandlerMoves
    <2> QED
      BY <2>1 DEF HandlerTurn, Arranging, Recalculating
  <1> QED
    BY <1>3, <1>5, <1>6, <1>7 DEF TurnInv

\* Nobody changes what kind of client it is.
LEMMA PatientStays ==
    ASSUME [Next]_vars
    PROVE  UNCHANGED patient
  <1>1. CASE UNCHANGED vars
    BY <1>1 DEF vars, client
  <1>2. CASE RoundStep \/ PreprocessFails \/ CardPresented \/ DeviceOnline
    BY <1>2 DEF RoundStep, Poll, PollAgain, BeginRound, PreprocessFails, CardPresented,
           NoCardFound, SeeWriteCommand, WriteTimeout, TakeAmount, Complete, EndRequest,
           EndStatus, DeviceOnline, vars, client
  <1>3. ASSUME NEW ch \in Channels, HandlerStep(ch) \/ RecalcRow(ch)
        PROVE  UNCHANGED patient
    BY <1>3 DEF HandlerStep, CheckSearch, CheckSearchMore, SetMode, RequestRound, CheckStop,
           SetStopping, CancelRequest, CheckWrite, SetAmount, SetFlag, CheckConfig, SaveConfig,
           CheckRecalc, StartRecalc, EndRecalc, RecalcFails, RecalcRow, client
  <1>4. ASSUME NEW ch \in Channels,
               \/ \E cmd \in Commands, arg \in Modes : Receive(ch, cmd, arg)
               \/ Disconnect(ch)
        PROVE  UNCHANGED patient
    BY <1>4 DEF Receive, Disconnect
  <1> QED
    BY <1>1, <1>2, <1>3, <1>4 DEF Next

LEMMA TurnStep == TypeInv /\ TurnInv /\ [Next]_vars => TurnInv'
  <1> SUFFICES ASSUME TypeInv, TurnInv, [Next]_vars, patient' PROVE TurnInv'
    BY DEF TurnInv
  <1>1. UNCHANGED patient
    BY PatientStays
  <1>2. CASE UNCHANGED vars
    BY <1>2 DEF TurnInv, RoundTurn, HandlerTurn, Still, vars, flags, client, ghosts
  <1>3. ASSUME NEW ch \in Channels, HandlerStep(ch) \/ RecalcRow(ch)
        PROVE  TurnInv'
    BY <1>1, <1>3, TurnTests, TurnWrites DEF HandlerStep, Tests
  <1> QED
    BY <1>1, <1>2, <1>3, TurnRound, TurnClient DEF Next

\* The gate of search_card and recalc_mac is closed while the round may read a card.
THEOREM GateIsClosed == Safety => []ReadyMeansIdle
  <1>1. TypeInv /\ TurnInv => ReadyMeansIdle
    BY DEF TurnInv, RoundTurn, ReadyMeansIdle, TypeInv, TypeOK, TrxLocals
  <1> QED
    BY <1>1, TypesOfInit, TypesOfStep, TurnInit, TurnStep, PTL DEF Safety

\* recalc_mac stays out of the data of a round.
THEOREM RoundDataIsKept == Safety => []RoundKeepsItsData
  <1>1. TurnInv => RoundKeepsItsData
    BY DEF TurnInv, RoundTurn, Reading, RoundKeepsItsData
  <1> QED
    BY <1>1, TypesOfInit, TypesOfStep, TurnInit, TurnStep, PTL DEF Safety

-----------------------------------------------------------------------------
(* The amount on the card.  From the moment a search is on its way until   *)
(* its round has found a card, nothing is left of the amounts before.      *)

Searching == {"search", "searchMore", "mode", "run"}

Writing == {"write", "amount", "flag"}

Begun ==
    \/ trx.pc \in {"arm", "reading"} \/ searchOpen
    \/ \E ch \in Channels : handler[ch].pc \in Searching

Fresh ==
    /\ isWriteCardCommand = 0 /\ toAnswer = NoCard
    /\ \A ch \in Channels : handler[ch].pc \notin Writing

HandlerAmount(ch) ==
    /\ handler[ch].pc \in Writing => handler[ch].amount = cards
    /\ handler[ch].pc = "flag" => writeCardAmount = cards

RoundAmount ==
    /\ toAnswer \in {NoCard, cards}
    /\ isWriteCardCommand = 1 => writeCardAmount = cards
    /\ trx.pc = "take" => writeCardAmount = cards
    /\ trx.pc \in {"wait", "take"} => trx.card = cards
    /\ trx.amount # NoCard => trx.amount = trx.card
    /\ trx.pc = "reading" => trx.amount = NoCard

AmountInv ==
    patient => /\ RoundAmount /\ \A ch \in Channels : HandlerAmount(ch)
               /\ Begun => Fresh

LEMMA AmountInit == Init => AmountInv
  BY DEF Init, AmountInv, RoundAmount, HandlerAmount, Fresh, Waiting, Free, Writing

\* A step of the transaction thread that leaves the card and the handlers alone.
LEMMA AmountRound ==
    ASSUME TypeInv, TurnInv, AmountInv, patient, RoundStep \/ PreprocessFails \/ DeviceOnline
    PROVE  AmountInv'
  <1>1. RoundTurn /\ RoundAmount /\ (Begun => Fresh)
    BY DEF TurnInv, AmountInv
  <1>2. /\ UNCHANGED <<handler, cards, toAnswer, writeCardAmount>>
        /\ isWriteCardCommand' \in {0, isWriteCardCommand}
        /\ searchOpen' \in {FALSE, searchOpen}
    BY DEF RoundStep, Poll, PollAgain, BeginRound, PreprocessFails, NoCardFound,
           SeeWriteCommand, WriteTimeout, TakeAmount, Complete, EndRequest, EndStatus,
           DeviceOnline, vars, flags, client, amounts, ghosts
  <1>3. trx \in TrxLocals /\ Waiting.pc = "poll" /\ Waiting.amount = NoCard
        /\ Waiting \in TrxLocals
    BY DEF TypeInv, TypeOK, Waiting, TrxLocals, NoCard
  <1>4. \A ch \in Channels : HandlerAmount(ch)'
    BY <1>2 DEF AmountInv, HandlerAmount
  <1>5. \/ trx' = trx
        \/ Poll /\ trx' = [trx EXCEPT !.pc = "arm"]
        \/ trx.pc = "arm" /\ trx' = [Waiting EXCEPT !.pc = "reading"]
        \/ \E pc \in {"ended", "completed"} : trx' = [trx EXCEPT !.pc = pc]
        \/ trx.pc = "wait" /\ isWriteCardCommand = 1 /\ trx' = [trx EXCEPT !.pc = "take"]
        \/ trx.pc = "take" /\ trx' = [trx EXCEPT !.pc = "completed", !.amount = writeCardAmount]
        \/ trx' = [Waiting EXCEPT !.pc = "next"]
        \/ EndRequest \/ EndStatus
    BY DEF RoundStep, Poll, PollAgain, BeginRound, PreprocessFails, NoCardFound,
           SeeWriteCommand, WriteTimeout, TakeAmount, Complete, DeviceOnline, vars
  <1>6. trx'.pc \in {"arm", "reading"} => trx.pc \in {"arm", "reading"} \/ searchOpen
    <2>1. Poll => searchOpen
      BY <1>1 DEF Poll, Requested, RoundTurn
    <2> QED
      BY <1>3, <1>5, <2>1, EndMoves DEF TrxLocals
  <1>7. Begun' => Fresh'
    BY <1>1, <1>2, <1>6 DEF Begun, Fresh
  <1>8. /\ trx'.pc = "take" => writeCardAmount = cards
        /\ trx'.pc \in {"wait", "take"} => trx'.card = cards
        /\ trx'.amount # NoCard => trx'.amount = trx'.card
        /\ trx'.pc = "reading" => trx'.amount = NoCard
    BY <1>1, <1>3, <1>5, EndMoves DEF TrxLocals, RoundAmount
  <1>9. RoundAmount'
    BY <1>1, <1>2, <1>8 DEF RoundAmount
  <1> QED
    BY <1>4, <1>7, <1>9 DEF AmountInv

\* The next card finds nothing of the amounts before it.
LEMMA AmountCard ==
    ASSUME TypeInv, TurnInv, AmountInv, patient, CardPresented
    PROVE  AmountInv'
  <1>1. RoundTurn /\ RoundAmount /\ trx.pc = "reading" /\ trx \in TrxLocals
    BY DEF TurnInv, AmountInv, CardPresented, TypeInv, TypeOK
  <1>2. Fresh
    BY <1>1 DEF AmountInv, Begun
  <1>3. /\ cards' = cards + 1 /\ toAnswer' = cards + 1
        /\ trx' = [trx EXCEPT !.pc = "wait", !.card = cards + 1]
        /\ UNCHANGED <<handler, isWriteCardCommand, writeCardAmount, searchOpen>>
    BY DEF CardPresented, amounts, ghosts
  <1>4. trx'.pc = "wait" /\ trx'.card = cards' /\ trx'.amount = trx.amount
    BY <1>1, <1>3 DEF TrxLocals
  <1>5. trx.amount = NoCard
    BY <1>1 DEF RoundAmount
  <1>6. RoundAmount'
    BY <1>2, <1>3, <1>4, <1>5 DEF RoundAmount, Fresh
  <1>7. \A ch \in Channels : HandlerAmount(ch)'
    BY <1>2, <1>3 DEF HandlerAmount, Fresh, Writing
  <1>8. ~Begun'
    BY <1>1, <1>3, <1>4 DEF Begun, RoundTurn, TurnInv, HandlerTurn, Still, Searching, Arranging
  <1> QED
    BY <1>6, <1>7, <1>8 DEF AmountInv

\* The patient client's handler steps: its tests, and what it writes.
LEMMA AmountHandler ==
    ASSUME TypeInv, TurnInv, AmountInv, patient, NEW ch \in Channels,
           HandlerStep(ch) \/ RecalcRow(ch)
    PROVE  AmountInv'
  <1>1. RoundAmount /\ HandlerAmount(ch) /\ HandlerTurn(ch) /\ (Begun => Fresh)
    BY DEF TurnInv, AmountInv
  <1>2. UNCHANGED <<trx, cards, toAnswer>>
    BY DEF HandlerStep, CheckSearch, CheckSearchMore, SetMode, RequestRound, CheckStop,
           SetStopping, CancelRequest, CheckWrite, SetAmount, SetFlag, CheckConfig, SaveConfig,
           CheckRecalc, StartRecalc, EndRecalc, RecalcFails, RecalcRow, client
  <1>3. /\ handler[ch].pc # "free"
        /\ \A other \in Channels \ {ch} : handler'[other] = handler[other]
        /\ handler'[ch].pc # "free" => handler'[ch].amount = handler[ch].amount
    BY TestMoves, WriteMoves DEF HandlerStep, Tests, HandlerMoves
  <1>4. ch = "socket" /\ \A other \in Channels \ {ch} : handler[other].pc = "free"
    BY <1>1, <1>3 DEF HandlerTurn, TurnInv
  <1>5. CASE SetAmount(ch) \/ SetFlag(ch)
    <2>1. handler[ch].pc \in Writing
      BY <1>5 DEF SetAmount, SetFlag, Writing
    <2>2. ~Begun
      BY <1>1, <2>1 DEF Fresh
    <2>3. /\ handler'[ch].pc \in {"flag", "free"} /\ UNCHANGED searchOpen
          /\ handler'[ch].pc = "flag" => writeCardAmount' = cards
          /\ writeCardAmount' \in {writeCardAmount, cards}
          /\ isWriteCardCommand' = 1 => writeCardAmount' = cards
      BY <1>1, <1>5, <2>1, WriteMoves
         DEF HandlerMoves, SetAmount, SetFlag, HandlerAmount, RoundAmount, ghosts, Writing
    <2>4. ~Begun'
      BY <1>2, <1>3, <2>2, <2>3 DEF Begun, Searching
    <2>5. RoundAmount'
      BY <1>1, <1>2, <2>3 DEF RoundAmount
    <2>6. \A other \in Channels : HandlerAmount(other)'
      BY <1>1, <1>2, <1>3, <1>4, <2>1, <2>3 DEF HandlerAmount, Writing
    <2> QED
      BY <2>4, <2>5, <2>6 DEF AmountInv
  <1>6. CASE ~SetAmount(ch) /\ ~SetFlag(ch)
    <2>1. UNCHANGED amounts
      BY <1>6 DEF HandlerStep, CheckSearch, CheckSearchMore, SetMode, RequestRound, CheckStop,
             SetStopping, CancelRequest, CheckWrite, CheckConfig, SaveConfig, CheckRecalc,
             StartRecalc, EndRecalc, RecalcFails, RecalcRow
    <2>2. RoundAmount'
      BY <1>1, <1>2, <2>1 DEF RoundAmount, amounts
    <2>3. handler'[ch].pc \in Writing => handler'[ch].pc = "amount" /\ handler[ch].pc = "write"
      BY <1>6, TestMoves, WriteMoves DEF HandlerStep, Tests, HandlerMoves, Writing
    <2>4. handler'[ch].pc \in Searching => handler[ch].pc \in Searching
      BY <1>6, TestMoves, WriteMoves DEF HandlerStep, Tests, HandlerMoves, Searching
    <2>5. searchOpen' => searchOpen \/ handler[ch].pc \in Searching
      BY <1>6, WriteMoves DEF HandlerStep, CheckSearch, CheckSearchMore, SetMode, CheckStop,
             SetStopping, CancelRequest, CheckWrite, CheckConfig, SaveConfig, CheckRecalc,
             StartRecalc, EndRecalc, RecalcFails, RecalcRow, ghosts, Searching
    <2>6. Begun' => Begun
      BY <1>2, <1>3, <2>4, <2>5 DEF Begun
    <2>7. Fresh => Fresh'
      BY <1>2, <1>3, <2>1, <2>3 DEF Fresh, amounts, Writing
    <2>8. \A other \in Channels : HandlerAmount(other)'
      BY <1>1, <1>2, <1>3, <1>4, <2>3 DEF HandlerAmount, Writing
    <2> QED
      BY <1>1, <2>2, <2>6, <2>7, <2>8 DEF AmountInv
  <1> QED
    BY <1>5, <1>6

\* Every message drops what was not taken; a search ends the answers to its cards.
LEMMA AmountClient ==
    ASSUME TypeInv, TurnInv, AmountInv, patient, NEW ch \in Channels,
           \/ \E cmd \in Commands, arg \in Modes : Receive(ch, cmd, arg)
           \/ Disconnect(ch)
    PROVE  AmountInv'
  <1>1. RoundAmount /\ (Begun => Fresh)
    BY DEF AmountInv
  <1>2. UNCHANGED <<writeCardAmount, trx, cards, searchOpen>>
    BY DEF Receive, Disconnect, amounts, ghosts
  <1>3. ch = "socket" /\ \A other \in Channels \ {ch} :
                            handler'[other] = handler[other] /\ handler[other].pc = "free"
    <2>1. ch = "socket"
      BY DEF Receive, MaySend, Disconnect
    <2>2. \A other \in Channels \ {ch} : handler'[other] = handler[other]
      BY ReceiveMoves, DisconnectMoves DEF HandlerMoves
    <2> QED
      BY <2>1, <2>2 DEF TurnInv, HandlerTurn
  <1>4. ASSUME NEW cmd \in Commands, NEW arg \in Modes, Receive(ch, cmd, arg)
        PROVE  AmountInv'
    <2>1. /\ handler'[ch].pc = cmd /\ isWriteCardCommand' = 0
          /\ handler'[ch].amount = IF cmd = "write" THEN toAnswer ELSE NoCard
          /\ toAnswer' = IF cmd \in {"write", "search"} THEN NoCard ELSE toAnswer
          /\ cmd = "write" => toAnswer # NoCard
      BY <1>4, ReceiveMoves DEF Receive
    <2>2. cmd \in AllCommands
      BY SearchKinds
    <2>3. RoundAmount'
      BY <1>1, <1>2, <2>1 DEF RoundAmount
    <2>4. \A other \in Channels : HandlerAmount(other)'
      BY <1>1, <1>2, <1>3, <2>1, <2>2 DEF HandlerAmount, RoundAmount, Writing, AllCommands
    <2>5. CASE cmd = "search"
      BY <1>3, <2>1, <2>3, <2>4, <2>5 DEF AmountInv, Fresh, Writing
    <2>6. CASE cmd # "search"
      <3>1. Begun' => Begun
        BY <1>2, <1>3, <2>1, <2>2, <2>6 DEF Begun, Searching, AllCommands
      <3>2. Fresh => Fresh'
        BY <1>3, <2>1, <2>2 DEF Fresh, Writing, AllCommands
      <3> QED
        BY <1>1, <2>3, <2>4, <3>1, <3>2 DEF AmountInv
    <2> QED
      BY <2>5, <2>6
  <1>5. ASSUME Disconnect(ch)
        PROVE  AmountInv'
    <2>1. handler'[ch].pc = "stopCardSearch" /\ UNCHANGED <<isWriteCardCommand, toAnswer>>
      BY <1>5, DisconnectMoves DEF HandlerMoves, Disconnect, amounts
    <2>2. RoundAmount'
      BY <1>1, <1>2, <2>1 DEF RoundAmount
    <2>3. \A other \in Channels : HandlerAmount(other)'
      BY <1>2, <1>3, <2>1 DEF HandlerAmount, Writing
    <2>4. Begun' => Begun
      BY <1>2, <1>3, <2>1 DEF Begun, Searching
    <2>5. Fresh => Fresh'
      BY <1>3, <2>1 DEF Fresh, Writing
    <2> QED
      BY <1>1, <2>2, <2>3, <2>4, <2>5 DEF AmountInv
  <1> QED
    BY <1>4, <1>5

LEMMA AmountStep == TypeInv /\ TurnInv /\ AmountInv /\ [Next]_vars => AmountInv'
  <1> SUFFICES ASSUME TypeInv, TurnInv, AmountInv, [Next]_vars, patient' PROVE AmountInv'
    BY DEF AmountInv
  <1>1. patient
    BY PatientStays
  <1>2. CASE UNCHANGED vars
    BY <1>2 DEF AmountInv, RoundAmount, HandlerAmount, Begun, Fresh, vars, flags, amounts, client,
           ghosts
  <1> QED
    BY <1>1, <1>2, AmountRound, AmountCard, AmountHandler, AmountClient DEF Next

\* The amount taken in a round was sent for the card of this round.
THEOREM AmountGoesOnItsCard == Safety => []AmountIsForThisCard
  <1>1. AmountInv => AmountIsForThisCard
    BY DEF AmountInv, RoundAmount, AmountIsForThisCard
  <1> QED
    BY <1>1, TypesOfInit, TypesOfStep, TurnInit, TurnStep, AmountInit, AmountStep, PTL
       DEF Safety
=============================================================================
