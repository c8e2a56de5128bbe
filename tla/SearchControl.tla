---------------------------- MODULE SearchControl ----------------------------
(***************************************************************************)
(* The search for a card: the commands search_card, stop, write_card,      *)
(* set_config and recalc_mac, handled by one thread per channel, against   *)
(* the loop of the transaction thread.  They share appData.status,         *)
(* canRunTransaction, the search mode, the write-card flag and the         *)
(* transaction data, which the two sides guard with different mutexes or   *)
(* none, so that every test and every assignment is a step of its own.     *)
(*                                                                         *)
(* Cards are numbered in the order they are presented; an amount is the    *)
(* number of the card the client sent it for.  Keys are injected, terminal *)
(* and merchant ids are set, purchases wait for write_card.                *)
(***************************************************************************)
EXTENDS Integers

CONSTANTS
    Channels,       \* the channels with a client: "socket", "serial"
    Commands,       \* the commands the clients use
    Modes,          \* the search modes they use: "single", "loop"
    Patience,       \* the kinds of clients: TRUE for a patient one, see `patient`
    KernelMayFail,  \* whether the kernel's preprocessing may return an error
    MaxCards,       \* bound: how many cards are presented
    MaxCommands,    \* bound: how many commands impatient clients send
    MaxPatient      \* bound: how many commands a patient client sends

AllCommands == {"search", "stop", "write", "config", "recalc", "disconnect"}

ASSUME SearchBounds == MaxCards \in Nat /\ MaxCommands \in Nat /\ MaxPatient \in Nat
ASSUME SearchKinds ==
    /\ Channels \subseteq {"socket", "serial"}
    /\ Patience \subseteq BOOLEAN /\ KernelMayFail \in BOOLEAN
    /\ Commands \subseteq AllCommands /\ Modes \subseteq {"single", "loop"}

NoCard == 0
Cards == 1 .. MaxCards

VARIABLES
    appStatus,           \* appData.status
    canRunTransaction,   \* a search is requested
    searchMode,          \* appData.searchMode
    DEVICE_STATUS,       \* ONLINE or OFFLINE, see OfflineSales
    isWriteCardCommand,  \* 1: an amount was received
    writeCardAmount,     \* that amount
    trx,                 \* transaction thread: where it is, its card, the amount taken
    handler,             \* the handler thread of each channel
    trxData,             \* who wrote currentTxnData last: the round, or recalc_mac
    cards,               \* number of the last card presented
    toAnswer,            \* client: the card it has been told of and not answered
    sent,                \* commands sent so far
    patient,             \* one client, on the socket, that uses single searches, sees its
                         \* search begun before it sends recalc_mac, and the status ready
                         \* before it sends search_card or set_config
    searchOpen,          \* an accepted search that no round has served yet
    unasked              \* rounds begun since the last search although none was requested

flags == <<canRunTransaction, searchMode, DEVICE_STATUS>>
amounts == <<isWriteCardCommand, writeCardAmount>>
client == <<toAnswer, sent, patient>>
ghosts == <<searchOpen, unasked>>
vars == <<appStatus, flags, amounts, trx, handler, trxData, cards, client, ghosts>>

-----------------------------------------------------------------------------
(* The loop of processTransaction.                                         *)

Waiting == [pc |-> "poll", card |-> NoCard, amount |-> NoCard]

\* Mutation: a loop goes on although it was stopped.
RequestedOrLoop == searchMode = "loop" \/ canRunTransaction

Requested == canRunTransaction

\* The request and the device status are copied under the lock ...
Poll ==
    /\ trx.pc = "poll"
    /\ Requested /\ DEVICE_STATUS = "ONLINE"
    /\ trx' = [trx EXCEPT !.pc = "arm"]
    /\ UNCHANGED <<appStatus, flags, amounts, handler, trxData, cards, client, ghosts>>

\* Nothing is requested, or the device is offline: look again in 50 ms.
PollAgain ==
    /\ trx.pc = "poll" /\ ~(Requested /\ DEVICE_STATUS = "ONLINE")
    /\ UNCHANGED vars

\* Mutation: the round begins with the status as it is.
StatusOfRoundKept == appStatus

StatusOfRound == "AWAIT_CARD"

\* ... and the round begins without it.
BeginRound ==
    /\ trx.pc = "arm"
    /\ appStatus' = StatusOfRound
    /\ trx' = [Waiting EXCEPT !.pc = "reading"]
    /\ trxData' = "round"
    /\ searchOpen' = FALSE
    /\ unasked' = IF canRunTransaction THEN unasked ELSE unasked + 1
    /\ UNCHANGED <<flags, amounts, handler, cards, client>>

\* An error of the preprocessing breaks the loop: the thread ends as it is.
PreprocessFails ==
    /\ trx.pc = "reading" /\ KernelMayFail
    /\ trx' = [trx EXCEPT !.pc = "ended"]
    /\ UNCHANGED <<appStatus, flags, amounts, handler, trxData, cards, client, ghosts>>

\* The kernel finds a card: the status, then the message to the client.
CardPresented ==
    /\ trx.pc = "reading" /\ cards < MaxCards
    /\ cards' = cards + 1
    /\ appStatus' = "CARD_PRESENTED"
    /\ toAnswer' = cards + 1
    /\ trx' = [trx EXCEPT !.pc = "wait", !.card = cards + 1]
    /\ UNCHANGED <<flags, amounts, handler, trxData, sent, patient, ghosts>>

\* No card within the time, a card that is none of RuPay's, or an outcome of the
\* preprocessing.
NoCardFound ==
    /\ trx.pc = "reading"
    /\ trx' = [trx EXCEPT !.pc = "completed"]
    /\ UNCHANGED <<appStatus, flags, amounts, handler, trxData, cards, client, ghosts>>

SeeWriteCommand ==
    /\ trx.pc = "wait" /\ isWriteCardCommand = 1
    /\ trx' = [trx EXCEPT !.pc = "take"]
    /\ UNCHANGED <<appStatus, flags, amounts, handler, trxData, cards, client, ghosts>>

WriteTimeout ==
    /\ trx.pc = "wait" /\ isWriteCardCommand = 0
    /\ trx' = [trx EXCEPT !.pc = "completed"]
    /\ UNCHANGED <<appStatus, flags, amounts, handler, trxData, cards, client, ghosts>>

TakeAmount ==
    /\ trx.pc = "take"
    /\ isWriteCardCommand' = 0
    /\ trx' = [trx EXCEPT !.pc = "completed", !.amount = writeCardAmount]
    /\ UNCHANGED <<appStatus, flags, writeCardAmount, handler, trxData, cards, client, ghosts>>

\* handleTransactionCompletion: a stored sale may take the device offline.
Complete(status) ==
    /\ trx.pc = "completed"
    /\ status = "OFFLINE" => trx.amount # NoCard
    /\ DEVICE_STATUS' = IF status = "OFFLINE" THEN "OFFLINE" ELSE DEVICE_STATUS
    /\ trx' = [Waiting EXCEPT !.pc = "next"]
    /\ UNCHANGED <<appStatus, canRunTransaction, searchMode, amounts, handler, trxData, cards,
                   client, ghosts>>

\* The end of a round makes two assignments, in this order.
\* Mutation: the other order.
EndPhaseSwapped(assignment) == IF assignment = "status" THEN "next" ELSE "last"
EndPhase(assignment) == IF assignment = "canRun" THEN "next" ELSE "last"

Then(pc) == IF pc = "next" THEN "last" ELSE "poll"

GoesOn == searchMode = "loop" /\ canRunTransaction

\* A single search is over, a loop that was stopped is over, a loop goes on.
EndRequest ==
    /\ trx.pc = EndPhase("canRun")
    /\ canRunTransaction' = IF searchMode = "single" THEN FALSE ELSE canRunTransaction
    /\ trx' = IF GoesOn THEN Waiting ELSE [trx EXCEPT !.pc = Then(trx.pc)]
    /\ UNCHANGED <<appStatus, searchMode, DEVICE_STATUS, amounts, handler, trxData, cards,
                   client, ghosts>>

EndStatus ==
    /\ trx.pc = EndPhase("status")
    /\ appStatus' = "READY"
    /\ trx' = [trx EXCEPT !.pc = Then(trx.pc)]
    /\ UNCHANGED <<flags, amounts, handler, trxData, cards, client, ghosts>>

\* The host thread's acceptances, see DeviceRecovers of OfflineSales.
DeviceOnline ==
    /\ DEVICE_STATUS = "OFFLINE"
    /\ DEVICE_STATUS' = "ONLINE"
    /\ UNCHANGED <<appStatus, canRunTransaction, searchMode, amounts, trx, handler, trxData, cards,
                   client, ghosts>>

-----------------------------------------------------------------------------
(* handleClientMessage, one thread per channel.                            *)

Free == [pc |-> "free", arg |-> "none", amount |-> NoCard]

\* Mutation: only a write card resets the flag.
FlagAfterMessageKept(cmd) == IF cmd = "write" THEN 0 ELSE isWriteCardCommand

FlagAfterMessage(cmd) == IF cmd \in AllCommands THEN 0 ELSE isWriteCardCommand

MayCommand == sent < IF patient THEN MaxPatient ELSE MaxCommands

\* What a patient client sends and when.
MaySend(ch, cmd, arg) ==
    patient => /\ ch = "socket" /\ arg = "single"
               /\ cmd \in {"search", "config"} => appStatus = "READY"
               /\ cmd \in {"search", "config", "recalc"} => ~searchOpen

\* Every message drops the amount that was not taken.  A client answers a card
\* once, and not any more when it has sent its next search.
Receive(ch, cmd, arg) ==
    /\ handler[ch].pc = "free" /\ MayCommand
    /\ cmd # "disconnect"
    /\ cmd = "write" => toAnswer # NoCard
    /\ MaySend(ch, cmd, arg)
    /\ isWriteCardCommand' = FlagAfterMessage(cmd)
    /\ handler' = [handler EXCEPT ![ch] =
                      [pc |-> cmd, arg |-> arg,
                       amount |-> IF cmd = "write" THEN toAnswer ELSE NoCard]]
    /\ toAnswer' = IF cmd \in {"write", "search"} THEN NoCard ELSE toAnswer
    /\ sent' = sent + 1
    /\ UNCHANGED <<appStatus, flags, writeCardAmount, trx, trxData, cards, patient, ghosts>>

\* The socket's client goes away: stopCardSearch without a command.
Disconnect(ch) ==
    /\ ch = "socket" /\ handler[ch].pc = "free" /\ MayCommand
    /\ handler' = [handler EXCEPT ![ch].pc = "stopCardSearch"]
    /\ sent' = sent + 1
    /\ UNCHANGED <<appStatus, flags, amounts, trx, trxData, cards, toAnswer, patient, ghosts>>

Goes(ch, pc) == handler' = [handler EXCEPT ![ch] = IF pc = "free" THEN Free
                                                   ELSE [handler[ch] EXCEPT !.pc = pc]]

\* search_card is refused while the device recalculates, stops or searches, ...
CheckSearch(ch) ==
    /\ handler[ch].pc = "search"
    /\ Goes(ch, IF appStatus \in {"RECALC_MAC", "STOPPING_SEARCH", "AWAIT_CARD"}
                THEN "free" ELSE "searchMore")
    /\ UNCHANGED <<appStatus, flags, amounts, trx, trxData, cards, client, ghosts>>

\* ... has a card, by now searches, or is offline.
CheckSearchMore(ch) ==
    /\ handler[ch].pc = "searchMore"
    /\ Goes(ch, IF appStatus \in {"CARD_PRESENTED", "AWAIT_CARD"} \/ DEVICE_STATUS = "OFFLINE"
                THEN "free" ELSE "mode")
    /\ UNCHANGED <<appStatus, flags, amounts, trx, trxData, cards, client, ghosts>>

SetMode(ch) ==
    /\ handler[ch].pc = "mode"
    /\ searchMode' = handler[ch].arg
    /\ Goes(ch, "run")
    /\ UNCHANGED <<appStatus, canRunTransaction, DEVICE_STATUS, amounts, trx, trxData, cards, client, ghosts>>

RequestRound(ch) ==
    /\ handler[ch].pc = "run"
    /\ canRunTransaction' = TRUE
    /\ searchOpen' = TRUE /\ unasked' = 0
    /\ Goes(ch, "free")
    /\ UNCHANGED <<appStatus, searchMode, DEVICE_STATUS, amounts, trx, trxData, cards, client>>

\* stop, and stopCardSearch which tests the status once more.
CheckStop(ch) ==
    /\ handler[ch].pc \in {"stop", "stopCardSearch"}
    /\ Goes(ch, IF appStatus # "AWAIT_CARD" THEN "free"
                ELSE IF handler[ch].pc = "stop" THEN "stopCardSearch" ELSE "stopping")
    /\ UNCHANGED <<appStatus, flags, amounts, trx, trxData, cards, client, ghosts>>

SetStopping(ch) ==
    /\ handler[ch].pc = "stopping"
    /\ appStatus' = "STOPPING_SEARCH"
    /\ Goes(ch, "cancel")
    /\ UNCHANGED <<flags, amounts, trx, trxData, cards, client, ghosts>>

CancelRequest(ch) ==
    /\ handler[ch].pc = "cancel"
    /\ canRunTransaction' = FALSE /\ searchOpen' = FALSE
    /\ Goes(ch, "free")
    /\ UNCHANGED <<appStatus, searchMode, DEVICE_STATUS, amounts, trx, trxData, cards, client, unasked>>

\* write_card is refused unless a card is presented; the amount, then the flag.
CheckWrite(ch) ==
    /\ handler[ch].pc = "write"
    /\ Goes(ch, IF appStatus = "CARD_PRESENTED" /\ DEVICE_STATUS = "ONLINE"
                THEN "amount" ELSE "free")
    /\ UNCHANGED <<appStatus, flags, amounts, trx, trxData, cards, client, ghosts>>

SetAmount(ch) ==
    /\ handler[ch].pc = "amount"
    /\ writeCardAmount' = handler[ch].amount
    /\ Goes(ch, "flag")
    /\ UNCHANGED <<appStatus, flags, isWriteCardCommand, trx, trxData, cards, client, ghosts>>

\* Mutation: the flag is a counter.
FlagCounted == isWriteCardCommand + 1
FlagSet == 1

SetFlag(ch) ==
    /\ handler[ch].pc = "flag"
    /\ isWriteCardCommand' = FlagSet
    /\ Goes(ch, "free")
    /\ UNCHANGED <<appStatus, flags, writeCardAmount, trx, trxData, cards, client, ghosts>>

\* set_config is accepted in every other state than a recalculation and ends with
\* the status ready.
CheckConfig(ch) ==
    /\ handler[ch].pc = "config"
    /\ Goes(ch, IF appStatus = "RECALC_MAC" THEN "free" ELSE "save")
    /\ UNCHANGED <<appStatus, flags, amounts, trx, trxData, cards, client, ghosts>>

SaveConfig(ch) ==
    /\ handler[ch].pc = "save"
    /\ appStatus' = "READY"
    /\ Goes(ch, "free")
    /\ UNCHANGED <<flags, amounts, trx, trxData, cards, client, ghosts>>

\* Mutation: recalc_mac is refused only while a card is there.
RecalcAllowedUnlessCard == appStatus \notin {"CARD_PRESENTED", "RECALC_MAC"}

RecalcAllowed == appStatus = "READY"

CheckRecalc(ch) ==
    /\ handler[ch].pc = "recalc"
    /\ Goes(ch, IF RecalcAllowed THEN "recalcStart" ELSE "free")
    /\ UNCHANGED <<appStatus, flags, amounts, trx, trxData, cards, client, ghosts>>

StartRecalc(ch) ==
    /\ handler[ch].pc = "recalcStart"
    /\ appStatus' = "RECALC_MAC"
    /\ Goes(ch, "recalculating")
    /\ UNCHANGED <<flags, amounts, trx, trxData, cards, client, ghosts>>

\* Each pending row is copied into currentTxnData.
RecalcRow(ch) ==
    /\ handler[ch].pc \in {"recalculating", "recalcRows"}
    /\ trxData' = "recalc"
    /\ Goes(ch, "recalcRows")
    /\ UNCHANGED <<appStatus, flags, amounts, trx, cards, client, ghosts>>

EndRecalc(ch) ==
    /\ handler[ch].pc \in {"recalculating", "recalcRows"}
    /\ appStatus' = "READY"
    /\ Goes(ch, "free")
    /\ UNCHANGED <<flags, amounts, trx, trxData, cards, client, ghosts>>

\* The select is refused: the handler returns and leaves the status as it is.
RecalcFails(ch) ==
    /\ handler[ch].pc = "recalculating"
    /\ Goes(ch, "free")
    /\ UNCHANGED <<appStatus, flags, amounts, trx, trxData, cards, client, ghosts>>

Init ==
    /\ appStatus = "READY" /\ canRunTransaction = FALSE /\ searchMode = "single"
    /\ DEVICE_STATUS = "ONLINE"
    /\ isWriteCardCommand = 0 /\ writeCardAmount = NoCard
    /\ trx = Waiting /\ trxData = "none"
    /\ patient \in Patience
    /\ handler = [ch \in Channels |-> Free]
    /\ cards = 0 /\ toAnswer = NoCard /\ sent = 0
    /\ searchOpen = FALSE /\ unasked = 0

HandlerStep(ch) ==
    \/ CheckSearch(ch) \/ CheckSearchMore(ch) \/ SetMode(ch) \/ RequestRound(ch)
    \/ CheckStop(ch) \/ SetStopping(ch) \/ CancelRequest(ch)
    \/ CheckWrite(ch) \/ SetAmount(ch) \/ SetFlag(ch)
    \/ CheckConfig(ch) \/ SaveConfig(ch)
    \/ CheckRecalc(ch) \/ StartRecalc(ch) \/ EndRecalc(ch) \/ RecalcFails(ch)

RoundStep ==
    \/ Poll \/ PollAgain \/ BeginRound \/ NoCardFound \/ SeeWriteCommand \/ WriteTimeout \/ TakeAmount
    \/ \E status \in {"ONLINE", "OFFLINE"} : Complete(status)
    \/ EndRequest \/ EndStatus

Next ==
    \/ RoundStep \/ PreprocessFails \/ CardPresented \/ DeviceOnline
    \/ \E ch \in Channels :
          \/ HandlerStep(ch) \/ RecalcRow(ch)
          \/ \E cmd \in Commands, arg \in Modes : Receive(ch, cmd, arg)
          \/ "disconnect" \in Commands /\ Disconnect(ch)

Safety == Init /\ [][Next]_vars

\* The threads run on, a round ends with its timeout at the latest, and the device
\* does not stay offline.
Fairness ==
    /\ WF_vars(RoundStep) /\ WF_vars(DeviceOnline)
    /\ \A ch \in Channels : WF_vars(HandlerStep(ch))

Spec == Safety /\ Fairness

-----------------------------------------------------------------------------
(* Properties.                                                             *)

TrxLocals == [pc : {"poll", "arm", "reading", "wait", "take", "completed", "next", "last",
                    "ended"},
              card : Cards \cup {NoCard}, amount : Cards \cup {NoCard}]
HandlerPcs == (AllCommands \ {"disconnect"})
              \cup {"free", "searchMore", "mode", "run", "stopCardSearch", "stopping", "cancel",
                    "amount", "flag", "save", "recalcStart", "recalculating", "recalcRows"}
HandlerLocals == [pc : HandlerPcs, arg : Modes \cup {"none"}, amount : Cards \cup {NoCard}]

\* Type invariant: the statuses, flags and thread positions of the source.
TypeOK ==
    /\ appStatus \in {"READY", "AWAIT_CARD", "CARD_PRESENTED", "STOPPING_SEARCH", "RECALC_MAC"}
    /\ canRunTransaction \in BOOLEAN
    /\ searchMode \in {"single", "loop"}
    /\ DEVICE_STATUS \in {"ONLINE", "OFFLINE"}
    /\ isWriteCardCommand \in {0, 1}
    /\ writeCardAmount \in Cards \cup {NoCard}
    /\ trx \in TrxLocals /\ handler \in [Channels -> HandlerLocals]
    /\ trxData \in {"none", "round", "recalc"}
    /\ cards \in Cards \cup {NoCard} /\ toAnswer \in Cards \cup {NoCard}
    /\ sent \in Nat /\ patient \in BOOLEAN
    /\ searchOpen \in BOOLEAN /\ unasked \in Nat

\* After a stop at most one more round begins, the one whose request was copied
\* before the stop (feigtransaction.c 105 and 126), whatever the channels, the
\* disconnect, set_config and recalc_mac do; then the thread is idle until the
\* next search.
OneRoundAfterStop == unasked <= 1

\* The amount written on a card is the one the patient client sent for this card:
\* an amount that comes too late for its card is dropped by the next message, which
\* a single search needs (commandmanager.c 192, rupayservice.c 1032 and 1068).
AmountIsForThisCard == patient /\ trx.amount # NoCard => trx.amount = trx.card

\* The patient client's status is never ready while a card may be read: the gate of
\* search_card, recalc_mac and reboot is closed for the whole round.
ReadyMeansIdle ==
    patient /\ appStatus = "READY" => trx.pc \in {"poll", "arm"}

\* The patient client's round works on the data it began with: recalc_mac, which uses
\* the same global structure for every row it writes back, stays out of it
\* (dboperations.c 1532, commandmanager.c 273).
RoundKeepsItsData ==
    patient /\ trx.pc \in {"reading", "wait", "take", "completed"} => trxData = "round"

\* The patient client's accepted search is served: it is not lost to the end of the
\* round before, which clears the request under another mutex (feigtransaction.c
\* 259, commandmanager.c 725).
SearchServed == patient /\ searchOpen ~> ~searchOpen

\* What the code says of the stopping state: "It is in stopping state, wait"
\* (commandmanager.c 361): the state comes to an end by itself.
StoppingEnds == (appStatus = "STOPPING_SEARCH") ~> (appStatus # "STOPPING_SEARCH")
=============================================================================
