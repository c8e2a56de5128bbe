----------------------------- MODULE CardService -----------------------------
(***************************************************************************)
(* The RuPay service of a transaction: the data-exchange callbacks before  *)
(* GPO and before GENERATE AC, over the presentations of a round.  Before  *)
(* GPO a service is selected that card and terminal have in common; before *)
(* GENERATE AC the transaction gets its id, the client is told, and the    *)
(* data to be written to the card is built; an online transaction asks for *)
(* the card once more.  The globals isSecondTap, selectedService and       *)
(* currentTxnData carry the transaction from callback to callback.         *)
(*                                                                         *)
(* The kernel and the card are outside: a card may be torn and presented   *)
(* again or replaced at any time, and the final outcome restarts the round *)
(* with another card (appConfig.autoReadCard).  As the comments on the     *)
(* callbacks say, GENERATE AC is only asked for with a service id.         *)
(***************************************************************************)
EXTENDS Integers, Sequences, FiniteSets, Functions

CONSTANTS
    Services,     \* the service ids cards and terminal have
    Cards,        \* the cards
    Priorities,   \* the priorities of the terminal's services
    Kinds,        \* the transaction types: purchase, balance_update, money_add, service_create
    MaxServices,  \* bound: how many services the terminal supports
    MaxTaps       \* bound: how often a card is presented

NoService == 0
NoCard == "none"

ASSUME ServiceKinds ==
    /\ Services \subseteq Nat \ {NoService} /\ Priorities \subseteq Nat
    /\ Kinds \subseteq {"purchase", "balance_update", "money_add", "service_create"}
    /\ NoCard \notin Cards
ASSUME ServiceBounds == MaxServices \in Nat /\ MaxTaps \in Nat

\* An entry of the terminal's service qualifier; what it asks for (DF15) matters as
\* far as it is a key plant, which creates a service, or not.
Supported == [id : Services, priority : Priorities, auto : BOOLEAN, plant : BOOLEAN]

\* What selectedService points to.
Service == [id : Services, plant : BOOLEAN]
Null == [id |-> NoService, plant |-> FALSE]

\* The service directory of a card.
Directory ==
    {[state |-> "present", services |-> ids] : ids \in SUBSET Services}
    \cup {[state |-> state, services |-> {}] : state \in {"absent", "malformed"}}

VARIABLES
    qualifier,          \* the terminal's services, in the order of emv_config.json
    directory,          \* the service directory of each card
    kind,               \* the transaction type of the round
    createService,      \* the service to be created or blocked by the round
    isSecondTap,        \* the online request was made
    selectedService,    \* the service of the transaction
    cardPresentedSent,  \* the client was told of a card
    transactionId,      \* the id of the transaction, 0 for none
    kernel,             \* the kernel: where it is, its card, the service id for GPO
    taps,               \* presentations so far; a new id is the number of its tap
    told,               \* the ids of the round the client was told
    asked               \* the transactions the host was asked about in the round

txn == <<kind, createService, isSecondTap, selectedService, cardPresentedSent, transactionId>>
vars == <<qualifier, directory, txn, kernel, taps, told, asked>>

-----------------------------------------------------------------------------
(* The selection.                                                          *)

\* A service that card and terminal have, other than for its creation.
IsCandidate(entry, services) == entry.id \in services /\ ~entry.plant

Candidates(services) == {entry \in Range(qualifier) : IsCandidate(entry, services)}

\* What qsort may put first: it leaves the order of equal priorities open.
Heads(candidates) ==
    {entry \in candidates : \A other \in candidates : entry.priority <= other.priority}

-----------------------------------------------------------------------------
(* The round and the kernel.                                               *)

Kernel(pc, card, service) == [pc |-> pc, card |-> card, service |-> service]

Idle == Kernel("idle", NoCard, NoService)

\* The request of search_card, and resetTransactionData.
BeginRound ==
    /\ kernel.pc = "idle" /\ taps < MaxTaps
    /\ kind' \in Kinds
    /\ createService' \in IF kind' = "service_create" THEN Service ELSE {Null}
    /\ isSecondTap' = FALSE /\ selectedService' = Null
    /\ cardPresentedSent' = FALSE /\ transactionId' = 0
    /\ kernel' = [Idle EXCEPT !.pc = "poll"]
    /\ told' = {} /\ asked' = {}
    /\ UNCHANGED <<qualifier, directory, taps>>

\* A card comes into the field, and the kernel selects the application.
Present(card) ==
    /\ kernel.pc = "poll" /\ taps < MaxTaps
    /\ taps' = taps + 1
    /\ kernel' = Kernel("preGpo", card, NoService)
    /\ UNCHANGED <<qualifier, directory, txn, told, asked>>

\* The card leaves the field, or the final outcome restarts the round.
Restart ==
    /\ kernel.pc \in {"preGpo", "gpo", "replied", "ended"}
    /\ kernel' = [Idle EXCEPT !.pc = "poll"]
    /\ UNCHANGED <<qualifier, directory, txn, taps, told, asked>>

\* The outcome is final, or no card came in time.
EndRound ==
    /\ kernel.pc \in {"poll", "gpo", "replied", "ended"}
    /\ kernel' = Idle
    /\ UNCHANGED <<qualifier, directory, txn, taps, told, asked>>

\* Mutation: a later card of the round is served like the first.
NeverPresented == FALSE

AlreadyPresented == cardPresentedSent /\ ~isSecondTap

Ends == kernel' = [kernel EXCEPT !.pc = "ended"]

\* "ALREADY CARD PRESENTED, DECLINING IT", in every callback.
Declined ==
    /\ kernel.pc = "preGpo" \/ (kernel.pc = "gpo" /\ kernel.service # NoService)
    /\ AlreadyPresented
    /\ Ends
    /\ UNCHANGED <<qualifier, directory, txn, taps, told, asked>>

-----------------------------------------------------------------------------
(* c13_service_signal_req_pre_gpo_handling                                 *)

GpoWith(service) == kernel' = [kernel EXCEPT !.pc = "gpo", !.service = service]

\* The service to be created or, as an update, to be blocked.
TakeCreateService ==
    /\ kernel.pc = "preGpo" /\ ~AlreadyPresented
    /\ kind = "service_create"
    /\ selectedService' = createService
    /\ GpoWith(createService.id)
    /\ UNCHANGED <<qualifier, directory, kind, createService, isSecondTap, cardPresentedSent, transactionId,
                   taps, told, asked>>

\* Mutation: a service selected for an earlier card of the round is kept.
KeepsAnyService == selectedService # Null

\* Mutation: the second tap selects once more.
KeepsNoService == FALSE

KeepsService == isSecondTap

KeepService ==
    /\ kernel.pc = "preGpo" /\ ~AlreadyPresented
    /\ kind # "service_create" /\ KeepsService
    /\ GpoWith(selectedService.id)
    /\ UNCHANGED <<qualifier, directory, txn, taps, told, asked>>

Selects ==
    /\ kernel.pc = "preGpo" /\ ~AlreadyPresented
    /\ kind # "service_create" /\ ~KeepsService

\* The directory is corrupted: the kernel is told of a failure.
DirectoryFails ==
    /\ Selects /\ directory[kernel.card].state = "malformed"
    /\ selectedService' = Null
    /\ Ends
    /\ UNCHANGED <<qualifier, directory, kind, createService, isSecondTap, cardPresentedSent, transactionId,
                   taps, told, asked>>

\* handleServiceData: the first tap gets an id, the client is told of the card.
TellClient ==
    /\ transactionId' = IF isSecondTap THEN transactionId ELSE taps
    /\ cardPresentedSent' = TRUE
    /\ told' = told \cup {transactionId'}

\* Neither the card nor the terminal has services: a transaction without one.
SelectNothing ==
    /\ Selects
    /\ \/ directory[kernel.card].state = "absent"
       \/ directory[kernel.card].state = "present" /\ qualifier = <<>>
    /\ selectedService' = Null
    /\ GpoWith(NoService)
    /\ UNCHANGED <<qualifier, directory, kind, createService, isSecondTap, cardPresentedSent, transactionId,
                   taps, told, asked>>

\* No mutual service: the client is told, and the transaction is aborted.
SelectAborts ==
    /\ Selects /\ directory[kernel.card].state = "present" /\ qualifier # <<>>
    /\ Candidates(directory[kernel.card].services) = {}
    /\ selectedService' = Null
    /\ TellClient
    /\ Ends
    /\ UNCHANGED <<qualifier, directory, kind, createService, isSecondTap, taps, asked>>

\* Mutation: the service id is sent although the cardholder must confirm it.
RepliedAnyway(head) == head.id

Replied(head) == IF head.auto THEN head.id ELSE NoService

\* The service of highest priority, unless the cardholder must confirm it.
SelectService ==
    /\ Selects /\ directory[kernel.card].state = "present"
    /\ \E head \in Heads(Candidates(directory[kernel.card].services)) :
          /\ selectedService' = IF head.auto THEN [id |-> head.id, plant |-> head.plant]
                                ELSE Null
          /\ GpoWith(Replied(head))
    /\ UNCHANGED <<qualifier, directory, kind, createService, isSecondTap, cardPresentedSent, transactionId,
                   taps, told, asked>>

-----------------------------------------------------------------------------
(* c13_service_signal_req_gac_handling and the online request              *)

\* The reply is built, or the transaction is declined: no space on the card, no data
\* of the service, no amount or too high a one, a failure of the crypto.
GenerateAc(reply) ==
    /\ kernel.pc = "gpo" /\ kernel.service # NoService /\ ~AlreadyPresented
    /\ TellClient
    /\ kernel' = [kernel EXCEPT !.pc = IF reply = "built" THEN "replied" ELSE "ended"]
    /\ UNCHANGED <<qualifier, directory, kind, createService, isSecondTap, selectedService, taps, asked>>

\* The kernel asks for the host: the row of the transaction is stored, and the card is
\* asked for once more.
OnlineRequest ==
    /\ kernel.pc = "replied" \/ (kernel.pc = "gpo" /\ kernel.service = NoService)
    /\ kind # "purchase"
    /\ asked' = asked \cup {[service |-> kernel.service, id |-> transactionId]}
    /\ isSecondTap' = TRUE
    /\ kernel' = [Idle EXCEPT !.pc = "poll"]
    /\ UNCHANGED <<qualifier, directory, kind, createService, selectedService, cardPresentedSent,
                   transactionId, taps, told>>

Init ==
    /\ qualifier \in UNION {[1 .. n -> Supported] : n \in 0 .. MaxServices}
    /\ directory \in [Cards -> Directory]
    /\ kind = "purchase" /\ createService = Null
    /\ isSecondTap = FALSE /\ selectedService = Null
    /\ cardPresentedSent = FALSE /\ transactionId = 0
    /\ kernel = Idle
    /\ taps = 0 /\ told = {} /\ asked = {}

Next ==
    \/ BeginRound \/ Restart \/ EndRound \/ Declined
    \/ \E card \in Cards : Present(card)
    \/ TakeCreateService \/ KeepService \/ DirectoryFails
    \/ SelectNothing \/ SelectAborts \/ SelectService
    \/ \E reply \in {"built", "declined"} : GenerateAc(reply)
    \/ OnlineRequest

Spec == Init /\ [][Next]_vars

-----------------------------------------------------------------------------
(* Properties.                                                             *)

\* Type invariant: at GPO with a service there is one selected, which the callback
\* before GENERATE AC reads without a test (rupayservice.c 926).
TypeOK ==
    /\ qualifier \in Seq(Supported)
    /\ directory \in [Cards -> Directory]
    /\ kind \in Kinds \cup {"purchase"} /\ createService \in Service \cup {Null}
    /\ isSecondTap \in BOOLEAN /\ cardPresentedSent \in BOOLEAN
    /\ selectedService \in Service \cup {Null}
    /\ transactionId \in Nat /\ taps \in Nat /\ told \subseteq Nat
    /\ kernel \in [pc : {"idle", "poll", "preGpo", "gpo", "replied", "ended"},
                   card : Cards \cup {NoCard}, service : Services \cup {NoService}]
    /\ kernel.service # NoService => selectedService # Null
    /\ asked \subseteq [service : Services \cup {NoService}, id : Nat]

\* What the card and the terminal have in common, services to be created aside.
Mutual(card) ==
    {i \in DOMAIN qualifier :
        qualifier[i].id \in directory[card].services /\ ~qualifier[i].plant}

\* The first tap works on a service of the card that is in the field now, not of one
\* presented before, and no mutual service comes before it (rupayservice.c 317, 436).
ServiceOnCard ==
    /\ kernel.pc \in {"gpo", "replied"} /\ ~isSecondTap
    /\ kind # "service_create" /\ kernel.service # NoService
    => \E i \in Mutual(kernel.card) :
          /\ qualifier[i].id = kernel.service
          /\ \A j \in Mutual(kernel.card) : qualifier[i].priority <= qualifier[j].priority

\* The second tap writes the service and ends the transaction the host was asked about
\* (rupayservice.c 299, 1395), whatever the cards and the restarts in between.
SecondTapKeepsTransaction ==
    isSecondTap /\ kernel.pc \in {"gpo", "replied"} =>
       asked = {[service |-> kernel.service, id |-> transactionId]}

\* A round is one transaction for the client: cards that come after the one it was told
\* of get no id of their own (rupayservice.c 234, 742, feigtransaction.c 588).
OneTransactionPerRound == Cardinality(told) <= 1
=============================================================================
