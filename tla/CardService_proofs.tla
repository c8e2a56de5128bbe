-------------------------- MODULE CardService_proofs --------------------------
(***************************************************************************)
(* Theorems about CardService, for any services, cards and priorities, any *)
(* service qualifier and any number of presentations.                      *)
(***************************************************************************)
EXTENDS CardService, FiniteSetTheorems, TLAPS

-----------------------------------------------------------------------------
(* The types.  TypeOK also says that a service sent to the kernel is the   *)
(* one that is selected; for that a presentation must begin without one.   *)

KernelFresh == kernel.pc \in {"idle", "poll", "preGpo"} => kernel.service = NoService

CardInv == TypeOK /\ KernelFresh

LEMMA CardInit == Init => CardInv
  <1> SUFFICES ASSUME Init PROVE CardInv
    OBVIOUS
  <1>1. qualifier \in Seq(Supported)
    <2>1. PICK n \in 0 .. MaxServices : qualifier \in [1 .. n -> Supported]
      BY DEF Init
    <2> QED
      BY <2>1, ServiceBounds
  <1> QED
    BY <1>1 DEF Init, CardInv, TypeOK, KernelFresh, Idle, Kernel, NoService

\* A round begins, a card comes, goes or is declined.
LEMMA RoundStepInv ==
    ASSUME CardInv,
           BeginRound \/ Restart \/ EndRound \/ Declined \/ \E card \in Cards : Present(card)
    PROVE  CardInv'
  <1> USE ServiceBounds DEF CardInv, TypeOK, KernelFresh, Idle, Kernel, NoService, txn
  <1>1. CASE BeginRound
    BY <1>1 DEF BeginRound
  <1>2. CASE Restart \/ EndRound
    BY <1>2 DEF Restart, EndRound
  <1>3. CASE Declined
    BY <1>3 DEF Declined, Ends
  <1>4. ASSUME NEW card \in Cards, Present(card) PROVE CardInv'
    BY <1>4 DEF Present
  <1> QED
    BY <1>1, <1>2, <1>3, <1>4

\* An entry of the qualifier the selection may take.
LEMMA HeadSupported ==
    ASSUME CardInv, NEW services, NEW head \in Heads(Candidates(services))
    PROVE  /\ head \in Candidates(services) /\ head \in Supported
           /\ [id |-> head.id, plant |-> head.plant] \in Service
           /\ head.id # NoService
  <1>1. head \in Candidates(services) /\ head \in Range(qualifier)
    BY DEF Heads, Candidates
  <1>2. head \in Supported
    BY <1>1 DEF CardInv, TypeOK, Range
  <1> QED
    BY <1>1, <1>2, ServiceKinds DEF Supported, Service, NoService

\* The callback before GPO.
LEMMA PreGpoStepInv ==
    ASSUME CardInv,
           \/ TakeCreateService \/ KeepService \/ DirectoryFails
           \/ SelectNothing \/ SelectAborts \/ SelectService
    PROVE  CardInv'
  <1> USE DEF CardInv, TypeOK, KernelFresh, GpoWith, Ends
  <1>1. CASE TakeCreateService
    <2>1. createService.id \in Services \cup {NoService}
          /\ (createService.id # NoService => createService # Null)
      BY DEF Service, Null
    <2> QED
      BY <1>1, <2>1 DEF TakeCreateService
  <1>2. CASE KeepService
    <2>1. selectedService.id \in Services \cup {NoService}
          /\ (selectedService.id # NoService => selectedService # Null)
      BY DEF Service, Null
    <2> QED
      BY <1>2, <2>1 DEF KeepService, txn
  <1>3. CASE DirectoryFails
    BY <1>3 DEF DirectoryFails, Selects
  <1>4. CASE SelectNothing
    BY <1>4 DEF SelectNothing, Selects
  <1>5. CASE SelectAborts
    BY <1>5 DEF SelectAborts, Selects, TellClient
  <1>6. CASE SelectService
    <2>1. PICK head \in Heads(Candidates(directory[kernel.card].services)) :
            /\ selectedService' = IF head.auto THEN [id |-> head.id, plant |-> head.plant]
                                  ELSE Null
            /\ GpoWith(Replied(head))
      BY <1>6 DEF SelectService
    <2>2. /\ Replied(head) \in Services \cup {NoService}
          /\ selectedService' \in Service \cup {Null}
          /\ Replied(head) # NoService => selectedService' # Null
      BY <2>1, HeadSupported DEF Replied, Supported, Null
    <2> QED
      BY <1>6, <2>1, <2>2 DEF SelectService
  <1> QED
    BY <1>1, <1>2, <1>3, <1>4, <1>5, <1>6

\* The callback before GENERATE AC and the online request.
LEMMA GacStepInv ==
    ASSUME CardInv, OnlineRequest \/ \E reply \in {"built", "declined"} : GenerateAc(reply)
    PROVE  CardInv'
  <1> USE DEF CardInv, TypeOK, KernelFresh
  <1>1. CASE OnlineRequest
    BY <1>1 DEF OnlineRequest, Idle, Kernel
  <1>2. ASSUME NEW reply \in {"built", "declined"}, GenerateAc(reply) PROVE CardInv'
    BY <1>2 DEF GenerateAc, TellClient
  <1> QED
    BY <1>1, <1>2

LEMMA CardStep == CardInv /\ [Next]_vars => CardInv'
  <1>1. CardInv /\ UNCHANGED vars => CardInv'
    BY DEF vars, txn, CardInv, TypeOK, KernelFresh
  <1> QED
    BY <1>1, RoundStepInv, PreGpoStepInv, GacStepInv DEF Next

\* The types, and: a service the kernel was told of is selected, so that the callback
\* before GENERATE AC finds one.
THEOREM ServiceTypeCorrect == Spec => []TypeOK
  <1>1. CardInv => TypeOK
    BY DEF CardInv
  <1> QED
    BY <1>1, CardInit, CardStep, PTL DEF Spec

-----------------------------------------------------------------------------
(* The first tap.                                                          *)

\* What the first tap sends to the kernel was selected from what this card and the
\* terminal have in common, and is of the highest priority among it.
THEOREM SelectedIsOnCard == Spec => []ServiceOnCard
  <1>1. Init => ServiceOnCard
    BY DEF Init, ServiceOnCard, Idle, Kernel
  <1>2. ASSUME CardInv, ServiceOnCard, [Next]_vars PROVE ServiceOnCard'
    <2> USE DEF CardInv, TypeOK
    <2>1. CASE SelectService
      <3> DEFINE services == directory[kernel.card].services
      <3>1. PICK head \in Heads(Candidates(services)) : GpoWith(Replied(head))
        BY <2>1 DEF SelectService
      <3>2. UNCHANGED <<qualifier, directory>> /\ kernel'.card = kernel.card
            /\ kernel'.service = Replied(head)
        BY <1>2, <2>1, <3>1 DEF SelectService, GpoWith
      <3>3. Mutual(kernel.card)' = Mutual(kernel.card)
        BY <3>2 DEF Mutual
      <3>4. Candidates(services) = {qualifier[i] : i \in Mutual(kernel.card)}
        BY DEF Candidates, IsCandidate, Mutual, Range
      <3>5. PICK i \in Mutual(kernel.card) : head = qualifier[i]
        BY <3>4 DEF Heads
      <3>6. \A j \in Mutual(kernel.card) : qualifier[i].priority <= qualifier[j].priority
        BY <3>4, <3>5 DEF Heads
      <3>7. kernel'.service # NoService => qualifier[i].id = kernel'.service
        BY <3>2, <3>5 DEF Replied
      <3> QED
        BY <3>2, <3>3, <3>5, <3>6, <3>7 DEF ServiceOnCard
    <2>2. CASE \E reply \in {"built", "declined"} : GenerateAc(reply)
      <3>1. /\ UNCHANGED <<qualifier, directory, kind, isSecondTap>>
            /\ kernel.pc = "gpo" /\ kernel'.service = kernel.service /\ kernel'.card = kernel.card
        BY <1>2, <2>2 DEF GenerateAc
      <3> QED
        BY <1>2, <3>1 DEF ServiceOnCard, Mutual
    <2>3. CASE TakeCreateService \/ KeepService
      BY <2>3 DEF TakeCreateService, KeepService, KeepsService, ServiceOnCard, txn
    <2>4. CASE SelectNothing
      BY <1>2, <2>4 DEF SelectNothing, GpoWith, ServiceOnCard
    <2>5. CASE BeginRound \/ Restart \/ EndRound \/ OnlineRequest \/ \E card \in Cards : Present(card)
      BY <1>2, <2>5 DEF BeginRound, Restart, EndRound, OnlineRequest, Present, Idle, Kernel,
                  ServiceOnCard
    <2>6. CASE Declined \/ DirectoryFails \/ SelectAborts
      BY <1>2, <2>6 DEF Declined, DirectoryFails, SelectAborts, Ends, ServiceOnCard
    <2>7. CASE UNCHANGED vars
      BY <1>2, <2>7 DEF vars, txn, ServiceOnCard, Mutual
    <2> QED
      BY <1>2, <2>1, <2>2, <2>3, <2>4, <2>5, <2>6, <2>7 DEF Next
  <1>3. Init => CardInv
    BY CardInit
  <1> QED
    BY <1>1, <1>2, <1>3, CardStep, PTL DEF Spec

-----------------------------------------------------------------------------
(* The second tap.  What it writes is in selectedService, which only the   *)
(* first tap chooses, or in the request of the round.                      *)

SecondTapInv ==
    /\ isSecondTap => asked = {[service |-> selectedService.id, id |-> transactionId]}
    /\ ~isSecondTap => asked = {}
    /\ isSecondTap /\ kind = "service_create" => selectedService = createService
    /\ kernel.pc \in {"gpo", "replied"} => kernel.service = selectedService.id
    /\ kernel.pc \in {"gpo", "replied"} /\ kind = "service_create" =>
          selectedService = createService

LEMMA SecondTapStep ==
    ASSUME CardInv, SecondTapInv, [Next]_vars
    PROVE  SecondTapInv'
  <1> USE DEF CardInv, TypeOK, SecondTapInv
  <1>1. CASE BeginRound
    BY <1>1 DEF BeginRound, Idle, Kernel
  <1>2. CASE Restart \/ EndRound \/ \E card \in Cards : Present(card)
    BY <1>2 DEF Restart, EndRound, Present, Idle, Kernel, txn
  <1>3. CASE Declined
    BY <1>3 DEF Declined, Ends, txn
  <1>4. CASE TakeCreateService
    BY <1>4 DEF TakeCreateService, GpoWith
  <1>5. CASE KeepService
    BY <1>5 DEF KeepService, KeepsService, GpoWith, txn
  <1>6. CASE DirectoryFails
    BY <1>6 DEF DirectoryFails, Selects, KeepsService, Ends
  <1>7. CASE SelectNothing
    BY <1>7 DEF SelectNothing, Selects, KeepsService, GpoWith, Null, NoService
  <1>8. CASE SelectAborts
    BY <1>8 DEF SelectAborts, Selects, KeepsService, Ends, TellClient
  <1>9. CASE SelectService
    <2>1. /\ UNCHANGED <<kind, isSecondTap, asked>> /\ ~isSecondTap
          /\ kind # "service_create"
      BY <1>9 DEF SelectService, Selects, KeepsService
    <2>2. kernel'.service = selectedService'.id
      BY <1>9 DEF SelectService, GpoWith, Replied, Null
    <2> QED
      BY <2>1, <2>2
  <1>10. ASSUME NEW reply \in {"built", "declined"}, GenerateAc(reply)
         PROVE  SecondTapInv'
    <2>1. /\ UNCHANGED <<kind, createService, isSecondTap, selectedService, asked>>
          /\ isSecondTap => transactionId' = transactionId
          /\ kernel.pc = "gpo" /\ kernel'.service = kernel.service
      BY <1>10 DEF GenerateAc, TellClient
    <2> QED
      BY <2>1
  <1>11. CASE OnlineRequest
    <2>1. /\ UNCHANGED <<kind, createService, selectedService, transactionId>>
          /\ isSecondTap' /\ kernel'.pc = "poll"
          /\ kernel.pc \in {"gpo", "replied"}
          /\ asked' = asked \cup {[service |-> kernel.service, id |-> transactionId]}
      BY <1>11 DEF OnlineRequest, Idle, Kernel
    <2> QED
      BY <2>1
  <1>12. CASE UNCHANGED vars
    BY <1>12 DEF vars, txn
  <1> QED
    BY <1>1, <1>2, <1>3, <1>4, <1>5, <1>6, <1>7, <1>8, <1>9, <1>10, <1>11, <1>12 DEF Next

\* The second tap ends the transaction the host was asked about, with its service.
THEOREM SecondTapCompletes == Spec => []SecondTapKeepsTransaction
  <1>1. Init => SecondTapInv
    BY DEF Init, SecondTapInv, Idle, Kernel
  <1>2. SecondTapInv => SecondTapKeepsTransaction
    BY DEF SecondTapInv, SecondTapKeepsTransaction
  <1>3. CardInv /\ SecondTapInv /\ [Next]_vars => SecondTapInv'
    BY SecondTapStep
  <1> QED
    BY <1>1, <1>2, <1>3, CardInit, CardStep, PTL DEF Spec

-----------------------------------------------------------------------------
(* The client.  It is told of the id the transaction has, and of nothing   *)
(* before the first card.                                                  *)

ToldInv ==
    /\ told \subseteq {transactionId}
    /\ ~cardPresentedSent => told = {}

LEMMA ToldStep ==
    ASSUME ToldInv, [Next]_vars
    PROVE  ToldInv'
  <1> USE DEF ToldInv
  <1>1. CASE BeginRound
    BY <1>1 DEF BeginRound
  <1>2. CASE TellClient /\ ~AlreadyPresented
    BY <1>2 DEF TellClient, AlreadyPresented
  <1>3. CASE UNCHANGED <<told, transactionId, cardPresentedSent>>
    BY <1>3
  <1>4. SelectAborts \/ (\E reply \in {"built", "declined"} : GenerateAc(reply))
           => TellClient /\ ~AlreadyPresented
    BY DEF SelectAborts, Selects, GenerateAc
  <1>5. Restart \/ EndRound \/ Declined \/ (\E card \in Cards : Present(card))
        \/ TakeCreateService \/ KeepService \/ DirectoryFails \/ SelectNothing
        \/ SelectService \/ OnlineRequest \/ UNCHANGED vars
           => UNCHANGED <<told, transactionId, cardPresentedSent>>
    BY DEF Restart, EndRound, Declined, Present, TakeCreateService, KeepService,
           DirectoryFails, SelectNothing, SelectService, OnlineRequest, vars, txn
  <1> QED
    BY <1>1, <1>2, <1>3, <1>4, <1>5 DEF Next

\* Whatever cards are presented, torn and presented again, the client hears of one
\* transaction in a round.
THEOREM OneTransaction == Spec => []OneTransactionPerRound
  <1>1. Init => ToldInv
    BY DEF Init, ToldInv
  <1>2. ToldInv => OneTransactionPerRound
    <2> SUFFICES ASSUME ToldInv PROVE Cardinality(told) <= 1
      BY DEF OneTransactionPerRound
    <2>1. IsFiniteSet({transactionId}) /\ Cardinality({transactionId}) = 1
      BY FS_Singleton
    <2>2. Cardinality(told) <= Cardinality({transactionId})
      BY <2>1, FS_Subset DEF ToldInv
    <2> QED
      BY <2>1, <2>2
  <1> QED
    BY <1>1, <1>2, ToldStep, PTL DEF Spec
=============================================================================
