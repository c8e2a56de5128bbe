------------------------------- MODULE TopUp -------------------------------
(***************************************************************************)
(* What the online part of the terminal promises to the cardholder: of a   *)
(* transaction that moves money, the host's books and the card tell the    *)
(* same.  What the host has charged is on the card, or a reversal of it is *)
(* on record when the terminal turns to something else; only what is on    *)
(* record is refunded, and never what is on the card, however late the     *)
(* refund is made.  The price is part of the promise: nobody answers for a *)
(* transaction that an incident cuts, that the host charges while it       *)
(* reports an error, or that a terminal does not know to be one that moves *)
(* money when it ends.                                                     *)
(***************************************************************************)
EXTENDS Naturals

CONSTANT Txn      \* the transactions a terminal can make

VARIABLES
    begun,        \* transactions that are on record
    money,        \* those of them that move money
    current,      \* the one in hand, or none
    charged,      \* transactions the host has booked
    loaded,       \* transactions the card has taken
    noted,        \* transactions with a reversal on record
    refunded,     \* transactions the host has reversed
    excused,      \* transactions nobody answers for
    incidents     \* incidents that may still cut a transaction

topUpVars == <<begun, money, current, charged, loaded, noted, refunded, excused, incidents>>

TopUpInit ==
    /\ begun = {} /\ money = {} /\ current = {}
    /\ charged = {} /\ loaded = {} /\ noted = {} /\ refunded = {} /\ excused = {}
    /\ incidents \in Nat

Begin(t) ==
    /\ current = {} /\ t \notin begun
    /\ current' = {t}
    /\ begun' = begun \cup {t}
    /\ money' \in {money, money \cup {t}}
    /\ UNCHANGED <<charged, loaded, noted, refunded, excused, incidents>>

\* No transaction is charged twice.
Charge(t) ==
    /\ t \in current /\ t \notin charged \cup noted
    /\ charged' = charged \cup {t}
    /\ excused' \in {excused, excused \cup {t}}
    /\ UNCHANGED <<begun, money, current, loaded, noted, refunded, incidents>>

\* The card takes what is charged and what nobody may have refunded.
Load(t) ==
    /\ t \in current \cap charged /\ t \notin noted
    /\ loaded' = loaded \cup {t}
    /\ UNCHANGED <<begun, money, current, charged, noted, refunded, excused, incidents>>

Note(t) ==
    /\ t \in current /\ t \notin loaded
    /\ noted' = noted \cup {t}
    /\ UNCHANGED <<begun, money, current, charged, loaded, refunded, excused, incidents>>

\* A refund is made at any time, also after an incident.
Refund(t) ==
    /\ t \in noted
    /\ refunded' = refunded \cup {t}
    /\ UNCHANGED <<begun, money, current, charged, loaded, noted, excused, incidents>>

End(t) ==
    /\ t \in current
    /\ t \in charged \cap money => t \in loaded \cup noted \cup excused
    /\ current' = {}
    /\ UNCHANGED <<begun, money, charged, loaded, noted, refunded, excused, incidents>>

Incident ==
    /\ incidents > 0
    /\ incidents' = incidents - 1
    /\ excused' = excused \cup current
    /\ current' = {}
    /\ UNCHANGED <<begun, money, charged, loaded, noted, refunded>>

TopUpNext ==
    \/ \E t \in Txn : Begin(t) \/ Charge(t) \/ Load(t) \/ Note(t) \/ Refund(t) \/ End(t)
    \/ Incident

TopUpSpec == TopUpInit /\ [][TopUpNext]_topUpVars

\* What the promise comes to: nothing is both on the card and refunded, and what was
\* charged for money and is out of hand is on the card, on record or excused.
Balanced ==
    /\ loaded \cap refunded = {}
    /\ charged \cap money \subseteq current \cup loaded \cup noted \cup excused
=============================================================================
