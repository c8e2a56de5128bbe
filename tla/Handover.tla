------------------------------ MODULE Handover ------------------------------
(***************************************************************************)
(* What the data channel promises to its clients: a record leaves the      *)
(* terminal only by the acknowledge of a client that was given it, and     *)
(* if it was given as a finished sale, with the very contents the client   *)
(* has; and when the client is told that its records are gone, they are    *)
(* gone for good.  An acknowledge may stop half-way; what it leaves behind *)
(* stays on the terminal.  To clients that get in each other's way         *)
(* nothing is promised.                                                    *)
(***************************************************************************)
CONSTANTS
    Record,       \* the records a terminal can make
    Client,       \* those that fetch them
    Contents,     \* what a record may say
    Nothing       \* in place of the contents of a record that is not there

VARIABLES
    considerate,  \* the clients wait for one another
    held,         \* the contents of each record on the terminal
    copy,         \* the contents each client was given with its last fetch
    final,        \* of these, the records it was given as finished sales
    confirming,   \* the records of an acknowledge that is under way, by client
    told          \* records a client was told are gone

promised == <<held, copy, final, confirming, told>>
handoverVars == <<considerate, promised>>

HandoverInit ==
    /\ considerate \in BOOLEAN
    /\ held = [r \in Record |-> Nothing]
    /\ copy = [c \in Client |-> held]
    /\ final = [c \in Client |-> {}]
    /\ confirming = [c \in Client |-> {}]
    /\ told = {}

\* A new record, or other contents of one that is there.
Keep(r) ==
    /\ r \notin told
    /\ \E contents \in Contents \ {Nothing} : held' = [held EXCEPT ![r] = contents]
    /\ UNCHANGED <<copy, final, confirming, told>>

\* A fetch starts with an empty reply ...
Open(c) ==
    /\ confirming[c] = {}
    /\ copy' = [copy EXCEPT ![c] = [r \in Record |-> Nothing]]
    /\ final' = [final EXCEPT ![c] = {}]
    /\ UNCHANGED <<held, confirming, told>>

\* ... and gives the records as they are.
Give(c, r) ==
    /\ confirming[c] = {} /\ held[r] # Nothing
    /\ copy' = [copy EXCEPT ![c][r] = held[r]]
    /\ final' \in {[final EXCEPT ![c] = @ \cup {r}], [final EXCEPT ![c] = @ \ {r}]}
    /\ UNCHANGED <<held, confirming, told>>

Confirm(c) ==
    /\ \A other \in Client : confirming[other] = {}
    /\ confirming' = [confirming EXCEPT ![c] = {r \in Record : copy[c][r] # Nothing}]
    /\ UNCHANGED <<held, copy, final, told>>

Remove(c, r) ==
    /\ r \in confirming[c]
    /\ r \in final[c] => held[r] = copy[c][r]
    /\ held' = [held EXCEPT ![r] = Nothing]
    /\ UNCHANGED <<copy, final, confirming, told>>

Complete(c) ==
    /\ \A r \in confirming[c] : held[r] = Nothing
    /\ told' = told \cup confirming[c]
    /\ confirming' = [confirming EXCEPT ![c] = {}]
    /\ UNCHANGED <<held, copy, final>>

StopHalfway(c) ==
    /\ confirming' = [confirming EXCEPT ![c] = {}]
    /\ UNCHANGED <<held, copy, final, told>>

\* A kill ends everything under way; a client whose reply it cuts has nothing.
Kill ==
    /\ confirming' = [c \in Client |-> {}]
    /\ \E cut \in SUBSET Client :
          /\ copy' = [c \in Client |-> IF c \in cut THEN [r \in Record |-> Nothing] ELSE copy[c]]
          /\ final' = [c \in Client |-> IF c \in cut THEN {} ELSE final[c]]
    /\ UNCHANGED <<held, told>>

HandoverNext ==
    /\ considerate' = considerate
    /\ considerate =>
          \/ \E r \in Record : Keep(r)
          \/ \E c \in Client : Open(c) \/ Confirm(c) \/ Complete(c) \/ StopHalfway(c)
          \/ \E c \in Client, r \in Record : Give(c, r) \/ Remove(c, r)
          \/ Kill

HandoverSpec == HandoverInit /\ [][HandoverNext]_handoverVars

\* What the promise comes to: what a client was told is gone is not there.
ToldIsGone == considerate => \A r \in told : held[r] = Nothing
=============================================================================
