----------------------------- MODULE SaleLedger -----------------------------
(***************************************************************************)
(* What the store-and-forward part of the terminal promises to the         *)
(* merchant: a sale the terminal reported as approved stays on the device  *)
(* until the acquirer host has posted it, and only a sale that was         *)
(* approved is ever posted.  The promise has a price, which is part of it: *)
(* one approved sale may be forgotten by each incident (a restart of the   *)
(* program, an insert the database refuses).                               *)
(***************************************************************************)
EXTENDS Naturals

CONSTANT Sale     \* the sales a terminal can make

VARIABLES
    taken,        \* sales reported to the client as approved
    refused,      \* sales reported to the client as declined
    held,         \* sales the device still has
    settled,      \* sales the host has posted
    incidents     \* incidents that may still forget a sale

ledgerVars == <<taken, refused, held, settled, incidents>>

LedgerTypeOK ==
    /\ taken \in SUBSET Sale
    /\ refused \in SUBSET Sale
    /\ held \in SUBSET Sale
    /\ settled \in SUBSET Sale
    /\ incidents \in Nat

LedgerInit ==
    /\ taken = {} /\ refused = {} /\ held = {} /\ settled = {}
    /\ incidents \in Nat

Take(s) ==
    /\ s \notin taken \cup refused
    /\ taken' = taken \cup {s}
    /\ held' = held \cup {s}
    /\ UNCHANGED <<refused, settled, incidents>>

Refuse(s) ==
    /\ s \notin taken \cup refused
    /\ refused' = refused \cup {s}
    /\ held' = held \cup {s}
    /\ UNCHANGED <<taken, settled, incidents>>

\* The host may post several sales with one request.
Settle(S) ==
    /\ S \subseteq taken \cap held
    /\ settled' = settled \cup S
    /\ UNCHANGED <<taken, refused, held, incidents>>

\* A record may be removed once it is of no more use for a settlement.
Release(s) ==
    /\ s \in held
    /\ s \in settled \cup refused
    /\ held' = held \ {s}
    /\ UNCHANGED <<taken, refused, settled, incidents>>

\* An incident forgets at most the one sale that was being recorded.
Incident(s) ==
    /\ incidents > 0
    /\ incidents' = incidents - 1
    /\ held' \in {held, held \ {s}}
    /\ UNCHANGED <<taken, refused, settled>>

LedgerNext ==
    \/ \E s \in Sale : Take(s) \/ Refuse(s) \/ Release(s) \/ Incident(s)
    \/ \E S \in SUBSET Sale : Settle(S)

LedgerSpec == LedgerInit /\ [][LedgerNext]_ledgerVars

\* What was taken and is neither held nor settled: no more of it than incidents.
Lost == taken \ (held \cup settled)
=============================================================================
