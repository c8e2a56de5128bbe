-------------------------- MODULE MCOnlineReversal --------------------------
(***************************************************************************)
(* Instances of OnlineReversal for TLC: which types are searched for, and  *)
(* what goes wrong, in one run of the system.                              *)
(***************************************************************************)
EXTENDS OnlineReversal

\* A clear and a kill.
Faults == [kinds |-> {"money_add"}, modes |-> {"single"}, hasty |-> 0, clears |-> 1, crashes |-> 1]

\* A type that is reversed at once and one that is left to the reversal thread.
BothKinds == [kinds |-> {"money_add", "balance_update"}, modes |-> {"single"},
              hasty |-> 0, clears |-> 0, crashes |-> 0]

\* A search out of turn, whose type asks no host.
Haste == [kinds |-> {"money_add", "purchase"}, modes |-> {"single"},
          hasty |-> 1, clears |-> 0, crashes |-> 0]

\* Loops, and the type that is refused in one.
Loops == [kinds |-> {"money_add", "balance_inquiry"}, modes |-> {"single", "loop"},
          hasty |-> 0, clears |-> 0, crashes |-> 0]

\* Service creations, which the code itself says need no reversal.
Services == [kinds |-> {"service_create"}, modes |-> {"single"},
             hasty |-> 0, clears |-> 0, crashes |-> 0]

Instances == {Faults, BothKinds, Haste, Loops}
ServiceInstances == {Services}
=============================================================================
