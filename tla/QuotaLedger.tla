----------------------------- MODULE QuotaLedger ----------------------------
(***************************************************************************)
(* What the print server promises about quota, without rows, locks,        *)
(* handlers or sweeps.  A request is charged at most once, and only when   *)
(* its owner can pay for it; it is refused only when its owner cannot; a   *)
(* charge may be given back once, and a request whose charge was given     *)
(* back is never charged again.  Grants only grow.                         *)
(***************************************************************************)
EXTENDS Accounts

VARIABLES
    granted,    \* granted[u]: the sum of u's semester grants
    charged,    \* the jobs that count against their owner's quota
    released,   \* the jobs that counted once and no longer do
    refused     \* the requests turned away for lack of quota

vars == <<granted, charged, released, refused>>

Fresh(j) == j \notin charged \cup released \cup refused

CanPay(j) == Spent(charged, Owner[j]) + Cost[j] <= granted[Owner[j]]

Init ==
    /\ granted \in [Users -> Nat]
    /\ charged = {}
    /\ released = {}
    /\ refused = {}

Charge(j) ==
    /\ Fresh(j)
    /\ CanPay(j)
    /\ charged' = charged \cup {j}
    /\ UNCHANGED <<granted, released, refused>>

Refuse(j) ==
    /\ Fresh(j)
    /\ ~ CanPay(j)
    /\ refused' = refused \cup {j}
    /\ UNCHANGED <<granted, charged, released>>

Release(j) ==
    /\ j \in charged
    /\ charged' = charged \ {j}
    /\ released' = released \cup {j}
    /\ UNCHANGED <<granted, refused>>

\* The sum of u's grants grows; nobody else's changes.
Award(u) ==
    /\ granted' \in [Users -> Nat]
    /\ granted'[u] >= granted[u]
    /\ \A v \in Users \ {u} : granted'[v] = granted[v]
    /\ UNCHANGED <<charged, released, refused>>

Next ==
    \/ \E j \in Jobs : Charge(j) \/ Refuse(j) \/ Release(j)
    \/ \E u \in Users : Award(u)

Spec == Init /\ [][Next]_vars

-----------------------------------------------------------------------------
LedgerTypeOK ==
    /\ granted \in [Users -> Nat]
    /\ charged \subseteq Jobs
    /\ released \subseteq Jobs
    /\ refused \subseteq Jobs

(* No user ever has more quota deducted than the user was granted.          *)
Solvent == \A u \in Users : Spent(charged, u) <= granted[u]

=============================================================================
