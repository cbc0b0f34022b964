------------------------------- MODULE MCPool -------------------------------
(***************************************************************************)
(* Small instances of Pool: more calls of one user than connections.       *)
(***************************************************************************)
EXTENDS Pool

CONSTANTS alice

SixKinds   == <<"submit", "submit", "grant", "grant", "update", "ping">>
AllOfAlice == [c \in Calls |-> alice]

=============================================================================
