----------------------------- MODULE MCDashboard ----------------------------
(***************************************************************************)
(* Small instances of CheckQuota, with the home page that is read from the *)
(* same tables: concurrent sessions of one user.                           *)
(***************************************************************************)
EXTENDS Dashboard

CONSTANTS alice

OneUser      == {alice}
OneUserOwner == [j \in Jobs |-> alice]
SomeCosts    == [j \in Jobs |-> IF j = 1 THEN 2 ELSE 1]

=============================================================================
