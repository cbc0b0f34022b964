----------------------------- MODULE MCDelivery -----------------------------
(***************************************************************************)
(* Small instances of Delivery.                                            *)
(***************************************************************************)
EXTENDS Delivery, TLC

CONSTANTS alice, bob

\* Two requests of one user who can pay for either, not for both.
OneUser      == {alice}
OneUserOwner == <<alice, alice>>
TwoCosts     == <<2, 1>>
GrantForOne  == [u \in {alice} |-> 2]

\* Three requests, two of them one user's.
TwoUsers      == {alice, bob}
TwoUsersOwner == <<alice, bob, alice>>
ThreeCosts    == <<2, 1, 1>>
GrantForTwo   == [u \in {alice, bob} |-> 2]

=============================================================================
