---------------------------- MODULE MCNotifications ----------------------------
(***************************************************************************)
(* An instance of Notifications for TLC: a fan-out to the feed alone, as   *)
(* for a new account, and one to the feed and by email, as for a change of *)
(* a subscription.                                                         *)
(***************************************************************************)
EXTENDS Notifications

CONSTANTS w1, w2

MCFanouts == {<<"IN_APP">>, <<"IN_APP", "EMAIL">>}
=============================================================================
