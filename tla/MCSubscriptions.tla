-------------------------- MODULE MCSubscriptions --------------------------
(* A fan with two devices and the idol, two requests.                       *)
EXTENDS Subscriptions
=============================================================================
