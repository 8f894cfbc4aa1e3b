-------------------------- MODULE MCNotifications --------------------------
(* Two accounts, one device token, one user's settings, two requests.       *)
EXTENDS Notifications
=============================================================================
