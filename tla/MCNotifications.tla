-------------------------- MODULE MCNotifications --------------------------
(* Notifications on a small instance. *)
EXTENDS Notifications
=============================================================================
