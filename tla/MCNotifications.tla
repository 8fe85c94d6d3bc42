--------------------------- MODULE MCNotifications ---------------------------
(* Two accounts that use one tab, and notifications for both. *)
EXTENDS Notifications

=============================================================================
