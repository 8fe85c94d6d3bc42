--------------------------- MODULE MCScannerPage ----------------------------
(* One visit with three starts of the camera and two verifications. *)
EXTENDS ScannerPage

=============================================================================
