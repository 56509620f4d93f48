---------------------------- MODULE MCStreamIDs -----------------------------
(* The bounds of StreamIDs are plain numbers, given in the configurations. *)
EXTENDS StreamIDs
=============================================================================
