---------------------------- MODULE MCSortedSets -----------------------------
(* The bounds of SortedSets are given in the configuration.                *)
EXTENDS SortedSets
=============================================================================
