---------------------------- MODULE MCLiveCursor ----------------------------
(* The instances are given entirely by the configurations.                   *)
EXTENDS LiveCursor
=============================================================================
