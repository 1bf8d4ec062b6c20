--------------------------- MODULE MCSlackMention ---------------------------
(* The instances are given entirely by the configurations.                   *)
EXTENDS SlackMention
=============================================================================
