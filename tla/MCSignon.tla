------------------------------ MODULE MCSignon ------------------------------
(* Signon for TLC.                                                         *)
EXTENDS Signon
=============================================================================
