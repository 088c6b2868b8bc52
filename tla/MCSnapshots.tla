---------------------------- MODULE MCSnapshots ----------------------------
(* Small instances of Snapshots.                                           *)
EXTENDS Snapshots

Alike     == <<1, 1>>
Different == <<1, 2>>

\* How often each slot changes.
Twice     == <<2>>
=============================================================================
