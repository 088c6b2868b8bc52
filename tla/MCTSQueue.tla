----------------------------- MODULE MCTSQueue -----------------------------
(* Small instances of TSQueue: a and b push, c does not.                   *)
EXTENDS TSQueue

CONSTANTS a, b, c

TwoAndOne == (a :> 2) @@ (b :> 1) @@ (c :> 0)
TwoEach   == (a :> 2) @@ (b :> 2) @@ (c :> 0)
=============================================================================
