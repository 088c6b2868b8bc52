--------------------------- MODULE MCSplitPackets ---------------------------
(* Small instances of SplitPackets.                                        *)
EXTENDS SplitPackets

TwoAndThree == <<2, 3>>
ThreeThree  == <<3, 3>>
TwoSizes    == [d \in Datagrams |-> d]
SameSize    == [d \in Datagrams |-> 1]
=============================================================================
