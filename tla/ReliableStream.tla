--------------------------- MODULE ReliableStream ---------------------------
(***************************************************************************)
(* What a net channel promises for reliable data: per sender and stream, a *)
(* queue that hands over what was accepted in order, without loss in       *)
(* between and without duplicates.                                         *)
(***************************************************************************)
EXTENDS Naturals, Sequences

CONSTANTS Sender, Stream, Message

VARIABLES
  sent,      \* per sender and stream: what was accepted
  received   \* per sender and stream: what was handed over

vars == <<sent, received>>

Empty == [p \in Sender |-> [s \in Stream |-> <<>>]]

Init == sent = Empty /\ received = Empty

\* Accept one message of p on stream s.
Accept(p, s) ==
  /\ \E m \in Message : sent' = [sent EXCEPT ![p][s] = Append(@, m)]
  /\ UNCHANGED received

\* Hand over the next messages of p, of either stream.
Deliver(p) ==
  /\ \E n \in [Stream -> UNION {0 .. Len(sent[p][s]) : s \in Stream}] :
       /\ \A s \in Stream : n[s] \in Len(received[p][s]) .. Len(sent[p][s])
       /\ received' = [received EXCEPT ![p] =
                         [s \in Stream |-> SubSeq(sent[p][s], 1, n[s])]]
  /\ UNCHANGED sent

Next == \E p \in Sender : Deliver(p) \/ \E s \in Stream : Accept(p, s)

Spec == Init /\ [][Next]_vars
=============================================================================
