----------------------------- MODULE MCNetChan -----------------------------
(* Small instances of NetChan: a server sends to a client.                 *)
EXTENDS NetChan

MCPeer == {"server", "client"}

\* "large" needs two subchannels when MaxFragments is 2.
MCSize ==
  [m \in Msg |-> CASE m \in {"large1", "large2"} -> 3
                  [] m \in {"avatar", "mid"}    -> 2
                  [] OTHER                     -> 1]
MCSource == [m \in Msg |-> IF m \in {"info", "reply"} THEN "client" ELSE "server"]
MCSignon == [server |-> "signon", client |-> "info"]

\* The server has one retransmission to spare, the client acknowledges twice.
ServerSends == [server |-> 4, client |-> 2]
NoClear     == [server |-> 0, client |-> 0]
ServerClear == [server |-> 1, client |-> 0]
=============================================================================
