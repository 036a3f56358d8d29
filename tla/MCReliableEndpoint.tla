------------------------- MODULE MCReliableEndpoint -------------------------
(* Instances of ReliableEndpoint small enough for TLC. *)
EXTENDS ReliableEndpoint

\* The client sends more than the server, as one that retransmits does: its
\* packet numbers, of which there are SeqMod, start over.
Wrapping == [client |-> 9, server |-> 3]
Unbounded == [e \in Endpoints |-> 0]
=============================================================================
