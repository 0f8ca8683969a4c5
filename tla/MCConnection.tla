---------------------------- MODULE MCConnection ----------------------------
(* Constants of the runs of Connection: the server queues chunks, the       *)
(* client acknowledges them; two packets are in flight to the client, one   *)
(* to the server.                                                           *)
EXTENDS Connection

FromServer(n) == [e \in Ends |-> IF e = "server" THEN n ELSE 0]
SentToWrap == FromServer(7)
SentToArrive == FromServer(2)

FewAcks == [e \in Ends |-> IF e = "client" THEN 2 ELSE 1]
=============================================================================
