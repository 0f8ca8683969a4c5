-------------------------- MODULE ReliableChannel --------------------------
(***************************************************************************)
(* What a connection promises of vital chunks: each end receives the other *)
(* end's chunks once, in the order in which they were queued.  The n-th    *)
(* chunk that an end queues is the number n.                               *)
(***************************************************************************)
EXTENDS Naturals, Sequences

Ends == {"client", "server"}
Peer(e) == IF e = "client" THEN "server" ELSE "client"

VARIABLES
  sent,      \* [Ends -> Nat]: how many chunks each end has queued
  delivered  \* [Ends -> Seq(Nat)]: the chunks each end's application got

vars == <<sent, delivered>>

Init == /\ sent = [e \in Ends |-> 0]
        /\ delivered = [e \in Ends |-> <<>>]

Send(e) == /\ sent' = [sent EXCEPT ![e] = @ + 1]
           /\ UNCHANGED delivered

Deliver(e) ==
  /\ Len(delivered[e]) < sent[Peer(e)]
  /\ delivered' = [delivered EXCEPT ![e] = Append(@, Len(@) + 1)]
  /\ UNCHANGED sent

Next == \E e \in Ends : Send(e) \/ Deliver(e)

Spec == Init /\ [][Next]_vars
=============================================================================
