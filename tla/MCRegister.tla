----------------------------- MODULE MCRegister -----------------------------
(* Register for TLC, in two parts of one run: one protocol of which two     *)
(* requests may be in flight, its configuration, info, messages and master  *)
(* changing or failing; and two protocols with one request in flight each,  *)
(* while the info changes or the master restarts.                           *)
EXTENDS Register

CONSTANTS v6, v4
BothProtocols == {v6, v4}

VARIABLE part
mcVars == <<registerVars, part>>

Tokens == [delete : {FALSE}, protocol : Protocols, start : {master.start}]

InPart ==
    \/ part = "one" /\ ~enabled[v4]
    \/ /\ part = "two" /\ online /\ events <= 1 /\ mail \subseteq Tokens
       /\ \A p \in Protocols : enabled[p] /\ Len(flight[p]) <= 1

Do(A) == A /\ UNCHANGED part /\ InPart'

MCInit == RegisterInit /\ part \in {"one", "two"} /\ InPart
MCNext == RegisterNext /\ UNCHANGED part /\ InPart'

\* RegisterFairness within a part
MCFairness ==
    /\ \A p \in Protocols :
        /\ WF_mcVars(Do(TimePasses(p)))
        /\ WF_mcVars(Do(Update(p)))
        /\ SF_mcVars(Do(\E m \in mail : m.protocol = p /\ OnToken(m)))
        /\ WF_mcVars(Do(flight[p] # <<>> /\ JobStep(p, 1)))
    /\ WF_mcVars(Do(\E m \in mail : ServeDelete(m)))

MCSpec == MCInit /\ [][MCNext]_mcVars /\ MCFairness
=============================================================================
