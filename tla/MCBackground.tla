---------------------------- MODULE MCBackground ----------------------------
(* Background for TLC, in three parts of one run: the pool by itself with   *)
(* three jobs, one of them abortable; the HTTP thread by itself with three  *)
(* requests; and the two with the main thread, a job and a deletion.        *)
EXTENDS Background

CONSTANTS j1, j2, j3, delete, w1, w2

ThreeJobs == {j1, j2, j3}
OneAbortable == {j3}
ThreeRequests == {j1, j2, delete}
OneDeletion == {delete}
TwoWorkers == {w1, w2}

VARIABLE part

mcVars == <<backgroundVars, part>>

MCInit == BackgroundInit /\ part \in {"pool", "http", "both"}

Used == {j \in Jobs : state[j] # "new"} \cup {r \in Requests : request[r] # "new"}

MCNext ==
    /\ \/ part = "both" /\ BackgroundNext /\ Used' \subseteq {j1, delete}
       \/ part = "pool" /\ Next /\ UNCHANGED <<httpVars, server>>
       \/ part = "http" /\ HttpNext /\ UNCHANGED <<vars, server>>
    /\ UNCHANGED part

\* BackgroundFairness, and those of the parts by themselves
MCFairness ==
    /\ WF_mcVars(MainStep /\ UNCHANGED <<httpVars, server, part>>)
    /\ WF_mcVars(server = "leaving" /\ PoolStep /\ UNCHANGED part)
    /\ WF_mcVars(DestroyHttp /\ UNCHANGED part)
    /\ WF_mcVars(DestroyServer /\ UNCHANGED part)
    /\ \A w \in Workers :
         WF_mcVars(/\ \/ part = "both" /\ Work(w)
                      \/ part = "pool" /\ WorkerStep(w) /\ UNCHANGED <<httpVars, server>>
                   /\ UNCHANGED part)
    /\ WF_mcVars(HttpThread /\ UNCHANGED part)
    /\ \A r \in Requests :
         SF_mcVars(EndTransfer(r) /\ UNCHANGED <<vars, server, part>>)

MCSpec == MCInit /\ [][MCNext]_mcVars /\ MCFairness
=============================================================================
