----------------------------- MODULE Background -----------------------------
(***************************************************************************)
(* The threads beside the game: the job pool and the HTTP thread, and how  *)
(* the server leaves them.  The jobs are those of register.cpp: each hands *)
(* its request to CHttp and waits for it (CJob::Run), so a worker waits    *)
(* for the HTTP thread.  CServer::Run ends with the requests that delete   *)
(* the registrations and with CHttp::Shutdown; then main() destroys the    *)
(* kernel, which shuts the job pool down first and then destroys the       *)
(* server with its CHttp, each time waiting for the threads.               *)
(***************************************************************************)
EXTENDS JobPool, Http

CONSTANT Deletions  \* the requests the main thread makes by itself

ASSUME BackgroundAssumption == Deletions \subseteq Requests

VARIABLE server  \* "loop" while the game runs, then "leaving", "joining" the
                 \* HTTP thread, "gone"

backgroundVars == <<vars, httpVars, server>>

BackgroundInit == Init /\ HttpInit /\ server = "loop"

\* What the pool does by itself; jobs are added by the main loop only
PoolStep ==
    /\ \/ MainStep
       \/ \E j \in Jobs : Abort(j)
       \/ server = "loop" /\ \E j \in Jobs : Add(j)
       \/ server = "leaving" /\ Shutdown
    /\ UNCHANGED <<httpVars, server>>

\* CJob::Run: CHttp::Run, then Wait; a job that is no request just runs
JobRequests(w) ==
    /\ pc[w] = "run" /\ job[w] \in Requests /\ Run(job[w])
    /\ UNCHANGED <<vars, server>>
JobWaits(w) ==
    pc[w] = "run" /\ job[w] \in Requests => request[job[w]] \in Results

Work(w) ==
    \/ JobRequests(w)
    \/ JobWaits(w) /\ WorkerStep(w) /\ UNCHANGED <<httpVars, server>>

HttpThread == ThreadStep /\ UNCHANGED <<vars, server>>

DeleteRegistration ==
    /\ server = "loop" /\ main = "on"
    /\ \E r \in Deletions : Run(r)
    /\ UNCHANGED <<vars, server>>

\* The end of CServer::Run
Leave ==
    /\ server = "loop" /\ main = "on"
    /\ Close
    /\ server' = "leaving"
    /\ UNCHANGED vars

\* ~CHttp calls Shutdown once more and waits for its thread
DestroyHttp ==
    /\ server = "leaving" /\ main = "off"
    /\ Close
    /\ server' = "joining"
    /\ UNCHANGED vars

DestroyServer ==
    /\ server = "joining" /\ at = "ended"
    /\ server' = "gone"
    /\ UNCHANGED <<vars, httpVars>>

BackgroundNext ==
    \/ PoolStep
    \/ \E w \in Workers : Work(w)
    \/ HttpThread
    \/ DeleteRegistration
    \/ Leave
    \/ DestroyHttp
    \/ DestroyServer

\* Every thread goes on, every transfer ends; the main thread does not stop
\* on its way out.
BackgroundFairness ==
    /\ WF_backgroundVars(MainStep /\ UNCHANGED <<httpVars, server>>)
    /\ WF_backgroundVars(server = "leaving" /\ PoolStep)
    /\ WF_backgroundVars(DestroyHttp)
    /\ WF_backgroundVars(DestroyServer)
    /\ \A w \in Workers : WF_backgroundVars(Work(w))
    /\ WF_backgroundVars(HttpThread)
    /\ \A r \in Requests :
         SF_backgroundVars(EndTransfer(r) /\ UNCHANGED <<vars, server>>)

BackgroundSpec == BackgroundInit /\ [][BackgroundNext]_backgroundVars
                                 /\ BackgroundFairness

\* Who leaves gets out: the workers that the pool's shutdown waits for wait
\* for requests, and the HTTP thread answers these whatever it is doing.
ServerExits == server = "leaving" ~> server = "gone"
=============================================================================
