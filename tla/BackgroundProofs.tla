-------------------------- MODULE BackgroundProofs --------------------------
(***************************************************************************)
(* The threads together: each part of Background behaves as its own module *)
(* says, so that what is proved of the pool and of the HTTP thread by      *)
(* themselves holds in the server, whose jobs wait for requests.           *)
(***************************************************************************)
EXTENDS Background, JobPoolProofs, HttpProofs

\* A step of the server is one of the pool, or leaves the pool alone.
LEMMA PoolSteps == [BackgroundNext]_backgroundVars => [Next]_vars
<1> SUFFICES ASSUME [BackgroundNext]_backgroundVars PROVE [Next]_vars
  OBVIOUS
<1>1. CASE PoolStep
  BY <1>1 DEF PoolStep, Next
<1>2. ASSUME NEW w \in Workers, Work(w) PROVE [Next]_vars
  BY <1>2 DEF Work, JobRequests, Next
<1>3. CASE HttpThread \/ DeleteRegistration \/ Leave \/ DestroyHttp \/ DestroyServer
  BY <1>3 DEF HttpThread, DeleteRegistration, Leave, DestroyHttp, DestroyServer
<1>4. CASE UNCHANGED backgroundVars
  BY <1>4 DEF backgroundVars
<1> QED BY <1>1, <1>2, <1>3, <1>4 DEF BackgroundNext

\* A step of the server is one of CHttp, or leaves it alone.
LEMMA HttpSteps == [BackgroundNext]_backgroundVars => [HttpNext]_httpVars
<1> SUFFICES ASSUME [BackgroundNext]_backgroundVars PROVE [HttpNext]_httpVars
  OBVIOUS
<1>1. CASE PoolStep \/ DestroyServer
  BY <1>1 DEF PoolStep, DestroyServer
<1>2. ASSUME NEW w \in Workers, Work(w) PROVE [HttpNext]_httpVars
  BY <1>2 DEF Work, JobRequests, HttpNext
<1>3. CASE HttpThread
  BY <1>3 DEF HttpThread, HttpNext
<1>4. CASE DeleteRegistration
  BY <1>4, BackgroundAssumption DEF DeleteRegistration, HttpNext
<1>5. CASE Leave \/ DestroyHttp
  BY <1>5 DEF Leave, DestroyHttp, HttpNext
<1>6. CASE UNCHANGED backgroundVars
  BY <1>6 DEF backgroundVars
<1> QED BY <1>1, <1>2, <1>3, <1>4, <1>5, <1>6 DEF BackgroundNext

\* The job pool of the server behaves as the pool by itself (CJobPool does
\* not depend on what its jobs wait for).
THEOREM PoolOfServer == BackgroundSpec => Spec
<1>1. BackgroundInit => Init
  BY DEF BackgroundInit
<1> QED BY <1>1, PoolSteps, PTL DEF BackgroundSpec, Spec

\* The HTTP thread of the server behaves as the thread by itself (CHttp does
\* not depend on who hands it requests).
THEOREM HttpOfServer == BackgroundSpec => HttpSpec
<1>1. BackgroundInit => HttpInit
  BY DEF BackgroundInit
<1> QED BY <1>1, HttpSteps, PTL DEF BackgroundSpec, HttpSpec

\* In the server, whose workers wait for the HTTP thread and whose main thread
\* leaves at any moment: jobs are begun once and none is forgotten, requests
\* are completed once, and the shutdown begins all that were made before it.
THEOREM ServerKeepsPromises ==
    BackgroundSpec => /\ ImplementsPool
                      /\ []ScheduledJobsComplete
                      /\ []AnsweredOnce
                      /\ []ShutdownStartsAll
<1> QED BY PoolOfServer, HttpOfServer, Implementation, Completion, Answers,
           ShutdownIsLast, PTL
=============================================================================
