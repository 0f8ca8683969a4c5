------------------------------ MODULE JobPool ------------------------------
(***************************************************************************)
(* CJobPool of engine/shared/jobs.cpp: worker threads that take jobs from  *)
(* one queue, and the main thread, which adds jobs and shuts the pool      *)
(* down.  An action is what a thread does between two points at which      *)
(* another thread can see the difference: a section under m_Lock or        *)
(* m_LockRunning, an operation on the semaphore or on a job's atomic       *)
(* state.  The owner of a job may abort it at any time.                    *)
(***************************************************************************)
EXTENDS Integers, Sequences, FiniteSets

CONSTANTS
    Jobs,       \* the jobs that may be added
    Workers,    \* the worker threads
    Abortable,  \* the jobs with m_Abortable
    NoJob

ASSUME JobPoolAssumption ==
    /\ IsFiniteSet(Workers) /\ Workers # {}
    /\ Abortable \subseteq Jobs
    /\ NoJob \notin Jobs

VARIABLES
    state,    \* m_State of each job ("new" before it is added)
    queue,    \* the list from m_pFirstJob to m_pLastJob
    running,  \* m_RunningJobs
    signals,  \* the value of m_Semaphore
    shutdown, \* m_Shutdown
    pc,       \* where each worker is in RunLoop
    job,      \* pJob of each worker
    main      \* where the main thread is in Add or Shutdown

vars == <<state, queue, running, signals, shutdown, pc, job, main>>

JobStates == {"new", "queued", "running", "done", "aborted"}
WorkerStates == {"wait", "fetch", "start", "push", "run", "erase", "finish",
                 "exit"}
MainStates == {"on", "signal", "abort queued", "abort running", "wake",
               "join", "off"}

Queued == {queue[i] : i \in DOMAIN queue}

Init ==
    /\ state = [j \in Jobs |-> "new"]
    /\ queue = <<>>
    /\ running = {}
    /\ signals = 0
    /\ shutdown = FALSE
    /\ pc = [w \in Workers |-> "wait"]
    /\ job = [w \in Workers |-> NoJob]
    /\ main = "on"

-----------------------------------------------------------------------------
(* The main thread.                                                        *)

Add(j) ==
    /\ main = "on" /\ state[j] = "new"
    /\ state' = [state EXCEPT ![j] = "queued"]
    /\ queue' = Append(queue, j)
    /\ main' = "signal"
    /\ UNCHANGED <<running, signals, shutdown, pc, job>>

AddSignal ==
    /\ main = "signal"
    /\ signals' = signals + 1
    /\ main' = "on"
    /\ UNCHANGED <<state, queue, running, shutdown, pc, job>>

Shutdown ==
    /\ main = "on"
    /\ shutdown' = TRUE
    /\ main' = "abort queued"
    /\ UNCHANGED <<state, queue, running, signals, pc, job>>

Aborted(jobs) ==
    [j \in Jobs |-> IF j \in jobs \cap Abortable THEN "aborted" ELSE state[j]]

ClearQueue ==  \* a wrong AbortQueued: other jobs are forgotten as well
    /\ main = "abort queued"
    /\ state' = Aborted(Queued)
    /\ queue' = <<>>
    /\ main' = "abort running"
    /\ UNCHANGED <<running, signals, shutdown, pc, job>>

AbortQueued ==
    /\ main = "abort queued"
    /\ state' = Aborted(Queued)
    /\ LET kept == {i \in DOMAIN queue : queue[i] \notin Abortable}
       IN \E place \in UNION {[1 .. n -> kept] : n \in 0 .. Len(queue)} :
             /\ \A i, k \in DOMAIN place : i < k => place[i] < place[k]
             /\ {place[k] : k \in DOMAIN place} = kept
             /\ queue' = [k \in DOMAIN place |-> queue[place[k]]]
    /\ main' = "abort running"
    /\ UNCHANGED <<running, signals, shutdown, pc, job>>

AbortRunning ==
    /\ main = "abort running"
    /\ state' = Aborted(running)
    /\ main' = "wake"
    /\ UNCHANGED <<queue, running, signals, shutdown, pc, job>>

WakeWorkers ==
    /\ main = "wake"
    /\ signals' = signals + Cardinality(Workers)
    /\ main' = "join"
    /\ UNCHANGED <<state, queue, running, shutdown, pc, job>>

Join ==
    /\ main = "join"
    /\ \A w \in Workers : pc[w] = "exit"
    /\ main' = "off"
    /\ UNCHANGED <<state, queue, running, signals, shutdown, pc, job>>

\* The owner of the job, on any thread
Abort(j) ==
    /\ j \in Abortable /\ state[j] # "new"
    /\ state' = [state EXCEPT ![j] = "aborted"]
    /\ UNCHANGED <<queue, running, signals, shutdown, pc, job, main>>

-----------------------------------------------------------------------------
(* A worker thread: one round of RunLoop.                                  *)

Goto(w, next) == pc' = [pc EXCEPT ![w] = next]

WaitUnsignalled(w) ==  \* a wrong Wait: it does not block
    /\ pc[w] = "wait"
    /\ signals' = signals - 1
    /\ Goto(w, "fetch")
    /\ UNCHANGED <<state, queue, running, shutdown, job, main>>

Wait(w) ==
    /\ pc[w] = "wait" /\ signals > 0
    /\ signals' = signals - 1
    /\ Goto(w, "fetch")
    /\ UNCHANGED <<state, queue, running, shutdown, job, main>>

FetchJob(w) ==
    /\ pc[w] = "fetch" /\ queue # <<>>
    /\ job' = [job EXCEPT ![w] = Head(queue)]
    /\ queue' = Tail(queue)
    /\ Goto(w, "start")
    /\ UNCHANGED <<state, running, signals, shutdown, main>>

LeaveLoop(w) ==  \* a wrong FindNoJob: jobs may be left
    /\ pc[w] = "fetch" /\ shutdown
    /\ Goto(w, "exit")
    /\ UNCHANGED <<state, queue, running, signals, shutdown, job, main>>

FindNoJob(w) ==
    /\ pc[w] = "fetch" /\ queue = <<>>
    /\ Goto(w, IF shutdown THEN "exit" ELSE "wait")
    /\ UNCHANGED <<state, queue, running, signals, shutdown, job, main>>

Start(w) ==
    /\ pc[w] = "start"
    /\ \/ /\ state[job[w]] = "queued"
          /\ state' = [state EXCEPT ![job[w]] = "running"]
          /\ Goto(w, "push")
          /\ UNCHANGED job
       \/ /\ state[job[w]] = "aborted"
          /\ Goto(w, "wait")
          /\ job' = [job EXCEPT ![w] = NoJob]
          /\ UNCHANGED state
    /\ UNCHANGED <<queue, running, signals, shutdown, main>>

Push(w) ==
    /\ pc[w] = "push"
    /\ running' = running \cup {job[w]}
    /\ Goto(w, "run")
    /\ UNCHANGED <<state, queue, signals, shutdown, job, main>>

RunEnds(w) ==
    /\ pc[w] = "run"
    /\ Goto(w, "erase")
    /\ UNCHANGED <<state, queue, running, signals, shutdown, job, main>>

Erase(w) ==
    /\ pc[w] = "erase"
    /\ running' = running \ {job[w]}
    /\ Goto(w, "finish")
    /\ UNCHANGED <<state, queue, signals, shutdown, job, main>>

Finish(w) ==
    /\ pc[w] = "finish"
    /\ state' = IF state[job[w]] = "running"
                THEN [state EXCEPT ![job[w]] = "done"] ELSE state
    /\ Goto(w, "wait")
    /\ job' = [job EXCEPT ![w] = NoJob]
    /\ UNCHANGED <<queue, running, signals, shutdown, main>>

-----------------------------------------------------------------------------
MainStep ==
    AddSignal \/ AbortQueued \/ AbortRunning \/ WakeWorkers \/ Join

WorkerStep(w) ==
    \/ Wait(w) \/ FetchJob(w) \/ FindNoJob(w) \/ Start(w)
    \/ Push(w) \/ RunEnds(w) \/ Erase(w) \/ Finish(w)

Next ==
    \/ MainStep
    \/ Shutdown
    \/ \E j \in Jobs : Add(j) \/ Abort(j)
    \/ \E w \in Workers : WorkerStep(w)

Spec == Init /\ [][Next]_vars

-----------------------------------------------------------------------------
(* Properties.                                                             *)

\* Every variable keeps its type.
TypeOK ==
    /\ state \in [Jobs -> JobStates]
    /\ queue \in Seq(Jobs)
    /\ running \subseteq Jobs
    /\ signals \in Nat
    /\ shutdown \in BOOLEAN
    /\ pc \in [Workers -> WorkerStates]
    /\ job \in [Workers -> Jobs \cup {NoJob}]
    /\ main \in MainStates

\* Jobs that are not abortable are complete once the pool is shut down
\* (jobs.h:114), whatever the workers were doing when Shutdown began.
ScheduledJobsComplete ==
    main = "off" => \A j \in Jobs \ Abortable : state[j] \in {"new", "done"}

\* The pool works off its jobs as TaskPool says: once each, none of them
\* forgotten, none left when it is off.
Begun == {job[w] : w \in {v \in Workers : pc[v] = "run"}}
NotBegun ==
    {j \in Queued : state[j] = "queued"}
      \cup {job[w] : w \in {v \in Workers :
               \/ pc[v] = "push"
               \/ pc[v] = "start" /\ state[job[v]] = "queued"}}
Accepted == {j \in Jobs : state[j] # "new"}

Pool == INSTANCE TaskPool WITH
    Tasks <- Jobs, Droppable <- Abortable,
    todo <- NotBegun, active <- Begun, over <- Accepted \ (NotBegun \cup Begun),
    open <- ~shutdown, stopped <- main = "off"
ImplementsPool == Pool!Spec

\* A job that was added gets done or is aborted, whenever the pool is shut
\* down.
JobsEnd == \A j \in Jobs : state[j] = "queued" ~> state[j] \in {"done", "aborted"}
=============================================================================
