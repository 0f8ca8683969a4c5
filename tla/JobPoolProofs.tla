---------------------------- MODULE JobPoolProofs ----------------------------
(***************************************************************************)
(* Theorems about JobPool, for any jobs and any workers.  What makes them  *)
(* hold is who holds a job: the queue or one worker, never both, and never *)
(* two workers (HandsOk); the job's state follows from that (StatesOk).    *)
(***************************************************************************)
EXTENDS JobPool, SequenceTheorems, FiniteSetTheorems, TLAPS

USE JobPoolAssumption

Busy(w) == pc[w] \in {"start", "push", "run", "erase", "finish"}

QueueOk ==
    /\ \A i, k \in DOMAIN queue : queue[i] = queue[k] => i = k
    /\ \A j \in Queued : state[j] \in {"queued", "aborted"}
HandsOk ==
    /\ \A w \in Workers : Busy(w) => job[w] \in Jobs \ Queued
    /\ \A v, w \in Workers : Busy(v) /\ Busy(w) /\ job[v] = job[w] => v = w
    /\ \A w \in Workers :
         pc[w] = "start" => state[job[w]] \in {"queued", "aborted"}
    /\ \A w \in Workers :
         Busy(w) /\ pc[w] # "start" => state[job[w]] \in {"running", "aborted"}
    /\ \A j \in running : \E w \in Workers : pc[w] \in {"run", "erase"} /\ job[w] = j
StatesOk ==
    /\ \A j \in Jobs : state[j] = "queued" =>
         j \in Queued \/ \E w \in Workers : pc[w] = "start" /\ job[w] = j
    /\ \A j \in Jobs : state[j] = "running" => \E w \in Workers : Busy(w) /\ job[w] = j
    /\ \A j \in Jobs : state[j] = "aborted" => j \in Abortable
MainOk ==
    /\ main \in {"on", "signal"} <=> ~shutdown
    /\ \A w \in Workers : pc[w] = "exit" => shutdown /\ queue = <<>>
    /\ main = "off" => \A w \in Workers : pc[w] = "exit"
Inv == TypeOK /\ QueueOk /\ HandsOk /\ StatesOk /\ MainOk

-----------------------------------------------------------------------------
(* The queue.                                                              *)

LEMMA AppendQueue ==
  ASSUME queue \in Seq(Jobs), NEW j \in Jobs, queue' = Append(queue, j)
  PROVE  /\ queue' \in Seq(Jobs)
         /\ Queued' = Queued \cup {j}
         /\ (\A i, k \in DOMAIN queue : queue[i] = queue[k] => i = k) /\ j \notin Queued
              => \A i, k \in DOMAIN queue' : queue'[i] = queue'[k] => i = k
<1>1. /\ queue' \in Seq(Jobs)
      /\ Len(queue) \in Nat
      /\ DOMAIN queue = 1 .. Len(queue)
      /\ DOMAIN queue' = 1 .. Len(queue) + 1
      /\ \A i \in 1 .. Len(queue) : queue'[i] = queue[i]
      /\ queue'[Len(queue) + 1] = j
  OBVIOUS
<1>2. Queued' = Queued \cup {j}
  <2>1. \A x \in Queued' : x \in Queued \cup {j} BY <1>1 DEF Queued
  <2>2. \A x \in Queued : x \in Queued' BY <1>1 DEF Queued
  <2>3. j \in Queued' BY <1>1 DEF Queued
  <2> QED BY <2>1, <2>2, <2>3
<1>3. ASSUME \A i, k \in DOMAIN queue : queue[i] = queue[k] => i = k, j \notin Queued,
             NEW i \in DOMAIN queue', NEW k \in DOMAIN queue', queue'[i] = queue'[k]
      PROVE  i = k
  <2>1. \A l \in 1 .. Len(queue) : queue[l] # j BY <1>1, <1>3 DEF Queued
  <2> QED BY <1>1, <1>3, <2>1
<1> QED BY <1>1, <1>2, <1>3

LEMMA TailQueue ==
  ASSUME queue \in Seq(Jobs), queue # <<>>, queue' = Tail(queue),
         \A i, k \in DOMAIN queue : queue[i] = queue[k] => i = k
  PROVE  /\ queue' \in Seq(Jobs)
         /\ Head(queue) \in Queued
         /\ Queued' = Queued \ {Head(queue)}
         /\ \A i, k \in DOMAIN queue' : queue'[i] = queue'[k] => i = k
<1>1. /\ queue' \in Seq(Jobs)
      /\ Len(queue) \in Nat /\ Len(queue) > 0
      /\ DOMAIN queue = 1 .. Len(queue)
      /\ DOMAIN queue' = 1 .. Len(queue) - 1
      /\ \A i \in 1 .. Len(queue) - 1 : queue'[i] = queue[i + 1]
      /\ Head(queue) = queue[1]
  BY HeadTailProperties, LenProperties, EmptySeq
<1>2. Head(queue) \in Queued BY <1>1 DEF Queued
<1>3. Queued' = Queued \ {Head(queue)}
  <2>1. ASSUME NEW i \in DOMAIN queue' PROVE queue'[i] \in Queued \ {Head(queue)}
    <3>1. i + 1 \in DOMAIN queue /\ i + 1 # 1 /\ queue'[i] = queue[i + 1] BY <1>1
    <3>2. queue[i + 1] # queue[1] BY <3>1, <1>1
    <3> QED BY <1>1, <3>1, <3>2 DEF Queued
  <2>2. ASSUME NEW i \in DOMAIN queue, queue[i] # Head(queue) PROVE queue[i] \in Queued'
    <3>1. i - 1 \in DOMAIN queue' /\ queue'[i - 1] = queue[i] BY <1>1, <2>2
    <3> QED BY <3>1 DEF Queued
  <2> QED BY <2>1, <2>2 DEF Queued
<1>4. ASSUME NEW i \in DOMAIN queue', NEW k \in DOMAIN queue', queue'[i] = queue'[k]
      PROVE  i = k
  BY <1>1, <1>4
<1> QED BY <1>1, <1>2, <1>3, <1>4

LEMMA RestOfQueue ==
  ASSUME TypeOK, AbortQueued,
         \A i, k \in DOMAIN queue : queue[i] = queue[k] => i = k
  PROVE  /\ queue' \in Seq(Jobs)
         /\ Queued' = Queued \ Abortable
         /\ \A i, k \in DOMAIN queue' : queue'[i] = queue'[k] => i = k
<1> DEFINE kept == {i \in DOMAIN queue : queue[i] \notin Abortable}
<1>1. queue \in Seq(Jobs) /\ Len(queue) \in Nat /\ DOMAIN queue = 1 .. Len(queue)
  BY LenProperties DEF TypeOK
<1>2. PICK place \in UNION {[1 .. n -> kept] : n \in 0 .. Len(queue)} :
         /\ \A i, k \in DOMAIN place : i < k => place[i] < place[k]
         /\ {place[k] : k \in DOMAIN place} = kept
         /\ queue' = [k \in DOMAIN place |-> queue[place[k]]]
  BY Zenon DEF AbortQueued
<1>2a. PICK n \in 0 .. Len(queue) : place \in [1 .. n -> kept] OBVIOUS
<1> HIDE DEF kept
<1>3. n \in Nat /\ DOMAIN place = 1 .. n /\ DOMAIN queue' = 1 .. n BY <1>1, <1>2, <1>2a
<1>4. \A k \in 1 .. n : place[k] \in kept /\ queue'[k] = queue[place[k]] BY <1>2, <1>2a, <1>3
<1>5. kept \subseteq DOMAIN queue /\ \A i \in kept : queue[i] \in Jobs \ Abortable
  BY <1>1, ElementOfSeq DEF kept
<1>6. queue' \in Seq(Jobs)
  <2>1. queue' \in [1 .. n -> Jobs] BY <1>2, <1>3, <1>4, <1>5
  <2> QED BY <2>1, <1>3
<1>7. Queued' = Queued \ Abortable
  <2>1. \A k \in 1 .. n : queue'[k] \in Queued \ Abortable BY <1>4, <1>5 DEF Queued
  <2>2. ASSUME NEW i \in DOMAIN queue, queue[i] \notin Abortable PROVE queue[i] \in Queued'
    <3>1. i \in kept BY <2>2 DEF kept
    <3>2. PICK k \in 1 .. n : place[k] = i BY <3>1, <1>2, <1>3
    <3> QED BY <3>2, <1>3, <1>4 DEF Queued
  <2> QED BY <2>1, <2>2, <1>3 DEF Queued
<1>8. ASSUME NEW i \in 1 .. n, NEW k \in 1 .. n, queue'[i] = queue'[k] PROVE i = k
  <2>1. place[i] = place[k] BY <1>4, <1>5, <1>8
  <2>2. place[i] \in Int BY <1>4, <1>5, <1>1
  <2> QED BY <2>1, <2>2, <1>2, <1>3
<1> QED BY <1>3, <1>6, <1>7, <1>8
-----------------------------------------------------------------------------
(* The invariant.                                                          *)

LEMMA InitInv == Init => Inv
<1> SUFFICES ASSUME Init PROVE Inv OBVIOUS
<1>1. TypeOK
  <2>1. queue \in Seq(Jobs) /\ signals \in Nat BY DEF Init
  <2> QED BY <2>1, Zenon DEF Init, TypeOK, JobStates, WorkerStates, MainStates
<1>2. Queued = {} BY DEF Init, Queued
<1> QED BY <1>1, <1>2 DEF Init, Inv, QueueOk, HandsOk, StatesOk, MainOk, Busy

(* Steps that leave the queue alone. *)

LEMMA SameQueue == queue' = queue => Queued' = Queued
  BY DEF Queued

LEMMA QueuedJobs == TypeOK => Queued \subseteq Jobs
  BY ElementOfSeq, LenProperties DEF TypeOK, Queued

LEMMA AddSignalInv == ASSUME Inv, AddSignal PROVE Inv'
<1>1. Queued' = Queued /\ Queued \subseteq Jobs BY SameQueue, QueuedJobs DEF AddSignal, Inv
<1>2. TypeOK' BY DEF AddSignal, Inv, TypeOK, JobStates, WorkerStates, MainStates
<1>3. QueueOk' BY <1>1 DEF AddSignal, Inv, TypeOK, QueueOk
<1>4. HandsOk' BY <1>1 DEF AddSignal, Inv, TypeOK, HandsOk, QueueOk, Busy
<1>5. StatesOk' BY <1>1 DEF AddSignal, Inv, TypeOK, StatesOk, HandsOk, Busy
<1>6. MainOk' BY DEF AddSignal, Inv, TypeOK, MainOk, WorkerStates, MainStates
<1> QED BY <1>2, <1>3, <1>4, <1>5, <1>6 DEF Inv

LEMMA ShutdownInv == ASSUME Inv, Shutdown PROVE Inv'
<1>1. Queued' = Queued /\ Queued \subseteq Jobs BY SameQueue, QueuedJobs DEF Shutdown, Inv
<1>2. TypeOK' BY DEF Shutdown, Inv, TypeOK, JobStates, WorkerStates, MainStates
<1>3. QueueOk' BY <1>1 DEF Shutdown, Inv, TypeOK, QueueOk
<1>4. HandsOk' BY ZenonT(60), <1>1 DEF Shutdown, Inv, TypeOK, HandsOk, QueueOk, Busy
<1>5. StatesOk' BY <1>1 DEF Shutdown, Inv, StatesOk, Busy
<1>6. MainOk' BY DEF Shutdown, Inv, TypeOK, MainOk, WorkerStates, MainStates
<1> QED BY <1>2, <1>3, <1>4, <1>5, <1>6 DEF Inv

LEMMA AbortRunningInv == ASSUME Inv, AbortRunning PROVE Inv'
<1>1. Queued' = Queued /\ Queued \subseteq Jobs BY SameQueue, QueuedJobs DEF AbortRunning, Inv
<1>2. TypeOK' BY DEF AbortRunning, Inv, TypeOK, JobStates, WorkerStates, MainStates, Aborted
<1>3. QueueOk' BY <1>1 DEF AbortRunning, Inv, TypeOK, QueueOk, Aborted
<1>4. HandsOk' BY ZenonT(60), <1>1 DEF AbortRunning, Inv, TypeOK, HandsOk, QueueOk, Busy, Aborted
<1>5. StatesOk'
  <2>1. \A j \in Jobs : state'[j] = IF j \in running \cap Abortable THEN "aborted" ELSE state[j]
    BY DEF AbortRunning, Aborted
  <2>2. \A j \in Jobs : state'[j] \in {"queued", "running"} => state'[j] = state[j] BY <2>1
  <2>3. pc' = pc /\ job' = job BY DEF AbortRunning
  <2>4. \A j \in Jobs : state'[j] = "aborted" => j \in Abortable
    BY <2>1 DEF Inv, StatesOk
  <2> QED BY <1>1, <2>2, <2>3, <2>4 DEF Inv, StatesOk, Busy
<1>6. MainOk' BY DEF AbortRunning, Inv, TypeOK, MainOk, WorkerStates, MainStates, Aborted
<1> QED BY <1>2, <1>3, <1>4, <1>5, <1>6 DEF Inv

LEMMA WakeWorkersInv == ASSUME Inv, WakeWorkers PROVE Inv'
<1>1. Queued' = Queued /\ Queued \subseteq Jobs BY SameQueue, QueuedJobs DEF WakeWorkers, Inv
<1>2. TypeOK'
  <2>1. signals' \in Nat BY FS_CardinalityType DEF WakeWorkers, Inv, TypeOK
  <2> QED BY <2>1, Zenon DEF WakeWorkers, Inv, TypeOK, JobStates, WorkerStates, MainStates
<1>3. QueueOk' BY <1>1 DEF WakeWorkers, Inv, TypeOK, QueueOk
<1>4. HandsOk' BY <1>1 DEF WakeWorkers, Inv, TypeOK, HandsOk, QueueOk, Busy
<1>5. StatesOk' BY <1>1 DEF WakeWorkers, Inv, TypeOK, StatesOk, HandsOk, Busy
<1>6. MainOk' BY DEF WakeWorkers, Inv, TypeOK, MainOk, WorkerStates, MainStates
<1> QED BY <1>2, <1>3, <1>4, <1>5, <1>6 DEF Inv

LEMMA JoinInv == ASSUME Inv, Join PROVE Inv'
<1>1. Queued' = Queued /\ Queued \subseteq Jobs BY SameQueue, QueuedJobs DEF Join, Inv
<1>2. TypeOK' BY DEF Join, Inv, TypeOK, JobStates, WorkerStates, MainStates
<1>3. QueueOk' BY <1>1 DEF Join, Inv, TypeOK, QueueOk
<1>4. HandsOk' BY <1>1 DEF Join, Inv, TypeOK, HandsOk, QueueOk, Busy
<1>5. StatesOk' BY <1>1 DEF Join, Inv, TypeOK, StatesOk, HandsOk, Busy
<1>6. MainOk' BY DEF Join, Inv, TypeOK, MainOk, WorkerStates, MainStates
<1> QED BY <1>2, <1>3, <1>4, <1>5, <1>6 DEF Inv

LEMMA AbortInv == ASSUME Inv, NEW j \in Jobs, Abort(j) PROVE Inv'
<1>1. Queued' = Queued /\ Queued \subseteq Jobs BY SameQueue, QueuedJobs DEF Abort, Inv
<1>2. TypeOK' BY DEF Abort, Inv, TypeOK, JobStates, WorkerStates, MainStates
<1>3. QueueOk' BY <1>1 DEF Abort, Inv, TypeOK, QueueOk
<1>4. HandsOk' BY <1>1 DEF Abort, Inv, TypeOK, HandsOk, QueueOk, Busy
<1>5. StatesOk' BY <1>1 DEF Abort, Inv, TypeOK, StatesOk, HandsOk, Busy
<1>6. MainOk' BY DEF Abort, Inv, TypeOK, MainOk, WorkerStates, MainStates
<1> QED BY <1>2, <1>3, <1>4, <1>5, <1>6 DEF Inv

LEMMA WaitInv == ASSUME Inv, NEW w \in Workers, Wait(w) PROVE Inv'
<1>1. Queued' = Queued /\ Queued \subseteq Jobs BY SameQueue, QueuedJobs DEF Wait, Inv
<1>2. TypeOK'
  <2>1. signals' \in Nat BY DEF Wait, Inv, TypeOK
  <2> QED BY <2>1, Zenon DEF Wait, Inv, TypeOK, JobStates, WorkerStates, MainStates, Goto
<1>3. QueueOk' BY <1>1 DEF Wait, Inv, TypeOK, QueueOk, Goto
<1>4. HandsOk' BY <1>1 DEF Wait, Inv, TypeOK, HandsOk, QueueOk, Busy, Goto
<1>5. StatesOk' BY <1>1 DEF Wait, Inv, TypeOK, StatesOk, HandsOk, Busy, Goto
<1>6. MainOk' BY DEF Wait, Inv, TypeOK, MainOk, WorkerStates, MainStates, Goto
<1> QED BY <1>2, <1>3, <1>4, <1>5, <1>6 DEF Inv

LEMMA FindNoJobInv == ASSUME Inv, NEW w \in Workers, FindNoJob(w) PROVE Inv'
<1>1. Queued' = Queued /\ Queued \subseteq Jobs BY SameQueue, QueuedJobs DEF FindNoJob, Inv
<1>2. TypeOK' BY DEF FindNoJob, Inv, TypeOK, JobStates, WorkerStates, MainStates, Goto
<1>3. QueueOk' BY <1>1 DEF FindNoJob, Inv, TypeOK, QueueOk, Goto
<1>4. HandsOk' BY <1>1 DEF FindNoJob, Inv, TypeOK, HandsOk, QueueOk, Busy, Goto
<1>5. StatesOk' BY <1>1 DEF FindNoJob, Inv, TypeOK, StatesOk, HandsOk, Busy, Goto
<1>6. MainOk' BY DEF FindNoJob, Inv, TypeOK, MainOk, WorkerStates, MainStates, Goto
<1> QED BY <1>2, <1>3, <1>4, <1>5, <1>6 DEF Inv

LEMMA StartInv == ASSUME Inv, NEW w \in Workers, Start(w) PROVE Inv'
<1>1. Queued' = Queued /\ Queued \subseteq Jobs BY SameQueue, QueuedJobs DEF Start, Inv
<1>2. TypeOK' BY ZenonT(60) DEF Start, Inv, TypeOK, JobStates, WorkerStates, MainStates, Goto
<1>a. /\ job[w] \in Jobs \ Queued
      /\ \A j \in Jobs : j # job[w] => state'[j] = state[j]
      /\ running' = running
      /\ \A v \in Workers : v # w => pc'[v] = pc[v] /\ job'[v] = job[v]
  BY DEF Start, Goto, Inv, TypeOK, HandsOk, Busy
<1>b. \/ state'[job[w]] = "running" /\ pc'[w] = "push" /\ job'[w] = job[w]
      \/ pc'[w] = "wait"
  BY DEF Start, Goto, Inv, TypeOK, HandsOk, Busy
<1>3. QueueOk' BY <1>1, <1>a DEF Start, Inv, QueueOk
<1>4. HandsOk'
  <2>1. \A v \in Workers : Busy(v)' => Busy(v) /\ job'[v] = job[v]
    BY <1>a, <1>b DEF Busy, Start
  <2>2. \A v \in Workers : v # w /\ Busy(v)' => job[v] # job[w] /\ job[v] \in Jobs
    BY <2>1 DEF Start, Inv, HandsOk, Busy
  <2>3. \A j \in running : \E v \in Workers : pc[v] \in {"run", "erase"} /\ job[v] = j /\ v # w
    BY DEF Inv, HandsOk, Start
  <2>4. (\A j \in running : \E v \in Workers : pc[v] \in {"run", "erase"} /\ job[v] = j)'
    BY <2>3, <1>a
  <2>5. ASSUME NEW v \in Workers, Busy(v)'
        PROVE  /\ pc'[v] = "start" => state'[job'[v]] \in {"queued", "aborted"}
               /\ pc'[v] # "start" => state'[job'[v]] \in {"running", "aborted"}
    <3>1. CASE v = w BY <3>1, <1>b, <2>5 DEF Busy
    <3>2. CASE v # w
      BY <3>2, <1>a, <2>1, <2>2, <2>5 DEF Inv, HandsOk, Busy
    <3> QED BY <3>1, <3>2
  <2>6. \A v \in Workers : pc'[v] = "start" => Busy(v)' BY DEF Busy
  <2> QED BY <1>1, <2>1, <2>4, <2>5, <2>6 DEF Inv, HandsOk
<1>5. StatesOk' BY <1>1 DEF Start, Inv, TypeOK, StatesOk, HandsOk, Busy, Goto
<1>6. MainOk' BY DEF Start, Inv, TypeOK, MainOk, WorkerStates, MainStates, Goto
<1> QED BY <1>2, <1>3, <1>4, <1>5, <1>6 DEF Inv

LEMMA PushInv == ASSUME Inv, NEW w \in Workers, Push(w) PROVE Inv'
<1>1. Queued' = Queued /\ Queued \subseteq Jobs BY SameQueue, QueuedJobs DEF Push, Inv
<1>2. TypeOK'
  <2>1. job[w] \in Jobs BY DEF Push, Inv, HandsOk, Busy
  <2>2. pc' \in [Workers -> WorkerStates] BY DEF Push, Inv, TypeOK, Goto, WorkerStates
  <2>3. running' \subseteq Jobs BY <2>1 DEF Push, Inv, TypeOK
  <2> QED BY <2>2, <2>3 DEF Push, Inv, TypeOK
<1>3. QueueOk' BY <1>1 DEF Push, Inv, TypeOK, QueueOk, Goto
<1>4. HandsOk' BY <1>1 DEF Push, Inv, TypeOK, HandsOk, QueueOk, Busy, Goto
<1>5. StatesOk' BY <1>1 DEF Push, Inv, TypeOK, StatesOk, HandsOk, Busy, Goto
<1>6. MainOk' BY DEF Push, Inv, TypeOK, MainOk, WorkerStates, MainStates, Goto
<1> QED BY <1>2, <1>3, <1>4, <1>5, <1>6 DEF Inv

LEMMA RunEndsInv == ASSUME Inv, NEW w \in Workers, RunEnds(w) PROVE Inv'
<1>1. Queued' = Queued /\ Queued \subseteq Jobs BY SameQueue, QueuedJobs DEF RunEnds, Inv
<1>2. TypeOK' BY DEF RunEnds, Inv, TypeOK, JobStates, WorkerStates, MainStates, Goto
<1>3. QueueOk' BY <1>1 DEF RunEnds, Inv, TypeOK, QueueOk, Goto
<1>4. HandsOk' BY <1>1 DEF RunEnds, Inv, TypeOK, HandsOk, QueueOk, Busy, Goto
<1>5. StatesOk' BY <1>1 DEF RunEnds, Inv, TypeOK, StatesOk, HandsOk, Busy, Goto
<1>6. MainOk' BY DEF RunEnds, Inv, TypeOK, MainOk, WorkerStates, MainStates, Goto
<1> QED BY <1>2, <1>3, <1>4, <1>5, <1>6 DEF Inv

LEMMA EraseInv == ASSUME Inv, NEW w \in Workers, Erase(w) PROVE Inv'
<1>1. Queued' = Queued /\ Queued \subseteq Jobs BY SameQueue, QueuedJobs DEF Erase, Inv
<1>2. TypeOK' BY DEF Erase, Inv, TypeOK, JobStates, WorkerStates, MainStates, Goto
<1>3. QueueOk' BY <1>1 DEF Erase, Inv, TypeOK, QueueOk, Goto
<1>4. HandsOk' BY <1>1 DEF Erase, Inv, TypeOK, HandsOk, QueueOk, Busy, Goto
<1>5. StatesOk' BY <1>1 DEF Erase, Inv, TypeOK, StatesOk, HandsOk, Busy, Goto
<1>6. MainOk' BY DEF Erase, Inv, TypeOK, MainOk, WorkerStates, MainStates, Goto
<1> QED BY <1>2, <1>3, <1>4, <1>5, <1>6 DEF Inv

LEMMA FinishInv == ASSUME Inv, NEW w \in Workers, Finish(w) PROVE Inv'
<1>1. Queued' = Queued /\ Queued \subseteq Jobs BY SameQueue, QueuedJobs DEF Finish, Inv
<1>2. TypeOK' BY DEF Finish, Inv, TypeOK, JobStates, WorkerStates, MainStates, Goto
<1>3. QueueOk' BY <1>1 DEF Finish, Inv, TypeOK, QueueOk, Goto
<1>4. HandsOk' BY <1>1 DEF Finish, Inv, TypeOK, HandsOk, QueueOk, Busy, Goto
<1>5. StatesOk' BY <1>1 DEF Finish, Inv, TypeOK, StatesOk, HandsOk, Busy, Goto
<1>6. MainOk' BY DEF Finish, Inv, TypeOK, MainOk, WorkerStates, MainStates, Goto
<1> QED BY <1>2, <1>3, <1>4, <1>5, <1>6 DEF Inv

(* Steps that change the queue. *)

LEMMA AddInv == ASSUME Inv, NEW j \in Jobs, Add(j) PROVE Inv'
<1>1. queue \in Seq(Jobs) /\ queue' = Append(queue, j) /\ state[j] = "new"
  BY DEF Add, Inv, TypeOK
<1>2. j \notin Queued BY <1>1 DEF Inv, QueueOk
<1>3. /\ queue' \in Seq(Jobs)
      /\ Queued' = Queued \cup {j}
      /\ \A i, k \in DOMAIN queue' : queue'[i] = queue'[k] => i = k
  BY <1>1, <1>2, AppendQueue DEF Inv, QueueOk
<1>4. Queued \subseteq Jobs BY QueuedJobs DEF Inv
<1>5. /\ state'[j] = "queued"
      /\ \A i \in Jobs : i # j => state'[i] = state[i]
      /\ pc' = pc /\ job' = job /\ running' = running
  BY DEF Add, Inv, TypeOK
<1>6. \A w \in Workers : Busy(w) => job[w] \in Jobs /\ job[w] # j
  BY <1>1 DEF Inv, HandsOk, Busy
<1>7. TypeOK' BY <1>3, Zenon DEF Add, Inv, TypeOK, JobStates, MainStates
<1>8. QueueOk' BY <1>3, <1>4, <1>5 DEF Inv, QueueOk
<1>9. HandsOk'
  <2>1. \A w \in Workers : Busy(w) => job[w] \in Jobs \ Queued' BY <1>3, <1>6 DEF Inv, HandsOk
  <2> QED BY <1>5, <1>6, <2>1 DEF Inv, HandsOk, Busy
<1>10. StatesOk'
  <2>1. \A i \in Jobs : state'[i] = "queued" =>
          i \in Queued' \/ \E w \in Workers : pc[w] = "start" /\ job[w] = i
    BY <1>3, <1>5 DEF Inv, StatesOk
  <2> QED BY <1>5, <2>1 DEF Inv, StatesOk, Busy
<1>11. MainOk' BY <1>1 DEF Add, Inv, TypeOK, MainOk
<1> QED BY <1>7, <1>8, <1>9, <1>10, <1>11 DEF Inv

LEMMA AbortQueuedInv == ASSUME Inv, AbortQueued PROVE Inv'
<1>1. /\ queue' \in Seq(Jobs)
      /\ Queued' = Queued \ Abortable
      /\ \A i, k \in DOMAIN queue' : queue'[i] = queue'[k] => i = k
  BY RestOfQueue DEF Inv, QueueOk
<1>2. Queued \subseteq Jobs BY QueuedJobs DEF Inv
<1>3. /\ \A j \in Jobs : state'[j] = IF j \in Queued \cap Abortable THEN "aborted" ELSE state[j]
      /\ pc' = pc /\ job' = job /\ running' = running
      /\ main = "abort queued" /\ main' = "abort running" /\ shutdown' = shutdown
  BY Zenon DEF AbortQueued, Aborted
<1>4. state' \in [Jobs -> JobStates]
  BY Zenon DEF AbortQueued, Aborted, Inv, TypeOK, JobStates
<1>5. TypeOK' BY <1>1, <1>4, Zenon DEF AbortQueued, Inv, TypeOK, MainStates
<1>6. QueueOk' BY <1>1, <1>2, <1>3 DEF Inv, QueueOk
<1>7. HandsOk'
  <2>1. \A w \in Workers : Busy(w) => job[w] \in Jobs \ Queued' /\ state'[job[w]] = state[job[w]]
    BY <1>1, <1>3 DEF Inv, HandsOk
  <2>2. \A w \in Workers : (pc[w] = "start" => Busy(w)) /\ (Busy(w)' <=> Busy(w))
    BY <1>3 DEF Busy
  <2>3. \A w \in Workers : /\ pc'[w] = "start" => state'[job'[w]] \in {"queued", "aborted"}
                           /\ Busy(w)' /\ pc'[w] # "start" => state'[job'[w]] \in {"running", "aborted"}
    BY <1>3, <2>1, <2>2 DEF Inv, HandsOk
  <2>4. (\A j \in running : \E w \in Workers : pc[w] \in {"run", "erase"} /\ job[w] = j)'
    BY <1>3 DEF Inv, HandsOk
  <2>5. \A v, w \in Workers : Busy(v)' /\ Busy(w)' /\ job'[v] = job'[w] => v = w
    BY <1>3, <2>2 DEF Inv, HandsOk
  <2>6. \A w \in Workers : Busy(w)' => job'[w] \in Jobs \ Queued' BY <1>3, <2>1, <2>2
  <2>a. (\A v \in Workers : Busy(v) => job[v] \in Jobs \ Queued)' BY <2>6
  <2>b. (\A u, v \in Workers : Busy(u) /\ Busy(v) /\ job[u] = job[v] => u = v)' BY <2>5
  <2>c. (\A v \in Workers : pc[v] = "start" => state[job[v]] \in {"queued", "aborted"})' BY <2>3
  <2>d. (\A v \in Workers :
           Busy(v) /\ pc[v] # "start" => state[job[v]] \in {"running", "aborted"})' BY <2>3
  <2> QED BY <2>a, <2>b, <2>c, <2>d, <2>4 DEF HandsOk
<1>8. StatesOk'
  <2>1. \A j \in Jobs : state'[j] = "queued" => state[j] = "queued" /\ j \notin Queued \cap Abortable
    BY <1>3
  <2>2. \A j \in Jobs : state'[j] = "queued" =>
          j \in Queued' \/ \E w \in Workers : pc[w] = "start" /\ job[w] = j
    BY <1>1, <2>1 DEF Inv, StatesOk
  <2>3. \A j \in Jobs : state'[j] = "running" => state[j] = "running" BY <1>3
  <2>4. \A j \in Jobs : state'[j] = "aborted" => j \in Abortable BY <1>3 DEF Inv, StatesOk
  <2> QED BY <1>3, <2>2, <2>3, <2>4 DEF Inv, StatesOk, Busy
<1>9. MainOk'
  <2>1. Queued = {} => queue' = <<>>
    <3>1. Queued = {} => Queued' = {} BY <1>1
    <3>2. Len(queue') \in Nat /\ DOMAIN queue' = 1 .. Len(queue') BY <1>1, LenProperties
    <3>3. queue' # <<>> => Len(queue') # 0 BY <1>1, EmptySeq
    <3>4. queue' # <<>> => 1 \in DOMAIN queue' BY <3>2, <3>3
    <3> QED BY <3>1, <3>4 DEF Queued
  <2>2. queue = <<>> => Queued = {} BY DEF Queued
  <2> QED BY <1>3, <2>1, <2>2 DEF Inv, MainOk
<1> QED BY <1>5, <1>6, <1>7, <1>8, <1>9 DEF Inv

LEMMA FetchJobInv == ASSUME Inv, NEW w \in Workers, FetchJob(w) PROVE Inv'
<1> DEFINE j == Head(queue)
<1>1. /\ queue' \in Seq(Jobs)
      /\ j \in Queued
      /\ Queued' = Queued \ {j}
      /\ \A i, k \in DOMAIN queue' : queue'[i] = queue'[k] => i = k
  BY TailQueue DEF FetchJob, Inv, TypeOK, QueueOk
<1>2. Queued \subseteq Jobs BY QueuedJobs DEF Inv
<1>3. /\ pc[w] = "fetch" /\ pc'[w] = "start" /\ job'[w] = j
      /\ \A v \in Workers : v # w => pc'[v] = pc[v] /\ job'[v] = job[v]
      /\ state' = state /\ running' = running /\ queue # <<>>
      /\ main' = main /\ shutdown' = shutdown
  BY DEF FetchJob, Goto, Inv, TypeOK
<1>4. pc' \in [Workers -> WorkerStates] /\ job' \in [Workers -> Jobs \cup {NoJob}]
  BY <1>1, <1>2 DEF FetchJob, Goto, Inv, TypeOK, WorkerStates
<1> HIDE DEF j
<1>5. TypeOK' BY <1>1, <1>4, Zenon DEF FetchJob, Inv, TypeOK
<1>6. QueueOk' BY <1>1, <1>3 DEF Inv, QueueOk
<1>7. HandsOk'
  <2>1. \A v \in Workers : v # w /\ Busy(v)' => Busy(v) /\ job'[v] = job[v] /\ job[v] # j
    BY <1>1, <1>3 DEF Busy, Inv, HandsOk
  <2>2. state[j] \in {"queued", "aborted"} BY <1>1 DEF Inv, QueueOk
  <2>3. \A v \in Workers : Busy(v)' => job'[v] \in Jobs \ Queued'
    BY <1>1, <1>2, <1>3, <2>1 DEF Inv, HandsOk
  <2>4. \A u, v \in Workers : Busy(u)' /\ Busy(v)' /\ job'[u] = job'[v] => u = v
    BY <1>3, <2>1 DEF Inv, HandsOk
  <2>5. \A v \in Workers : /\ pc'[v] = "start" => state'[job'[v]] \in {"queued", "aborted"}
                           /\ Busy(v)' /\ pc'[v] # "start" => state'[job'[v]] \in {"running", "aborted"}
    BY <1>3, <2>1, <2>2 DEF Inv, HandsOk, Busy
  <2>6. \A i \in running : \E v \in Workers : pc[v] \in {"run", "erase"} /\ job[v] = i /\ v # w
    BY <1>3 DEF Inv, HandsOk
  <2>7. (\A i \in running : \E v \in Workers : pc[v] \in {"run", "erase"} /\ job[v] = i)'
    BY <1>3, <2>6
  <2>a. (\A v \in Workers : Busy(v) => job[v] \in Jobs \ Queued)' BY <2>3
  <2>b. (\A u, v \in Workers : Busy(u) /\ Busy(v) /\ job[u] = job[v] => u = v)' BY <2>4
  <2>c. (\A v \in Workers : pc[v] = "start" => state[job[v]] \in {"queued", "aborted"})' BY <2>5
  <2>d. (\A v \in Workers :
           Busy(v) /\ pc[v] # "start" => state[job[v]] \in {"running", "aborted"})' BY <2>5
  <2> QED BY <2>a, <2>b, <2>c, <2>d, <2>7 DEF HandsOk
<1>8. StatesOk'
  <2>1. \A v \in Workers : Busy(v) => v # w /\ Busy(v)' /\ pc'[v] = pc[v] /\ job'[v] = job[v]
    BY <1>3 DEF Busy
  <2>2. \A i \in Jobs : state[i] = "queued" =>
          i \in Queued' \/ \E v \in Workers : pc'[v] = "start" /\ job'[v] = i
    <3> SUFFICES ASSUME NEW i \in Jobs, state[i] = "queued", i \notin Queued'
                 PROVE  \E v \in Workers : pc'[v] = "start" /\ job'[v] = i
      OBVIOUS
    <3>1. CASE i = j BY <3>1, <1>3
    <3>2. CASE i # j
      <4>1. PICK v \in Workers : pc[v] = "start" /\ job[v] = i BY <3>2, <1>1 DEF Inv, StatesOk
      <4> QED BY <4>1, <2>1 DEF Busy
    <3> QED BY <3>1, <3>2
  <2>3. \A i \in Jobs : state[i] = "running" => \E v \in Workers : Busy(v)' /\ job'[v] = i
    BY <2>1 DEF Inv, StatesOk
  <2> QED BY <1>3, <2>2, <2>3 DEF Inv, StatesOk
<1>9. MainOk' BY <1>3 DEF Inv, MainOk
<1> QED BY <1>5, <1>6, <1>7, <1>8, <1>9 DEF Inv

LEMMA NextInv == Inv /\ [Next]_vars => Inv'
<1> SUFFICES ASSUME Inv, [Next]_vars PROVE Inv' OBVIOUS
<1>1. CASE MainStep
  BY <1>1, AddSignalInv, AbortQueuedInv, AbortRunningInv, WakeWorkersInv, JoinInv DEF MainStep
<1>2. CASE Shutdown BY <1>2, ShutdownInv
<1>3. CASE \E j \in Jobs : Add(j) \/ Abort(j) BY <1>3, AddInv, AbortInv
<1>4. CASE \E w \in Workers : WorkerStep(w)
  BY <1>4, WaitInv, FetchJobInv, FindNoJobInv, StartInv, PushInv, RunEndsInv, EraseInv,
     FinishInv DEF WorkerStep
<1>5. CASE UNCHANGED vars
  BY <1>5, SameQueue DEF vars, Inv, TypeOK, QueueOk, HandsOk, StatesOk, MainOk, Busy
<1> QED BY <1>1, <1>2, <1>3, <1>4, <1>5 DEF Next

THEOREM Invariance == Spec => []Inv
<1>1. Init => Inv BY InitInv
<1>2. Inv /\ [Next]_vars => Inv' BY NextInv
<1> QED BY <1>1, <1>2, PTL DEF Spec

\* Every variable keeps its type, whatever the jobs and the workers.
THEOREM TypeCorrectness == Spec => []TypeOK
<1>1. Inv => TypeOK BY DEF Inv
<1> QED BY <1>1, Invariance, PTL

LEMMA AllGone ==
  ASSUME Inv, \A w \in Workers : pc[w] = "exit"
  PROVE  queue = <<>> /\ Queued = {} /\ \A w \in Workers : ~Busy(w)
<1>1. PICK w \in Workers : TRUE OBVIOUS
<1>2. queue = <<>> BY <1>1 DEF Inv, MainOk
<1> QED BY <1>2 DEF Queued, Busy

\* When the pool is off every job that may not be aborted has been completed
\* (the worker threads leave RunLoop only when the queue is empty).
THEOREM Completion == Spec => []ScheduledJobsComplete
<1>1. ASSUME Inv PROVE ScheduledJobsComplete
  <2> SUFFICES ASSUME main = "off", NEW j \in Jobs \ Abortable
               PROVE  state[j] \in {"new", "done"}
    BY DEF ScheduledJobsComplete
  <2>1. Queued = {} /\ \A w \in Workers : ~Busy(w) BY <1>1, AllGone DEF Inv, MainOk
  <2>2. state[j] # "queued" BY <1>1, <2>1 DEF Inv, StatesOk, Busy
  <2>3. state[j] # "running" BY <1>1, <2>1 DEF Inv, StatesOk
  <2>4. state[j] # "aborted" BY <1>1 DEF Inv, StatesOk
  <2>5. state[j] \in JobStates BY <1>1 DEF Inv, TypeOK
  <2> QED BY <2>2, <2>3, <2>4, <2>5 DEF JobStates
<1> QED BY <1>1, Invariance, PTL

-----------------------------------------------------------------------------
(* The refinement: what each step does to the sets of TaskPool.            *)

Unbegun(w) == pc[w] = "push" \/ (pc[w] = "start" /\ state[job[w]] = "queued")

LEMMA Waiting ==
  ASSUME NEW j
  PROVE  /\ j \in NotBegun <=>
              \/ j \in Queued /\ state[j] = "queued"
              \/ \E w \in Workers : job[w] = j /\ Unbegun(w)
         /\ j \in NotBegun' <=>
              \/ j \in Queued' /\ state'[j] = "queued"
              \/ \E w \in Workers : job'[w] = j /\ Unbegun(w)'
<1> DEFINE held == {job[w] : w \in {v \in Workers : Unbegun(v)}}
<1>1. /\ NotBegun = {i \in Queued : state[i] = "queued"} \cup held
      /\ NotBegun' = {i \in Queued' : state'[i] = "queued"} \cup held'
  BY DEF NotBegun, Unbegun
<1>2. /\ j \in held <=> \E w \in Workers : job[w] = j /\ Unbegun(w)
      /\ j \in held' <=> \E w \in Workers : job'[w] = j /\ Unbegun(w)'
  OBVIOUS
<1> QED BY <1>1, <1>2

LEMMA Working ==
  ASSUME NEW j
  PROVE  /\ j \in Begun <=> \E w \in Workers : job[w] = j /\ pc[w] = "run"
         /\ j \in Begun' <=> \E w \in Workers : job'[w] = j /\ pc'[w] = "run"
  BY DEF Begun

LEMMA Apart ==
  ASSUME Inv
  PROVE  /\ NotBegun \subseteq Accepted
         /\ Begun \subseteq Accepted
         /\ NotBegun \cap Begun = {}
         /\ Accepted \subseteq Jobs
<1>1. Accepted \subseteq Jobs BY DEF Accepted
<1>2. ASSUME NEW j \in NotBegun PROVE j \in Accepted /\ j \notin Begun
  <2>1. CASE j \in Queued /\ state[j] = "queued"
    BY <2>1, QueuedJobs, Working DEF Inv, HandsOk, Busy, Accepted
  <2>2. ASSUME NEW w \in Workers, job[w] = j, Unbegun(w)
        PROVE  j \in Accepted /\ j \notin Begun
    <3>1. Busy(w) BY <2>2 DEF Busy, Unbegun
    <3>2. j \in Jobs /\ state[j] # "new" BY <2>2, <3>1 DEF Inv, HandsOk
    <3>3. \A v \in Workers : pc[v] = "run" => Busy(v) /\ v # w BY <2>2 DEF Busy, Unbegun
    <3>4. j \notin Begun BY <2>2, <3>1, <3>3, Working DEF Inv, HandsOk
    <3> QED BY <3>2, <3>4 DEF Accepted
  <2> QED BY <1>2, <2>1, <2>2, Waiting
<1>3. ASSUME NEW j \in Begun PROVE j \in Accepted
  <2>1. PICK w \in Workers : job[w] = j /\ pc[w] = "run" BY <1>3, Working
  <2> QED BY <2>1 DEF Inv, HandsOk, Busy, Accepted
<1> QED BY <1>1, <1>2, <1>3

LEMMA Stutters ==
  ASSUME NotBegun' = NotBegun, Begun' = Begun, Accepted' = Accepted,
         shutdown' = shutdown, main' = "off" <=> main = "off"
  PROVE  UNCHANGED Pool!vars
<1>1. (main' = "off") = (main = "off") OBVIOUS
<1> QED BY <1>1 DEF Pool!vars

LEMMA Unseen ==
  ASSUME Inv, Queued' = Queued,
         \A j \in Jobs : /\ state'[j] = "queued" <=> state[j] = "queued"
                         /\ state'[j] = "new" <=> state[j] = "new",
         \A w \in Workers : /\ Unbegun(w)' <=> Unbegun(w)
                            /\ pc'[w] = "run" <=> pc[w] = "run"
                            /\ Unbegun(w) \/ pc[w] = "run" => job'[w] = job[w]
  PROVE  NotBegun' = NotBegun /\ Begun' = Begun /\ Accepted' = Accepted
<1>1. Queued \subseteq Jobs BY QueuedJobs DEF Inv
<1>2. ASSUME NEW j PROVE j \in NotBegun' <=> j \in NotBegun BY <1>1, Waiting
<1>3. ASSUME NEW j PROVE j \in Begun' <=> j \in Begun BY Working
<1> QED BY <1>2, <1>3 DEF Accepted

LEMMA QuietMain ==
  ASSUME Inv, AddSignal \/ AbortRunning \/ WakeWorkers
  PROVE  UNCHANGED Pool!vars
<1>1. Queued' = Queued /\ pc' = pc /\ job' = job /\ shutdown' = shutdown
  BY SameQueue DEF AddSignal, AbortRunning, WakeWorkers
<1>2. main' = "off" <=> main = "off" BY DEF AddSignal, AbortRunning, WakeWorkers
<1>3. ASSUME NEW j \in Jobs
      PROVE  /\ state'[j] = "queued" <=> state[j] = "queued"
             /\ state'[j] = "new" <=> state[j] = "new"
  <2>1. CASE AddSignal \/ WakeWorkers BY <2>1 DEF AddSignal, WakeWorkers
  <2>2. CASE AbortRunning
    <3>1. j \in running => state[j] \in {"running", "aborted"}
      BY DEF Inv, HandsOk, Busy
    <3> QED BY <2>2, <3>1 DEF AbortRunning, Aborted
  <2> QED BY <2>1, <2>2
<1>4. \A w \in Workers : Unbegun(w) => job[w] \in Jobs BY DEF Unbegun, Inv, HandsOk, Busy
<1>5. \A w \in Workers : pc[w] = "start" => job[w] \in Jobs BY DEF Inv, HandsOk, Busy
<1>6. \A w \in Workers : Unbegun(w)' <=> Unbegun(w) BY <1>1, <1>3, <1>5 DEF Unbegun
<1> QED BY <1>1, <1>2, <1>3, <1>6, Unseen, Stutters

LEMMA QuietWorker ==
  ASSUME Inv, NEW w \in Workers, Wait(w) \/ FindNoJob(w) \/ Erase(w) \/ Finish(w)
  PROVE  UNCHANGED Pool!vars
<1>1. Queued' = Queued /\ shutdown' = shutdown /\ main' = main
  BY SameQueue DEF Wait, FindNoJob, Erase, Finish
<1>2. /\ pc[w] \in {"wait", "fetch", "erase", "finish"}
      /\ pc'[w] \in {"wait", "fetch", "exit", "finish"}
      /\ \A v \in Workers : v # w => pc'[v] = pc[v] /\ job'[v] = job[v]
  BY DEF Wait, FindNoJob, Erase, Finish, Goto, Inv, TypeOK
<1>3. ASSUME NEW j \in Jobs
      PROVE  /\ state'[j] = "queued" <=> state[j] = "queued"
             /\ state'[j] = "new" <=> state[j] = "new"
  BY DEF Wait, FindNoJob, Erase, Finish, Inv, TypeOK
<1>4. \A v \in Workers : pc[v] = "start" => job[v] \in Jobs BY DEF Inv, HandsOk, Busy
<1>5. \A v \in Workers : Unbegun(v)' <=> Unbegun(v) BY <1>2, <1>3, <1>4 DEF Unbegun
<1>6. \A v \in Workers : Unbegun(v) => v # w BY <1>2 DEF Unbegun
<1>7. NotBegun' = NotBegun /\ Begun' = Begun /\ Accepted' = Accepted
  BY <1>1, <1>2, <1>3, <1>5, <1>6, Unseen
<1> QED BY <1>1, <1>7, Stutters

\* The head of the queue becomes the job of a worker that starts
LEMMA QuietFetch ==
  ASSUME Inv, NEW w \in Workers, FetchJob(w)
  PROVE  UNCHANGED Pool!vars
<1>1. Head(queue) \in Queued /\ Queued' = Queued \ {Head(queue)}
  BY TailQueue DEF FetchJob, Inv, TypeOK, QueueOk
<1>2. /\ pc[w] = "fetch" /\ pc'[w] = "start" /\ job'[w] = Head(queue)
      /\ \A v \in Workers : v # w => pc'[v] = pc[v] /\ job'[v] = job[v]
      /\ state' = state /\ main' = main /\ shutdown' = shutdown
  BY DEF FetchJob, Goto, Inv, TypeOK
<1>3. /\ \A v \in Workers : v # w => (Unbegun(v)' <=> Unbegun(v))
      /\ Unbegun(w)' <=> state[Head(queue)] = "queued"
      /\ ~Unbegun(w)
  BY <1>2 DEF Unbegun
<1>4. ASSUME NEW j PROVE j \in NotBegun' <=> j \in NotBegun
  <2>1. CASE j = Head(queue) BY <1>1, <1>2, <1>3, <2>1, Waiting DEF Inv, QueueOk, HandsOk, Busy, Unbegun
  <2>2. CASE j # Head(queue) BY <1>1, <1>2, <1>3, <2>2, Waiting
  <2> QED BY <2>1, <2>2
<1>5. ASSUME NEW j PROVE j \in Begun' <=> j \in Begun BY <1>2, Working
<1> QED BY <1>2, <1>4, <1>5, Stutters DEF Accepted

LEMMA QuietStart ==
  ASSUME Inv, NEW w \in Workers, Start(w)
  PROVE  UNCHANGED Pool!vars
<1>1. /\ pc[w] = "start" /\ job[w] \in Jobs \ Queued
      /\ \A v \in Workers : v # w => pc'[v] = pc[v] /\ job'[v] = job[v]
      /\ \A j \in Jobs : j # job[w] => state'[j] = state[j]
      /\ main' = main /\ shutdown' = shutdown /\ Queued' = Queued
  BY SameQueue DEF Start, Goto, Inv, TypeOK, HandsOk, Busy
<1>2. \/ state[job[w]] = "queued" /\ state'[job[w]] = "running" /\ pc'[w] = "push" /\ job'[w] = job[w]
      \/ state[job[w]] = "aborted" /\ state'[job[w]] = "aborted" /\ pc'[w] = "wait"
  BY DEF Start, Goto, Inv, TypeOK, HandsOk, Busy
<1>3. Queued \subseteq Jobs BY QueuedJobs DEF Inv
<1>4. ASSUME NEW v \in Workers, v # w, pc[v] = "start"
      PROVE  job[v] \in Jobs /\ job[v] # job[w]
  BY <1>1, <1>4 DEF Inv, HandsOk, Busy
<1>5. /\ \A v \in Workers : Unbegun(v)' <=> Unbegun(v)
      /\ Unbegun(w) => job'[w] = job[w]
  BY <1>1, <1>2, <1>4 DEF Unbegun
<1>6. ASSUME NEW j PROVE j \in NotBegun' <=> j \in NotBegun
  <2>1. j \in Queued => state'[j] = state[j] BY <1>1, <1>3
  <2> QED BY <1>1, <1>5, <2>1, Waiting
<1>7. ASSUME NEW j PROVE j \in Begun' <=> j \in Begun BY <1>1, <1>2, Working
<1>8. Accepted' = Accepted BY <1>1, <1>2 DEF Accepted
<1> QED BY <1>1, <1>6, <1>7, <1>8, Stutters

(* Steps that TaskPool takes. *)

LEMMA AddAccepts ==
  ASSUME Inv, NEW j \in Jobs, Add(j)
  PROVE  Pool!Accept(j)
<1>1. /\ state[j] = "new" /\ state'[j] = "queued"
      /\ \A i \in Jobs : i # j => state'[i] = state[i]
      /\ pc' = pc /\ job' = job /\ shutdown' = shutdown
      /\ main = "on" /\ main' = "signal"
  BY DEF Add, Inv, TypeOK
<1>2. j \notin Queued BY <1>1 DEF Inv, QueueOk
<1>3. Queued' = Queued \cup {j}
  BY <1>2, AppendQueue DEF Add, Inv, TypeOK
<1>4. Queued \subseteq Jobs BY QueuedJobs DEF Inv
<1>5. ASSUME NEW w \in Workers, Unbegun(w) \/ pc[w] = "start"
      PROVE  job[w] \in Jobs /\ job[w] # j
  BY <1>1, <1>5 DEF Unbegun, Inv, HandsOk, Busy
<1>6. \A w \in Workers : Unbegun(w)' <=> Unbegun(w) BY <1>1, <1>5 DEF Unbegun
<1>7. NotBegun' = NotBegun \cup {j}
  <2>1. ASSUME NEW i PROVE i \in NotBegun' <=> i \in NotBegun \cup {j}
    <3>1. CASE i = j BY <1>1, <1>3, <3>1, Waiting
    <3>2. CASE i # j
      <4>1. i \in Queued' <=> i \in Queued BY <1>3, <3>2
      <4>2. i \in Queued => state'[i] = state[i] BY <1>1, <1>4, <3>2
      <4> QED BY <1>1, <1>6, <3>2, <4>1, <4>2, Waiting
    <3> QED BY <3>1, <3>2
  <2> QED BY <2>1
<1>8. Begun' = Begun
  <2>1. ASSUME NEW i PROVE i \in Begun' <=> i \in Begun BY <1>1, Working
  <2> QED BY <2>1
<1>9. Accepted' = Accepted \cup {j} /\ j \notin Accepted BY <1>1 DEF Accepted
<1>10. j \notin NotBegun /\ j \notin Begun BY <1>9, Apart
<1>11. ~shutdown BY <1>1 DEF Inv, MainOk
<1> QED
  <2>1. j \notin Accepted \ (NotBegun \cup Begun) BY <1>9
  <2>2. Accepted' \ (NotBegun' \cup Begun') = Accepted \ (NotBegun \cup Begun)
    BY <1>7, <1>8, <1>9, <1>10
  <2>3. (~shutdown)' = ~shutdown /\ (main = "off")' = (main = "off") BY <1>1
  <2> QED BY <1>7, <1>8, <1>10, <1>11, <2>1, <2>2, <2>3 DEF Pool!Accept

\* Nothing but state changes, and jobs that wait are aborted
LEMMA AbortDrops ==
  ASSUME Inv, NEW dropped \in SUBSET (NotBegun \cap Abortable),
         NotBegun' = NotBegun \ dropped, Begun' = Begun, Accepted' = Accepted,
         shutdown' = shutdown, main' = "off" <=> main = "off"
  PROVE  Pool!Drop(dropped) \/ UNCHANGED Pool!vars
<1>1. CASE dropped = {} BY <1>1, Stutters
<1>2. CASE dropped # {}
  <2>1. (~shutdown)' = ~shutdown /\ (main = "off")' = (main = "off") OBVIOUS
  <2>2. dropped \subseteq Accepted /\ dropped \cap Begun = {} BY Apart
  <2>3. Accepted' \ (NotBegun' \cup Begun') = (Accepted \ (NotBegun \cup Begun)) \cup dropped
    BY <2>2, Apart
  <2> QED BY <1>2, <2>1, <2>3 DEF Pool!Drop
<1> QED BY <1>1, <1>2

LEMMA AbortStep ==
  ASSUME Inv, NEW j \in Jobs, Abort(j)
  PROVE  (\E dropped \in SUBSET Abortable : Pool!Drop(dropped)) \/ UNCHANGED Pool!vars
<1> DEFINE dropped == {j} \cap NotBegun \cap {i \in Jobs : state[i] = "queued"}
<1>1. /\ j \in Abortable /\ state[j] # "new" /\ state'[j] = "aborted"
      /\ \A i \in Jobs : i # j => state'[i] = state[i]
      /\ pc' = pc /\ job' = job /\ shutdown' = shutdown /\ main' = main
      /\ Queued' = Queued
  BY SameQueue DEF Abort, Inv, TypeOK
<1>2. Queued \subseteq Jobs BY QueuedJobs DEF Inv
<1>3. \A w \in Workers : pc[w] \in {"start", "push"} => job[w] \in Jobs
  BY DEF Inv, HandsOk, Busy
<1>4. \A w \in Workers : pc[w] = "push" => state[job[w]] # "queued"
  BY DEF Inv, HandsOk, Busy
<1>5. \A w \in Workers : job[w] # j => (Unbegun(w)' <=> Unbegun(w))
  BY <1>1, <1>3 DEF Unbegun
<1>6. NotBegun' = NotBegun \ dropped
  <2>1. ASSUME NEW i PROVE i \in NotBegun' <=> i \in NotBegun \ dropped
    <3>1. CASE i # j
      <4>1. i \in Queued => state'[i] = state[i] BY <1>1, <1>2, <3>1
      <4> QED BY <1>1, <1>5, <3>1, <4>1, Waiting
    <3>2. CASE i = j /\ state[j] = "queued"
      <4>1. \A w \in Workers : job[w] = j => ~Unbegun(w)' BY <1>1, <1>4, <3>2 DEF Unbegun
      <4> QED BY <1>1, <3>2, <4>1, Waiting
    <3>3. CASE i = j /\ state[j] # "queued"
      <4>1. \A w \in Workers : job[w] = j => (Unbegun(w)' <=> Unbegun(w))
        BY <1>1, <3>3 DEF Unbegun
      <4> QED BY <1>1, <3>3, <4>1, Waiting
    <3> QED BY <3>1, <3>2, <3>3
  <2> QED BY <2>1
<1>7. Begun' = Begun
  <2>1. ASSUME NEW i PROVE i \in Begun' <=> i \in Begun BY <1>1, Working
  <2> QED BY <2>1
<1>8. Accepted' = Accepted BY <1>1 DEF Accepted
<1>9. dropped \subseteq NotBegun \cap Abortable BY <1>1
<1> HIDE DEF dropped
<1>10. Pool!Drop(dropped) \/ UNCHANGED Pool!vars
  BY <1>1, <1>6, <1>7, <1>8, <1>9, AbortDrops
<1> QED BY <1>9, <1>10

LEMMA AbortQueuedStep ==
  ASSUME Inv, AbortQueued
  PROVE  (\E dropped \in SUBSET Abortable : Pool!Drop(dropped)) \/ UNCHANGED Pool!vars
<1> DEFINE dropped == {i \in Queued \cap Abortable : state[i] = "queued"}
<1>1. Queued' = Queued \ Abortable BY RestOfQueue DEF Inv, QueueOk
<1>2. Queued \subseteq Jobs BY QueuedJobs DEF Inv
<1>3. /\ \A j \in Jobs : state'[j] = IF j \in Queued \cap Abortable THEN "aborted" ELSE state[j]
      /\ pc' = pc /\ job' = job /\ shutdown' = shutdown
      /\ main = "abort queued" /\ main' = "abort running"
  BY Zenon DEF AbortQueued, Aborted
<1>4. ASSUME NEW w \in Workers, pc[w] \in {"start", "push"}
      PROVE  job[w] \in Jobs /\ state'[job[w]] = state[job[w]] /\ job[w] \notin Queued
  BY <1>3, <1>4 DEF Inv, HandsOk, Busy
<1>5. \A w \in Workers : Unbegun(w)' <=> Unbegun(w) BY <1>3, <1>4 DEF Unbegun
<1>6. NotBegun' = NotBegun \ dropped
  <2>1. ASSUME NEW i PROVE i \in NotBegun' <=> i \in NotBegun \ dropped
    <3>1. CASE i \in Queued
      <4>1. \A w \in Workers : job[w] = i => ~Unbegun(w) BY <1>4, <3>1 DEF Unbegun
      <4>2. i \notin Abortable => state'[i] = state[i] BY <1>2, <1>3, <3>1
      <4> QED BY <1>1, <1>3, <1>5, <3>1, <4>1, <4>2, Waiting
    <3>2. CASE i \notin Queued BY <1>1, <1>3, <1>5, <3>2, Waiting
    <3> QED BY <3>1, <3>2
  <2> QED BY <2>1
<1>7. Begun' = Begun
  <2>1. ASSUME NEW i PROVE i \in Begun' <=> i \in Begun BY <1>3, Working
  <2> QED BY <2>1
<1>8. Accepted' = Accepted
  <2>1. \A j \in Jobs : state'[j] = "new" <=> state[j] = "new" BY <1>3 DEF Inv, QueueOk
  <2> QED BY <2>1 DEF Accepted
<1>9. dropped \subseteq NotBegun \cap Abortable BY Waiting
<1> HIDE DEF dropped
<1>10. Pool!Drop(dropped) \/ UNCHANGED Pool!vars
  BY <1>3, <1>6, <1>7, <1>8, <1>9, AbortDrops
<1> QED BY <1>9, <1>10

LEMMA PushBegins ==
  ASSUME Inv, NEW w \in Workers, Push(w)
  PROVE  Pool!Begin(job[w]) /\ job[w] \in Jobs
<1>1. /\ pc[w] = "push" /\ pc'[w] = "run" /\ job' = job /\ state' = state
      /\ \A v \in Workers : v # w => pc'[v] = pc[v]
      /\ main' = main /\ shutdown' = shutdown /\ Queued' = Queued
  BY SameQueue DEF Push, Goto, Inv, TypeOK
<1>2. /\ job[w] \in Jobs \ Queued
      /\ \A v \in Workers : Unbegun(v) /\ job[v] = job[w] => v = w
  BY <1>1 DEF Inv, HandsOk, Busy, Unbegun
<1>3. \A v \in Workers : Unbegun(v)' <=> Unbegun(v) /\ v # w BY <1>1 DEF Unbegun
<1>4. job[w] \in NotBegun BY <1>1, Waiting DEF Unbegun
<1>5. NotBegun' = NotBegun \ {job[w]}
  <2>1. ASSUME NEW i PROVE i \in NotBegun' <=> i \in NotBegun \ {job[w]}
    BY <1>1, <1>2, <1>3, Waiting
  <2> QED BY <2>1
<1>6. Begun' = Begun \cup {job[w]}
  <2>1. ASSUME NEW i PROVE i \in Begun' <=> i \in Begun \cup {job[w]}
    BY <1>1, Working
  <2> QED BY <2>1
<1>7. Accepted' = Accepted BY <1>1 DEF Accepted
<1>8. Accepted' \ (NotBegun' \cup Begun') = Accepted \ (NotBegun \cup Begun)
  BY <1>4, <1>5, <1>6, <1>7
<1>9. (~shutdown)' = ~shutdown /\ (main = "off")' = (main = "off") BY <1>1
<1> QED BY <1>2, <1>4, <1>5, <1>6, <1>8, <1>9 DEF Pool!Begin

LEMMA RunEndsEnds ==
  ASSUME Inv, NEW w \in Workers, RunEnds(w)
  PROVE  Pool!End(job[w]) /\ job[w] \in Jobs
<1>1. /\ pc[w] = "run" /\ pc'[w] = "erase" /\ job' = job /\ state' = state
      /\ \A v \in Workers : v # w => pc'[v] = pc[v]
      /\ main' = main /\ shutdown' = shutdown /\ Queued' = Queued
  BY SameQueue DEF RunEnds, Goto, Inv, TypeOK
<1>2. /\ job[w] \in Jobs
      /\ \A v \in Workers : pc[v] = "run" /\ job[v] = job[w] => v = w
  BY <1>1 DEF Inv, HandsOk, Busy
<1>3. \A v \in Workers : Unbegun(v)' <=> Unbegun(v) BY <1>1 DEF Unbegun
<1>4. job[w] \in Begun BY <1>1, Working
<1>5. NotBegun' = NotBegun
  <2>1. ASSUME NEW i PROVE i \in NotBegun' <=> i \in NotBegun BY <1>1, <1>3, Waiting
  <2> QED BY <2>1
<1>6. Begun' = Begun \ {job[w]}
  <2>1. ASSUME NEW i PROVE i \in Begun' <=> i \in Begun \ {job[w]}
    BY <1>1, <1>2, Working
  <2> QED BY <2>1
<1>7. Accepted' = Accepted BY <1>1 DEF Accepted
<1>8. Accepted' \ (NotBegun' \cup Begun')
        = (Accepted \ (NotBegun \cup Begun)) \cup {job[w]}
  BY <1>4, <1>5, <1>6, <1>7, Apart
<1>9. (~shutdown)' = ~shutdown /\ (main = "off")' = (main = "off") BY <1>1
<1> QED BY <1>2, <1>4, <1>5, <1>6, <1>8, <1>9 DEF Pool!End

LEMMA ShutdownCloses ==
  ASSUME Inv, Shutdown
  PROVE  Pool!Close
<1>1. /\ ~shutdown /\ shutdown' = TRUE /\ main = "on" /\ main' = "abort queued"
      /\ state' = state /\ pc' = pc /\ job' = job /\ Queued' = Queued
  BY SameQueue DEF Shutdown, Inv, MainOk
<1>2. NotBegun' = NotBegun /\ Begun' = Begun /\ Accepted' = Accepted
  BY <1>1, Unseen DEF Unbegun
<1>3. (~shutdown)' = FALSE /\ (main = "off")' = (main = "off") BY <1>1
<1> QED BY <1>1, <1>2, <1>3 DEF Pool!Close

\* The last worker has left: nothing is queued and nobody holds a job
LEMMA JoinStops ==
  ASSUME Inv, Join
  PROVE  Pool!Stop
<1>1. /\ main = "join" /\ main' = "off" /\ shutdown' = shutdown
      /\ \A w \in Workers : pc[w] = "exit"
      /\ state' = state /\ pc' = pc /\ job' = job /\ Queued' = Queued
  BY SameQueue DEF Join
<1>2. shutdown BY <1>1 DEF Inv, MainOk
<1>3. Queued = {} BY <1>1, AllGone DEF Inv, MainOk
<1>4. NotBegun = {} /\ Begun = {}
  <2>1. ASSUME NEW i PROVE i \notin NotBegun BY <1>1, <1>3, Waiting DEF Unbegun
  <2>2. ASSUME NEW i PROVE i \notin Begun BY <1>1, Working
  <2> QED BY <2>1, <2>2
<1>5. NotBegun' = NotBegun /\ Begun' = Begun /\ Accepted' = Accepted
  BY <1>1, Unseen DEF Unbegun
<1>6. (~shutdown)' = ~shutdown /\ (main = "off")' = TRUE /\ main # "off" BY <1>1
<1> QED BY <1>2, <1>4, <1>5, <1>6 DEF Pool!Stop

LEMMA StartsAsPool ==
  ASSUME Init
  PROVE  Pool!Init
<1>1. Queued = {} BY DEF Init, Queued
<1>2. NotBegun = {} /\ Begun = {} /\ Accepted = {}
  <2>1. ASSUME NEW i PROVE i \notin NotBegun BY <1>1, Waiting DEF Init, Unbegun
  <2>2. ASSUME NEW i PROVE i \notin Begun BY Working DEF Init
  <2> QED BY <2>1, <2>2 DEF Init, Accepted
<1> QED BY <1>2 DEF Init, Pool!Init

LEMMA StepsAsPool ==
  ASSUME Inv, [Next]_vars
  PROVE  [Pool!Next]_(Pool!vars)
<1>1. CASE MainStep
  <2>1. CASE AddSignal \/ AbortRunning \/ WakeWorkers BY <2>1, QuietMain
  <2>2. CASE AbortQueued BY <2>2, AbortQueuedStep DEF Pool!Next
  <2>3. CASE Join BY <2>3, JoinStops DEF Pool!Next
  <2> QED BY <1>1, <2>1, <2>2, <2>3 DEF MainStep
<1>2. CASE Shutdown BY <1>2, ShutdownCloses DEF Pool!Next
<1>3. ASSUME NEW j \in Jobs, Add(j) PROVE Pool!Next
  BY <1>3, AddAccepts DEF Pool!Next
<1>4. ASSUME NEW j \in Jobs, Abort(j) PROVE [Pool!Next]_(Pool!vars)
  BY <1>4, AbortStep DEF Pool!Next
<1>5. ASSUME NEW w \in Workers, WorkerStep(w) PROVE [Pool!Next]_(Pool!vars)
  <2>1. CASE Wait(w) \/ FindNoJob(w) \/ Erase(w) \/ Finish(w) BY <2>1, QuietWorker
  <2>2. CASE FetchJob(w) BY <2>2, QuietFetch
  <2>3. CASE Start(w) BY <2>3, QuietStart
  <2>4. CASE Push(w) BY <2>4, PushBegins DEF Pool!Next
  <2>5. CASE RunEnds(w) BY <2>5, RunEndsEnds DEF Pool!Next
  <2> QED BY <1>5, <2>1, <2>2, <2>3, <2>4, <2>5 DEF WorkerStep
<1>6. CASE UNCHANGED vars
  <2>1. state' = state /\ pc' = pc /\ job' = job /\ shutdown' = shutdown /\ main' = main
        /\ Queued' = Queued
    BY <1>6, SameQueue DEF vars
  <2>2. NotBegun' = NotBegun /\ Begun' = Begun /\ Accepted' = Accepted
    BY <2>1, Unseen DEF Unbegun
  <2> QED BY <2>1, <2>2, Stutters
<1> QED BY <1>1, <1>2, <1>3, <1>4, <1>5, <1>6 DEF Next

\* Every behaviour of the pool of threads is one of TaskPool: a job is worked
\* on once, only abortable jobs that nobody has begun are dropped, and nothing
\* is left when Shutdown returns.
THEOREM Implementation == Spec => ImplementsPool
<1>1. Init => Pool!Init BY StartsAsPool
<1>2. Inv /\ [Next]_vars => [Pool!Next]_(Pool!vars) BY StepsAsPool
<1> QED BY <1>1, <1>2, Invariance, PTL DEF Spec, ImplementsPool, Pool!Spec

=============================================================================
