-------------------------------- MODULE Http --------------------------------
(***************************************************************************)
(* CHttp of engine/shared/http.cpp: one thread that drives all requests    *)
(* through libcurl, and the threads that hand it requests, wait for them   *)
(* and shut it down.  m_Lock guards the pending requests; the thread keeps *)
(* it from an error on to its end (Locked).  libcurl is external: polling, *)
(* performing and setting up a transfer may fail, and a transfer ends with *)
(* any result.  The files a client may download to are left out: no        *)
(* request of the server writes one.                                       *)
(***************************************************************************)
EXTENDS Naturals, Sequences

CONSTANT Requests  \* the requests that may be made

VARIABLES
    request,   \* m_State of each request ("new" before Run)
    answers,   \* how often OnCompletion was called for each (history)
    pending,   \* m_PendingRequests
    batch,     \* NewRequests, the pending ones the thread has taken
    transfers, \* m_RunningRequests
    wakeup,    \* a curl_multi_wakeup that no poll has seen
    http,      \* m_State of CHttp after Init
    closing,   \* m_Shutdown
    deadline,  \* whether m_ShutdownTime is set
    at         \* where the thread is in RunLoop

httpVars == <<request, answers, pending, batch, transfers, wakeup, http,
              closing, deadline, at>>

Results == {"done", "error", "aborted"}
RequestStates == Results \cup {"new", "queued", "running"}

HttpInit ==
    /\ request = [r \in Requests |-> "new"]
    /\ answers = [r \in Requests |-> 0]
    /\ pending = <<>> /\ batch = <<>> /\ transfers = {}
    /\ wakeup = FALSE
    /\ http = "running" /\ closing = FALSE /\ deadline = FALSE
    /\ at = "poll"

Locked == at = "stop" /\ http = "error"

\* OnCompletionInternal for the requests in DOMAIN results
Complete(results) ==
    /\ request' = [r \in Requests |->
                     IF r \in DOMAIN results THEN results[r] ELSE request[r]]
    /\ answers' = [r \in Requests |->
                     answers[r] + (IF r \in DOMAIN results THEN 1 ELSE 0)]

AbortAll(requests) == Complete([r \in requests |-> "aborted"])

-----------------------------------------------------------------------------
(* The other threads.                                                      *)

Refuse(r) ==
    /\ AbortAll({r})
    /\ UNCHANGED <<pending, batch, transfers, wakeup, http, closing, deadline, at>>

Accept(r) ==
    /\ request' = [request EXCEPT ![r] = "queued"]
    /\ pending' = Append(pending, r)
    /\ wakeup' = TRUE
    /\ UNCHANGED <<answers, batch, transfers, http, closing, deadline, at>>

RunSleeping(r) ==  \* a wrong Run: nobody wakes the thread
    /\ ~Locked /\ request[r] = "new"
    /\ IF closing \/ http = "error" THEN Refuse(r)
       ELSE /\ request' = [request EXCEPT ![r] = "queued"]
            /\ pending' = Append(pending, r)
            /\ UNCHANGED <<answers, batch, transfers, wakeup, http, closing,
                           deadline, at>>

Run(r) ==
    /\ ~Locked /\ request[r] = "new"
    /\ IF closing \/ http = "error" THEN Refuse(r) ELSE Accept(r)

CloseSleeping ==  \* a wrong Close: nobody wakes the thread
    /\ ~Locked
    /\ closing' = (closing \/ http = "running")
    /\ UNCHANGED <<request, answers, pending, batch, transfers, wakeup, http,
                   deadline, at>>

\* CHttp::Shutdown, which returns at once; only the first of a running thread
\* does anything
Close ==
    /\ ~Locked
    /\ IF closing \/ http # "running" THEN UNCHANGED httpVars
       ELSE /\ closing' = TRUE /\ wakeup' = TRUE
            /\ UNCHANGED <<request, answers, pending, batch, transfers, http,
                           deadline, at>>

-----------------------------------------------------------------------------
(* The thread: one round of RunLoop.                                       *)

Fail ==
    /\ http' = "error" /\ at' = "stop"

PollOnceMore ==  \* a wrong Poll: the shutdown is seen before the new requests
    /\ at = "poll" /\ (wakeup \/ deadline \/ transfers # {})
    /\ wakeup' = FALSE
    /\ deadline' = closing
    /\ at' = IF closing /\ transfers = {} THEN "stop" ELSE "perform"
    /\ UNCHANGED <<request, answers, pending, batch, transfers, http, closing>>

\* Returns for a wakeup, for something of a transfer, or by its timeout,
\* which is infinite until the shutdown is seen
Poll ==
    /\ at = "poll" /\ (wakeup \/ deadline \/ transfers # {})
    /\ wakeup' = FALSE
    /\ deadline' = closing
    /\ \/ \* m_ShutdownTime is over, or nothing is left to wait for
          /\ closing /\ deadline
          /\ at' = "stop"
          /\ UNCHANGED http
       \/ \* go on; while transfers are left the time need not be over
          /\ ~(closing /\ deadline /\ transfers = {})
          /\ at' = "perform"
          /\ UNCHANGED http
       \/ \* curl_multi_poll failed
          /\ ~(closing /\ deadline /\ transfers = {})
          /\ Fail
    /\ UNCHANGED <<request, answers, pending, batch, transfers, closing>>

Perform(finished) ==
    /\ at = "perform"
    /\ \E results \in [finished -> Results] : Complete(results)
    /\ transfers' = transfers \ finished
    /\ at' = "swap"
    /\ UNCHANGED <<pending, batch, wakeup, http, closing, deadline>>

PerformFails ==
    /\ at = "perform"
    /\ Fail
    /\ UNCHANGED <<request, answers, pending, batch, transfers, wakeup, closing,
                   deadline>>

TakePending ==
    /\ at = "swap"
    /\ batch' = pending /\ pending' = <<>>
    /\ at' = "begin"
    /\ UNCHANGED <<request, answers, transfers, wakeup, http, closing, deadline>>

BeginTransfer ==
    /\ at = "begin" /\ batch # <<>>
    /\ batch' = Tail(batch)
    /\ \/ /\ transfers' = transfers \cup {Head(batch)}
          /\ request' = [request EXCEPT ![Head(batch)] = "running"]
          /\ UNCHANGED answers
       \/ \* ConfigureHandle failed
          /\ AbortAll({Head(batch)})
          /\ UNCHANGED transfers
    /\ UNCHANGED <<pending, wakeup, http, closing, deadline, at>>

\* curl_easy_init or curl_multi_add_handle failed
BeginFails ==
    /\ at = "begin" /\ batch # <<>>
    /\ pending' = pending \o batch /\ batch' = <<>>
    /\ Fail
    /\ UNCHANGED <<request, answers, transfers, wakeup, closing, deadline>>

RoundOver ==
    /\ at = "begin" /\ batch = <<>>
    /\ at' = "poll"
    /\ UNCHANGED <<request, answers, pending, batch, transfers, wakeup, http,
                   closing, deadline>>

StopTransfers ==  \* a wrong Stop: only the transfers are completed
    /\ at = "stop"
    /\ AbortAll(transfers)
    /\ at' = "ended"
    /\ UNCHANGED <<pending, batch, transfers, wakeup, http, closing, deadline>>

Stop ==
    /\ at = "stop"
    /\ AbortAll({pending[i] : i \in DOMAIN pending} \cup transfers)
    /\ at' = "ended"
    /\ UNCHANGED <<pending, batch, transfers, wakeup, http, closing, deadline>>

-----------------------------------------------------------------------------
ThreadStep ==
    \/ Poll
    \/ \E finished \in SUBSET transfers : Perform(finished)
    \/ PerformFails
    \/ TakePending
    \/ BeginTransfer
    \/ BeginFails
    \/ RoundOver
    \/ Stop

HttpNext == (\E r \in Requests : Run(r)) \/ Close \/ ThreadStep

HttpSpec == HttpInit /\ [][HttpNext]_httpVars

\* Every transfer ends: with an answer or by the time limit each request of
\* the server has.
EndTransfer(r) == \E finished \in SUBSET transfers :
                      r \in finished /\ Perform(finished)

-----------------------------------------------------------------------------
(* Properties.                                                             *)

\* A request is completed once, and its state says so exactly then: whoever
\* waits for it neither waits for ever nor reads a result that is changed
\* again, whether it ends by itself, is refused, or is cut off by an error
\* or the shutdown.
AnsweredOnce ==
    \A r \in Requests :
        /\ answers[r] = (IF request[r] \in Results THEN 1 ELSE 0)
        /\ at = "ended" => request[r] \in Results \cup {"new"}

\* The shutdown comes after the requests that were made before it, the
\* deletion of the server's registration among them: unless libcurl fails,
\* each of them has been started when the thread stops.
ShutdownStartsAll ==
    at = "stop" /\ http = "running" => pending = <<>> /\ batch = <<>>

\* Every request is answered.
EachIsAnswered == \A r \in Requests : request[r] = "queued" ~> request[r] \in Results
=============================================================================
