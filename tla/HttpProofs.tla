----------------------------- MODULE HttpProofs -----------------------------
(***************************************************************************)
(* Theorems about Http, for any requests.  A request that is not completed *)
(* is held in one place: the pending ones, the batch the thread has taken, *)
(* or the transfers (HeldOk); and the thread stops only when nobody hands  *)
(* it requests any more (StopOk).                                          *)
(***************************************************************************)
EXTENDS Http, Integers, SequenceTheorems, TLAPS

Places == {"poll", "perform", "swap", "begin", "stop", "ended"}

HttpTypes ==
    /\ request \in [Requests -> RequestStates]
    /\ answers \in [Requests -> Nat]
    /\ pending \in Seq(Requests) /\ batch \in Seq(Requests)
    /\ transfers \in SUBSET Requests
    /\ http \in {"running", "error"} /\ closing \in BOOLEAN /\ deadline \in BOOLEAN
    /\ at \in Places

In(s) == {s[i] : i \in DOMAIN s}
OnceEach(s) == \A i, k \in DOMAIN s : s[i] = s[k] => i = k

HeldOk ==
    /\ OnceEach(pending) /\ OnceEach(batch)
    /\ In(pending) \cap In(batch) = {}
    /\ at # "ended" =>
         \A r \in Requests :
            /\ request[r] = "queued" <=> r \in In(pending) \cup In(batch)
            /\ request[r] = "running" <=> r \in transfers
    /\ at # "begin" => batch = <<>>
StopOk ==
    /\ at \in {"stop", "ended"} => closing \/ http = "error"
    /\ deadline => closing
    /\ http = "error" => at \in {"stop", "ended"}
    /\ deadline /\ at \in {"begin", "poll", "stop"} /\ http = "running" => pending = <<>>
    /\ at = "stop" /\ http = "running" => deadline
HttpInv == HttpTypes /\ HeldOk /\ StopOk /\ AnsweredOnce

-----------------------------------------------------------------------------
(* Sequences without repetitions.                                          *)

LEMMA AppendOnce ==
    ASSUME NEW S, NEW s \in Seq(S), NEW x \in S, OnceEach(s), x \notin In(s)
    PROVE  /\ Append(s, x) \in Seq(S)
           /\ In(Append(s, x)) = In(s) \cup {x}
           /\ OnceEach(Append(s, x))
<1> DEFINE t == Append(s, x)
           n == Len(s)
<1>1. /\ t \in Seq(S) /\ n \in Nat /\ DOMAIN s = 1 .. n /\ DOMAIN t = 1 .. (n + 1)
      /\ \A i \in 1 .. n : t[i] = s[i]
      /\ t[n + 1] = x
  OBVIOUS
<1> HIDE DEF t, n
<1>2. In(t) = In(s) \cup {x}
  <2>1. \A i \in DOMAIN t : t[i] \in In(s) \cup {x}
    BY <1>1 DEF In
  <2>2. \A i \in DOMAIN s : s[i] \in In(t)
    BY <1>1 DEF In
  <2>3. x \in In(t)
    BY <1>1 DEF In
  <2> QED BY <2>1, <2>2, <2>3 DEF In
<1>3. OnceEach(t)
  <2>1. \A i \in 1 .. n : s[i] # x
    BY <1>1 DEF In
  <2> QED BY <1>1, <2>1 DEF OnceEach
<1> QED BY <1>1, <1>2, <1>3 DEF t

LEMMA TailOnce ==
    ASSUME NEW S, NEW s \in Seq(S), s # <<>>, OnceEach(s)
    PROVE  /\ Tail(s) \in Seq(S) /\ Head(s) \in S
           /\ Head(s) \in In(s) /\ In(Tail(s)) = In(s) \ {Head(s)}
           /\ OnceEach(Tail(s))
<1> DEFINE t == Tail(s)
           n == Len(s)
<1>1. /\ t \in Seq(S) /\ n \in Nat /\ n > 0 /\ DOMAIN s = 1 .. n
      /\ DOMAIN t = 1 .. (n - 1)
      /\ \A i \in 1 .. (n - 1) : t[i] = s[i + 1]
      /\ Head(s) = s[1] /\ s[1] \in S
  BY HeadTailProperties, LenProperties, EmptySeq
<1> HIDE DEF t, n
<1>2. Head(s) \in In(s)
  BY <1>1 DEF In
<1>3. In(t) = In(s) \ {Head(s)}
  <2>1. ASSUME NEW i \in DOMAIN t PROVE t[i] \in In(s) \ {Head(s)}
    <3>1. i + 1 \in DOMAIN s /\ i + 1 # 1 /\ t[i] = s[i + 1]
      BY <1>1
    <3>2. s[i + 1] # s[1]
      <4>1. i + 1 \in DOMAIN s /\ 1 \in DOMAIN s
        BY <1>1, <3>1
      <4> QED BY <3>1, <4>1 DEF OnceEach
    <3> QED BY <1>1, <3>1, <3>2 DEF In
  <2>2. ASSUME NEW i \in DOMAIN s, s[i] # Head(s) PROVE s[i] \in In(t)
    <3>1. i - 1 \in DOMAIN t /\ t[i - 1] = s[i]
      BY <1>1, <2>2
    <3> QED BY <3>1 DEF In
  <2> QED BY <2>1, <2>2 DEF In
<1>4. ASSUME NEW i \in DOMAIN t, NEW k \in DOMAIN t, t[i] = t[k]
      PROVE  i = k
  <2>1. /\ i + 1 \in DOMAIN s /\ k + 1 \in DOMAIN s /\ i \in Int /\ k \in Int
        /\ s[i + 1] = s[k + 1]
    BY <1>1, <1>4
  <2>2. i + 1 = k + 1
    BY <2>1 DEF OnceEach
  <2> QED BY <2>1, <2>2
<1>5. OnceEach(t)
  BY <1>4 DEF OnceEach
<1> QED BY <1>1, <1>2, <1>3, <1>5 DEF t

LEMMA ConcatOnce ==
    ASSUME NEW S, NEW s \in Seq(S), NEW t \in Seq(S), OnceEach(s), OnceEach(t),
           In(s) \cap In(t) = {}
    PROVE  /\ s \o t \in Seq(S)
           /\ In(s \o t) = In(s) \cup In(t)
           /\ OnceEach(s \o t)
<1> DEFINE u == s \o t
           m == Len(s)
           n == Len(t)
<1>1. /\ m \in Nat /\ n \in Nat /\ DOMAIN s = 1 .. m /\ DOMAIN t = 1 .. n
  BY LenProperties
<1>2. /\ u \in Seq(S) /\ DOMAIN u = 1 .. (m + n)
      /\ \A i \in 1 .. (m + n) : u[i] = IF i <= m THEN s[i] ELSE t[i - m]
  BY <1>1, ConcatProperties, LenProperties
<1> HIDE DEF u, m, n
<1>3. \A i \in 1 .. (m + n) : i <= m => i \in DOMAIN s /\ u[i] = s[i]
  BY <1>1, <1>2
<1>4. \A i \in 1 .. (m + n) : ~(i <= m) => i - m \in DOMAIN t /\ u[i] = t[i - m]
  BY <1>1, <1>2
<1>5. In(u) = In(s) \cup In(t)
  <2>1. \A i \in DOMAIN u : u[i] \in In(s) \cup In(t)
    BY <1>2, <1>3, <1>4 DEF In
  <2>2. \A i \in DOMAIN s : s[i] \in In(u)
    <3>1. \A i \in DOMAIN s : i \in DOMAIN u /\ u[i] = s[i]
      BY <1>1, <1>2
    <3> QED BY <3>1 DEF In
  <2>3. \A i \in DOMAIN t : t[i] \in In(u)
    <3>1. ASSUME NEW i \in DOMAIN t
          PROVE  i + m \in DOMAIN u /\ u[i + m] = t[i]
      <4>1. i + m \in 1 .. (m + n) /\ ~(i + m <= m) /\ (i + m) - m = i
        BY <1>1
      <4> QED BY <1>2, <4>1
    <3> QED BY <3>1 DEF In
  <2> QED BY <2>1, <2>2, <2>3 DEF In
<1>6. ASSUME NEW i \in 1 .. (m + n), NEW k \in 1 .. (m + n), u[i] = u[k]
      PROVE  i = k
  <2>1. CASE i <= m /\ k <= m
    BY <1>3, <1>6, <2>1 DEF OnceEach
  <2>2. CASE ~(i <= m) /\ ~(k <= m)
    <3>1. i - m = k - m
      BY <1>4, <1>6, <2>2 DEF OnceEach
    <3> QED BY <1>1, <3>1
  <2>3. CASE i <= m /\ ~(k <= m)
    BY <1>3, <1>4, <1>6, <2>3 DEF In
  <2>4. CASE ~(i <= m) /\ k <= m
    BY <1>3, <1>4, <1>6, <2>4 DEF In
  <2> QED BY <2>1, <2>2, <2>3, <2>4
<1>7. OnceEach(u)
  BY <1>2, <1>6 DEF OnceEach
<1> QED BY <1>2, <1>5, <1>7 DEF u

LEMMA EmptyOnce ==
    ASSUME NEW S
    PROVE  <<>> \in Seq(S) /\ In(<<>>) = {} /\ OnceEach(<<>>)
BY DEF In, OnceEach

-----------------------------------------------------------------------------
(* Completing requests.                                                    *)

\* Requests that are not completed are answered for the first time.
LEMMA CompleteOnce ==
    ASSUME HttpTypes, AnsweredOnce, NEW results,
           \A r \in DOMAIN results : r \in Requests /\ results[r] \in Results
                                     /\ request[r] \notin Results,
           Complete(results)
    PROVE  /\ request' \in [Requests -> RequestStates]
           /\ answers' \in [Requests -> Nat]
           /\ \A r \in DOMAIN results : request'[r] = results[r]
           /\ \A r \in Requests \ DOMAIN results : request'[r] = request[r]
           /\ \A r \in Requests :
                 answers'[r] = (IF request'[r] \in Results THEN 1 ELSE 0)
<1>1. /\ request' = [r \in Requests |->
                       IF r \in DOMAIN results THEN results[r] ELSE request[r]]
      /\ answers' = [r \in Requests |->
                       answers[r] + (IF r \in DOMAIN results THEN 1 ELSE 0)]
  BY DEF Complete
<1>2. \A r \in Requests : request[r] \in RequestStates /\ answers[r] \in Nat
  BY DEF HttpTypes
<1>3. Results \subseteq RequestStates
  BY DEF RequestStates
<1>4. request' \in [Requests -> RequestStates]
  BY <1>1, <1>2, <1>3
<1>5. answers' \in [Requests -> Nat]
  BY <1>1, <1>2
<1>6. ASSUME NEW r \in Requests
      PROVE  answers'[r] = (IF request'[r] \in Results THEN 1 ELSE 0)
  BY <1>1, <1>2 DEF AnsweredOnce
<1> QED BY <1>1, <1>4, <1>5, <1>6

\* AbortAll is Complete with one result.
LEMMA AbortOnce ==
    ASSUME HttpTypes, AnsweredOnce, NEW rs \in SUBSET Requests,
           \A r \in rs : request[r] \notin Results,
           AbortAll(rs)
    PROVE  /\ request' \in [Requests -> RequestStates]
           /\ answers' \in [Requests -> Nat]
           /\ \A r \in rs : request'[r] = "aborted"
           /\ \A r \in Requests \ rs : request'[r] = request[r]
           /\ \A r \in Requests :
                 answers'[r] = (IF request'[r] \in Results THEN 1 ELSE 0)
<1> DEFINE results == [r \in rs |-> "aborted"]
<1>1. DOMAIN results = rs /\ \A r \in rs : results[r] = "aborted"
  OBVIOUS
<1>2. Complete(results)
  BY DEF AbortAll
<1>3. "aborted" \in Results
  BY DEF Results
<1> HIDE DEF results
<1>4. \A r \in DOMAIN results : r \in Requests /\ results[r] \in Results
                                /\ request[r] \notin Results
  BY <1>1, <1>3
<1> QED BY <1>1, <1>2, <1>4, CompleteOnce

-----------------------------------------------------------------------------
(* The other threads.                                                      *)

LEMMA RunInv == ASSUME HttpInv, NEW r \in Requests, Run(r) PROVE HttpInv'
<1>1. /\ HttpTypes /\ HeldOk /\ StopOk /\ AnsweredOnce /\ ~Locked /\ request[r] = "new"
      /\ UNCHANGED <<batch, transfers, http, closing, deadline, at>>
  BY DEF HttpInv, Run, Refuse, Accept
<1>2. request[r] \notin Results /\ "queued" \notin Results /\ "queued" \in RequestStates
  BY <1>1 DEF Results, RequestStates
<1>3. CASE closing \/ http = "error"
  <2>1. AbortAll({r}) /\ UNCHANGED <<pending, wakeup>>
    BY <1>3 DEF Run, Refuse
  <2>2. /\ request' \in [Requests -> RequestStates] /\ answers' \in [Requests -> Nat]
        /\ request'[r] = "aborted"
        /\ \A q \in Requests \ {r} : request'[q] = request[q]
        /\ \A q \in Requests : answers'[q] = (IF request'[q] \in Results THEN 1 ELSE 0)
    BY <1>1, <1>2, <2>1, AbortOnce
  <2>3. HttpTypes'
    BY <1>1, <2>1, <2>2 DEF HttpTypes
  <2>4. HeldOk'
    <3>1. /\ In(pending') = In(pending) /\ In(batch') = In(batch)
          /\ (OnceEach(pending) => OnceEach(pending'))
          /\ (OnceEach(batch) => OnceEach(batch'))
      BY <1>1, <2>1 DEF In, OnceEach
    <3>2. at' # "ended" =>
             \A q \in Requests :
                /\ request'[q] = "queued" <=> q \in In(pending) \cup In(batch)
                /\ request'[q] = "running" <=> q \in transfers
      BY <1>1, <2>2 DEF HeldOk
    <3> QED BY <1>1, <2>1, <3>1, <3>2 DEF HeldOk
  <2>5. StopOk'
    BY <1>1, <2>1 DEF StopOk
  <2>6. AnsweredOnce'
    BY <1>1, <2>2 DEF AnsweredOnce, Results
  <2> QED BY <2>3, <2>4, <2>5, <2>6 DEF HttpInv
<1>4. CASE ~(closing \/ http = "error")
  <2>1. /\ request' = [request EXCEPT ![r] = "queued"]
        /\ pending' = Append(pending, r) /\ answers' = answers
    BY <1>4 DEF Run, Accept
  <2>2. at \notin {"stop", "ended"}
    BY <1>1, <1>4 DEF StopOk
  <2>3. r \notin In(pending) \cup In(batch) /\ r \notin transfers
    BY <1>1, <2>2 DEF HeldOk
  <2>4. /\ pending' \in Seq(Requests) /\ In(pending') = In(pending) \cup {r}
        /\ OnceEach(pending')
    BY <1>1, <2>1, <2>3, AppendOnce DEF HttpTypes, HeldOk
  <2>5. HttpTypes'
    BY <1>1, <1>2, <2>1, <2>4 DEF HttpTypes
  <2>6. \A q \in Requests : request'[q] = IF q = r THEN "queued" ELSE request[q]
    BY <1>1, <2>1 DEF HttpTypes
  <2>7. In(batch') = In(batch) /\ (OnceEach(batch) => OnceEach(batch'))
    BY <1>1 DEF In, OnceEach
  <2>8. HeldOk'
    BY <1>1, <2>2, <2>3, <2>4, <2>6, <2>7 DEF HeldOk
  <2>9. StopOk'
    BY <1>1, <1>4, <2>2 DEF StopOk
  <2>10. AnsweredOnce'
    BY <1>1, <1>2, <2>1, <2>2, <2>6 DEF AnsweredOnce
  <2> QED BY <2>5, <2>8, <2>9, <2>10 DEF HttpInv
<1> QED BY <1>3, <1>4

LEMMA CloseInv == ASSUME HttpInv, Close PROVE HttpInv'
<1>1. CASE closing \/ http # "running"
  <2> USE <1>1 DEF HttpInv, Close, httpVars
  <2>1. HttpTypes'
    BY DEF HttpTypes
  <2>2. HeldOk'
    BY DEF HeldOk, In, OnceEach
  <2>3. StopOk'
    BY DEF StopOk, Locked
  <2>4. AnsweredOnce'
    BY DEF AnsweredOnce
  <2> QED BY <2>1, <2>2, <2>3, <2>4
<1>2. CASE ~closing /\ http = "running"
  <2> USE <1>2 DEF HttpInv, Close
  <2>1. HttpTypes'
    BY DEF HttpTypes
  <2>2. HeldOk'
    BY DEF HeldOk, In, OnceEach
  <2>3. StopOk'
    BY DEF StopOk, Locked
  <2>4. AnsweredOnce'
    BY DEF AnsweredOnce
  <2> QED BY <2>1, <2>2, <2>3, <2>4
<1> QED BY <1>1, <1>2

-----------------------------------------------------------------------------
(* The thread.                                                             *)

\* Steps that leave the requests and the sequences alone.
LEMMA QuietHeld ==
    ASSUME HeldOk, AnsweredOnce, HttpTypes,
           at \notin {"begin", "ended"}, at' \in Places \ {"ended"},
           UNCHANGED <<request, answers, pending, batch, transfers>>
    PROVE  HeldOk' /\ AnsweredOnce'
<1>1. HeldOk'
  BY DEF HeldOk, In, OnceEach, Places
<1>2. AnsweredOnce'
  BY DEF AnsweredOnce
<1> QED BY <1>1, <1>2

LEMMA PollInv == ASSUME HttpInv, Poll PROVE HttpInv'
<1>1. HttpTypes /\ HeldOk /\ StopOk /\ AnsweredOnce /\ at = "poll"
  BY DEF HttpInv, Poll
<1>2. /\ at' \in {"stop", "perform"} /\ http' \in {http, "error"}
      /\ deadline' = closing
      /\ UNCHANGED <<request, answers, pending, batch, transfers, closing>>
  BY DEF Poll, Fail
<1>3. HttpTypes'
  BY <1>1, <1>2 DEF HttpTypes, Places
<1>4. HeldOk' /\ AnsweredOnce'
  BY <1>1, <1>2, QuietHeld DEF Places
<1>5. StopOk'
  BY <1>1, <1>2 DEF StopOk, Poll, Fail, HttpTypes
<1> QED BY <1>3, <1>4, <1>5 DEF HttpInv

LEMMA PerformInv ==
    ASSUME HttpInv, NEW finished \in SUBSET transfers, Perform(finished)
    PROVE  HttpInv'
<1>1. /\ HttpTypes /\ HeldOk /\ StopOk /\ AnsweredOnce /\ at = "perform"
      /\ transfers' = transfers \ finished /\ at' = "swap"
      /\ UNCHANGED <<pending, batch, wakeup, http, closing, deadline>>
  BY DEF HttpInv, Perform
<1>2. PICK results \in [finished -> Results] : Complete(results)
  BY DEF Perform
<1>3. finished \subseteq Requests
  BY <1>1 DEF HttpTypes
<1>4. \A r \in finished : request[r] = "running"
  BY <1>1, <1>3 DEF HeldOk
<1>5. \A r \in DOMAIN results :
         r \in Requests /\ results[r] \in Results /\ request[r] \notin Results
  BY <1>3, <1>4 DEF Results
<1>6. /\ request' \in [Requests -> RequestStates] /\ answers' \in [Requests -> Nat]
      /\ \A r \in finished : request'[r] \in Results
      /\ \A r \in Requests \ finished : request'[r] = request[r]
      /\ \A r \in Requests : answers'[r] = (IF request'[r] \in Results THEN 1 ELSE 0)
  <2>1. DOMAIN results = finished
    OBVIOUS
  <2>2. /\ request' \in [Requests -> RequestStates] /\ answers' \in [Requests -> Nat]
        /\ \A r \in DOMAIN results : request'[r] = results[r]
        /\ \A r \in Requests \ DOMAIN results : request'[r] = request[r]
        /\ \A r \in Requests : answers'[r] = (IF request'[r] \in Results THEN 1 ELSE 0)
    BY <1>1, <1>2, <1>5, CompleteOnce
  <2> QED BY <1>5, <2>1, <2>2
<1>7. HttpTypes'
  BY <1>1, <1>6 DEF HttpTypes, Places
<1>8. /\ In(pending') = In(pending) /\ (OnceEach(pending) => OnceEach(pending'))
      /\ In(batch') = In(batch) /\ (OnceEach(batch) => OnceEach(batch'))
  BY <1>1 DEF In, OnceEach
<1>9. HeldOk'
  <2>1. ASSUME NEW r \in Requests
        PROVE  /\ request'[r] = "queued" <=> r \in In(pending) \cup In(batch)
               /\ request'[r] = "running" <=> r \in transfers'
    <3>1. /\ request[r] = "queued" <=> r \in In(pending) \cup In(batch)
          /\ request[r] = "running" <=> r \in transfers
      BY <1>1 DEF HeldOk
    <3>2. CASE r \in finished
      <4>1. request'[r] \notin {"queued", "running"}
        BY <1>6, <3>2 DEF Results
      <4> QED BY <1>1, <1>4, <3>1, <3>2, <4>1
    <3>3. CASE r \notin finished
      BY <1>1, <1>6, <3>1, <3>3
    <3> QED BY <3>2, <3>3
  <2> QED BY <1>1, <1>8, <2>1 DEF HeldOk
<1>10. StopOk'
  BY <1>1 DEF StopOk
<1>11. AnsweredOnce'
  BY <1>1, <1>6 DEF AnsweredOnce
<1> QED BY <1>7, <1>9, <1>10, <1>11 DEF HttpInv

LEMMA PerformFailsInv == ASSUME HttpInv, PerformFails PROVE HttpInv'
<1>1. /\ HttpTypes /\ HeldOk /\ StopOk /\ AnsweredOnce /\ at = "perform"
      /\ http' = "error" /\ at' = "stop"
      /\ UNCHANGED <<request, answers, pending, batch, transfers, wakeup, closing, deadline>>
  BY DEF HttpInv, PerformFails, Fail
<1>2. HeldOk' /\ AnsweredOnce'
  BY <1>1, QuietHeld DEF Places
<1> QED BY <1>1, <1>2 DEF HttpInv, HttpTypes, StopOk, Places

LEMMA TakePendingInv == ASSUME HttpInv, TakePending PROVE HttpInv'
<1>1. /\ HttpTypes /\ HeldOk /\ StopOk /\ AnsweredOnce /\ at = "swap"
      /\ batch' = pending /\ pending' = <<>> /\ at' = "begin"
      /\ UNCHANGED <<request, answers, transfers, wakeup, http, closing, deadline>>
  BY DEF HttpInv, TakePending
<1>2. batch = <<>>
  BY <1>1 DEF HeldOk
<1>3. /\ pending' \in Seq(Requests) /\ In(pending') = {} /\ OnceEach(pending')
      /\ In(batch) = {}
  BY <1>1, <1>2, EmptyOnce
<1>4. In(batch') = In(pending) /\ (OnceEach(pending) => OnceEach(batch'))
  BY <1>1 DEF In, OnceEach
<1>5. HttpTypes'
  BY <1>1, <1>3 DEF HttpTypes, Places
<1>6. HeldOk'
  BY <1>1, <1>3, <1>4 DEF HeldOk
<1>7. StopOk'
  BY <1>1 DEF StopOk
<1>8. AnsweredOnce'
  BY <1>1 DEF AnsweredOnce
<1> QED BY <1>5, <1>6, <1>7, <1>8 DEF HttpInv

LEMMA BeginTransferInv == ASSUME HttpInv, BeginTransfer PROVE HttpInv'
<1> DEFINE r == Head(batch)
<1>1. /\ HttpTypes /\ HeldOk /\ StopOk /\ AnsweredOnce /\ at = "begin"
      /\ batch # <<>> /\ batch' = Tail(batch)
      /\ UNCHANGED <<pending, wakeup, http, closing, deadline, at>>
  BY DEF HttpInv, BeginTransfer
<1>2. /\ batch' \in Seq(Requests) /\ r \in Requests /\ r \in In(batch)
      /\ In(batch') = In(batch) \ {r} /\ OnceEach(batch')
  BY <1>1, TailOnce DEF HttpTypes, HeldOk
<1>3. request[r] = "queued" /\ r \notin In(pending) /\ r \notin transfers
  BY <1>1, <1>2 DEF HeldOk
<1>4. In(pending') = In(pending) /\ (OnceEach(pending) => OnceEach(pending'))
  BY <1>1 DEF In, OnceEach
<1> HIDE DEF r
<1>5. StopOk'
  BY <1>1 DEF StopOk
<1>6. ASSUME NEW state \in {"running", "aborted"},
             request' \in [Requests -> RequestStates], answers' \in [Requests -> Nat],
             \A q \in Requests : request'[q] = IF q = r THEN state ELSE request[q],
             transfers' = IF state = "running" THEN transfers \cup {r} ELSE transfers,
             \A q \in Requests : answers'[q] = (IF request'[q] \in Results THEN 1 ELSE 0)
      PROVE  HttpInv'
  <2>1. HttpTypes'
    BY <1>1, <1>2, <1>6 DEF HttpTypes
  <2>2. HeldOk'
    BY <1>1, <1>2, <1>3, <1>4, <1>6 DEF HeldOk
  <2>3. AnsweredOnce'
    BY <1>1, <1>6 DEF AnsweredOnce
  <2> QED BY <1>5, <2>1, <2>2, <2>3 DEF HttpInv
<1>7. CASE /\ transfers' = transfers \cup {r}
           /\ request' = [request EXCEPT ![r] = "running"]
           /\ UNCHANGED answers
  <2>1. "running" \in RequestStates /\ "running" \notin Results /\ "queued" \notin Results
    BY DEF RequestStates, Results
  <2>2. /\ request' \in [Requests -> RequestStates] /\ answers' \in [Requests -> Nat]
        /\ \A q \in Requests : request'[q] = IF q = r THEN "running" ELSE request[q]
    BY <1>1, <1>2, <1>7, <2>1 DEF HttpTypes
  <2>3. \A q \in Requests : answers'[q] = (IF request'[q] \in Results THEN 1 ELSE 0)
    BY <1>1, <1>3, <1>7, <2>1, <2>2 DEF AnsweredOnce
  <2> QED BY <1>6, <1>7, <2>2, <2>3
<1>8. CASE AbortAll({r}) /\ UNCHANGED transfers
  <2>1. request[r] \notin Results
    BY <1>3 DEF Results
  <2>2. /\ request' \in [Requests -> RequestStates] /\ answers' \in [Requests -> Nat]
        /\ request'[r] = "aborted"
        /\ \A q \in Requests \ {r} : request'[q] = request[q]
        /\ \A q \in Requests : answers'[q] = (IF request'[q] \in Results THEN 1 ELSE 0)
    BY <1>1, <1>2, <1>8, <2>1, AbortOnce
  <2> QED BY <1>6, <1>8, <2>2
<1> QED BY <1>7, <1>8 DEF BeginTransfer, r

LEMMA BeginFailsInv == ASSUME HttpInv, BeginFails PROVE HttpInv'
<1>1. /\ HttpTypes /\ HeldOk /\ StopOk /\ AnsweredOnce /\ at = "begin"
      /\ pending' = pending \o batch /\ batch' = <<>>
      /\ http' = "error" /\ at' = "stop"
      /\ UNCHANGED <<request, answers, transfers, wakeup, closing, deadline>>
  BY DEF HttpInv, BeginFails, Fail
<1>2. /\ pending' \in Seq(Requests) /\ In(pending') = In(pending) \cup In(batch)
      /\ OnceEach(pending')
  BY <1>1, ConcatOnce DEF HttpTypes, HeldOk
<1>3. batch' \in Seq(Requests) /\ In(batch') = {} /\ OnceEach(batch')
  BY <1>1, EmptyOnce
<1>4. HttpTypes'
  BY <1>1, <1>2, <1>3 DEF HttpTypes, Places
<1>5. HeldOk'
  BY <1>1, <1>2, <1>3 DEF HeldOk
<1>6. StopOk'
  BY <1>1 DEF StopOk
<1>7. AnsweredOnce'
  BY <1>1 DEF AnsweredOnce
<1> QED BY <1>4, <1>5, <1>6, <1>7 DEF HttpInv

LEMMA RoundOverInv == ASSUME HttpInv, RoundOver PROVE HttpInv'
<1>1. /\ HttpTypes /\ HeldOk /\ StopOk /\ AnsweredOnce /\ at = "begin" /\ batch = <<>>
      /\ at' = "poll"
      /\ UNCHANGED <<request, answers, pending, batch, transfers, wakeup, http, closing,
                     deadline>>
  BY DEF HttpInv, RoundOver
<1>2. HttpTypes'
  BY <1>1 DEF HttpTypes, Places
<1>3. HeldOk'
  BY <1>1 DEF HeldOk, In, OnceEach
<1>4. StopOk' /\ AnsweredOnce'
  BY <1>1 DEF StopOk, AnsweredOnce
<1> QED BY <1>2, <1>3, <1>4 DEF HttpInv

\* Whatever is left when the thread stops is aborted: the pending requests
\* and the transfers are all there is.
LEMMA StopInv == ASSUME HttpInv, Stop PROVE HttpInv'
<1> DEFINE left == In(pending) \cup transfers
<1>1. /\ HttpTypes /\ HeldOk /\ StopOk /\ AnsweredOnce /\ at = "stop"
      /\ AbortAll(left) /\ at' = "ended"
      /\ UNCHANGED <<pending, batch, transfers, wakeup, http, closing, deadline>>
  BY DEF HttpInv, Stop, In
<1>2. batch = <<>> /\ In(batch) = {}
  BY <1>1, EmptyOnce DEF HeldOk
<1>3. left \in SUBSET Requests
  BY <1>1, ElementOfSeq, LenProperties DEF HttpTypes, In
<1>4. \A r \in left : request[r] \in {"queued", "running"}
  BY <1>1, <1>3 DEF HeldOk
<1>5. \A r \in left : request[r] \notin Results
  BY <1>4 DEF Results
<1> HIDE DEF left
<1>6. /\ request' \in [Requests -> RequestStates] /\ answers' \in [Requests -> Nat]
      /\ \A r \in left : request'[r] = "aborted"
      /\ \A r \in Requests \ left : request'[r] = request[r]
      /\ \A r \in Requests : answers'[r] = (IF request'[r] \in Results THEN 1 ELSE 0)
  BY <1>1, <1>3, <1>5, AbortOnce
<1>7. \A r \in Requests : request'[r] \in Results \cup {"new"}
  <2>1. ASSUME NEW r \in Requests \ left PROVE request[r] \notin {"queued", "running"}
    BY <1>1, <1>2 DEF HeldOk, left
  <2>2. \A r \in Requests : request[r] \in RequestStates
    BY <1>1 DEF HttpTypes
  <2> QED BY <1>6, <2>1, <2>2 DEF RequestStates, Results
<1>8. HttpTypes'
  BY <1>1, <1>6 DEF HttpTypes, Places
<1>9. HeldOk'
  BY <1>1, <1>2 DEF HeldOk, In, OnceEach
<1>10. StopOk'
  BY <1>1 DEF StopOk
<1>11. AnsweredOnce'
  BY <1>6, <1>7 DEF AnsweredOnce
<1> QED BY <1>8, <1>9, <1>10, <1>11 DEF HttpInv

-----------------------------------------------------------------------------
(* The theorems.                                                           *)

LEMMA HttpInitInv == HttpInit => HttpInv
<1> SUFFICES ASSUME HttpInit PROVE HttpInv
  OBVIOUS
<1>1. \A s : s = <<>> => s \in Seq(Requests) /\ In(s) = {} /\ OnceEach(s)
  BY EmptyOnce
<1>2. HttpTypes
  BY <1>1 DEF HttpInit, HttpTypes, RequestStates, Places
<1>3. HeldOk
  BY <1>1 DEF HttpInit, HeldOk
<1>4. StopOk /\ AnsweredOnce
  BY DEF HttpInit, StopOk, AnsweredOnce, Results
<1> QED BY <1>2, <1>3, <1>4 DEF HttpInv

LEMMA HttpStepInv == HttpInv /\ [HttpNext]_httpVars => HttpInv'
<1> SUFFICES ASSUME HttpInv, [HttpNext]_httpVars PROVE HttpInv'
  OBVIOUS
<1>1. CASE \E r \in Requests : Run(r)
  BY <1>1, RunInv
<1>2. CASE Close
  BY <1>2, CloseInv
<1>3. CASE ThreadStep
  BY <1>3, PollInv, PerformInv, PerformFailsInv, TakePendingInv, BeginTransferInv,
     BeginFailsInv, RoundOverInv, StopInv DEF ThreadStep
<1>4. CASE UNCHANGED httpVars
  <2>1. /\ HttpTypes' /\ StopOk' /\ AnsweredOnce'
    BY <1>4 DEF httpVars, HttpInv, HttpTypes, StopOk, AnsweredOnce
  <2>2. HeldOk'
    BY <1>4 DEF httpVars, HttpInv, HeldOk, In, OnceEach
  <2> QED BY <2>1, <2>2 DEF HttpInv
<1> QED BY <1>1, <1>2, <1>3, <1>4 DEF HttpNext

LEMMA HttpInvariance == HttpSpec => []HttpInv
<1> QED BY HttpInitInv, HttpStepInv, PTL DEF HttpSpec

\* Every request is completed once, by the thread, by Run when it comes too
\* late, or by whoever stops the thread (OnCompletionInternal's callers), and
\* none is left when the thread has ended.
THEOREM Answers == HttpSpec => []AnsweredOnce
<1>1. HttpInv => AnsweredOnce
  BY DEF HttpInv
<1> QED BY HttpInvariance, <1>1, PTL

\* Unless libcurl fails, the requests that were made before the shutdown are
\* begun before the thread stops (the two rounds of RunLoop after it).
THEOREM ShutdownIsLast == HttpSpec => []ShutdownStartsAll
<1>1. HttpInv => ShutdownStartsAll
  BY DEF HttpInv, StopOk, HeldOk, ShutdownStartsAll
<1> QED BY HttpInvariance, <1>1, PTL
=============================================================================
