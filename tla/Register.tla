------------------------------ MODULE Register ------------------------------
(***************************************************************************)
(* CRegister of engine/server/register.cpp: how the server keeps itself on *)
(* the list of the master server, once for each protocol.  The main thread *)
(* sends requests; each of them is a job on a worker thread, so that they  *)
(* are answered in any order, and what a job does with the answer are two  *)
(* sections under two locks.  A request of a protocol is known here by its *)
(* place among those in flight, which is all that m_Index is compared for. *)
(*                                                                         *)
(* The master and the network are external: the master asks for a token it *)
(* sends to the server's port, and for the server's info if it has an      *)
(* older one; requests, answers and tokens may be lost, and the master may *)
(* restart.  How long the master keeps who does not register again is left *)
(* out.                                                                    *)
(***************************************************************************)
EXTENDS Integers, Sequences, SequencesExt

CONSTANTS
    Protocols,  \* those that can be enabled, TW6_IPV6 and TW6_IPV4
    MaxFlight,  \* bound: the requests of a protocol in flight at a time
    MaxEvents   \* bound: how often the info or sv_register changes, something
                \* is lost or the master restarts

ASSUME RegisterAssumption == MaxFlight \in Nat \ {0} /\ MaxEvents \in Nat

VARIABLES
    enabled,  \* m_aProtocolEnabled
    status,   \* m_LatestResponseStatus
    answered, \* m_LatestResponseIndex = m_NumTotalRequests - 1
    due,      \* time_get() >= m_NextRegister
    token,    \* m_aChallengeToken, or NoToken: the master's start it is from
    newToken, \* m_NewChallengeToken
    flight,   \* the requests of each protocol in flight, oldest first
    serial,   \* m_InfoSerial
    success,  \* m_LatestSuccessfulInfoSerial
    online,   \* until OnShutdown
    master,   \* the master: its start, the info it has, whom it lists
    mail,     \* tokens and deletions on their way
    events    \* how often something changed or failed (bound)

registerVars == <<enabled, status, answered, due, token, newToken, flight, serial,
                  success, online, master, mail, events>>

NoToken == -1
NoInfo == -1
Statuses == {"none", "ok", "needchallenge", "needinfo"}

\* The registrations start once the server has an info and calls Update
RegisterInit ==
    /\ enabled \in [Protocols -> BOOLEAN]
    /\ status = [p \in Protocols |-> "none"]
    /\ answered = [p \in Protocols |-> TRUE]
    /\ due = [p \in Protocols |-> TRUE]
    /\ token = [p \in Protocols |-> NoToken]
    /\ newToken = [p \in Protocols |-> FALSE]
    /\ flight = [p \in Protocols |-> <<>>]
    /\ serial = 0 /\ success = -1 /\ online = TRUE
    /\ master = [start |-> 0, info |-> NoInfo, listed |-> {}]
    /\ mail = {}
    /\ events = 0

-----------------------------------------------------------------------------
(* The main thread.                                                        *)

Request(s, t) ==
    [serial |-> s, info |-> s > success, token |-> t, newest |-> TRUE,
     overtaken |-> FALSE, answer |-> "none", noted |-> FALSE]

\* What the job of an answered request still needs of it
Answered(r, answer) == [r EXCEPT !.info = FALSE, !.token = NoToken, !.answer = answer]

\* SendRegister for the protocols in ps; s, t and n are the serial, the
\* tokens and m_NewChallengeToken as they are by then
SendRegister(ps, s, t, n) ==
    LET older(p) == [i \in DOMAIN flight[p] |-> [flight[p][i] EXCEPT !.newest = FALSE]]
    IN
    /\ \A p \in ps : Len(flight[p]) < MaxFlight
    /\ flight' = [p \in Protocols |->
         IF p \in ps THEN Append(older(p), Request(s, t[p])) ELSE flight[p]]
    /\ answered' = [p \in Protocols |-> answered[p] /\ p \notin ps]
    /\ newToken' = [p \in Protocols |-> n[p] /\ p \notin ps]
    /\ due' = [p \in Protocols |-> due[p] /\ p \notin ps]

\* SendDeleteIfRegistered for the protocols in ps
SendDelete(ps) ==
    /\ status' = [p \in Protocols |-> IF p \in ps THEN "none" ELSE status[p]]
    /\ mail' = mail \cup {[delete |-> TRUE, protocol |-> p, start |-> NoToken] :
                            p \in {q \in ps : status[q] = "ok"}}

\* CheckChallengeStatus: whether it makes m_NextRegister be now
ActsAtOnce(p, n) ==
    /\ answered[p]
    /\ \/ status[p] = "needinfo"
       \/ status[p] = "needchallenge" /\ n[p]

Update(p) ==
    /\ online /\ enabled[p]
    /\ due[p] \/ ActsAtOnce(p, newToken)
    /\ SendRegister({p}, serial, token, newToken)
    /\ UNCHANGED <<enabled, status, token, serial, success, online, master, mail, events>>

\* 15 seconds after a request, its time limit as well
TimePasses(p) ==
    /\ ~due[p]
    /\ \A i \in DOMAIN flight[p] : flight[p][i].answer # "none"
    /\ due' = [due EXCEPT ![p] = TRUE]
    /\ UNCHANGED <<enabled, status, answered, token, newToken, flight, serial, success,
                   online, master, mail, events>>

\* OnPacket, for a disabled protocol as well
OnToken(m) ==
    /\ online /\ m \in mail /\ ~m.delete
    /\ mail' = mail \ {m}
    /\ token' = [token EXCEPT ![m.protocol] = m.start]
    /\ LET n == [newToken EXCEPT ![m.protocol] = TRUE]
           sends == due[m.protocol] \/ ActsAtOnce(m.protocol, n)
       IN SendRegister({m.protocol} \cap {p \in Protocols : sends}, serial, token', n)
    /\ UNCHANGED <<enabled, status, serial, success, online, master, events>>

\* A new info is sent at once for the protocols that are due, and at most a
\* second after the last request for the one that is due next
OnNewInfo(soon) ==
    /\ online /\ events < MaxEvents
    /\ serial' = serial + 1
    /\ LET now == {p \in Protocols : enabled[p] /\ due[p]}
       IN /\ now # {} => soon = {}
          /\ \A p \in soon : enabled[p]
          /\ SendRegister(now \cup soon, serial', token, newToken)
    /\ events' = events + 1
    /\ UNCHANGED <<enabled, status, token, success, online, master, mail>>

OnConfigChange(new) ==
    /\ online /\ events < MaxEvents /\ new # enabled
    /\ enabled' = new
    /\ SendRegister({p \in Protocols : ~enabled[p] /\ new[p]}, serial, token, newToken)
    /\ SendDelete({p \in Protocols : enabled[p] /\ ~new[p]})
    /\ events' = events + 1
    /\ UNCHANGED <<token, serial, success, online, master>>

OnShutdown ==
    /\ online
    /\ online' = FALSE
    /\ SendDelete({p \in Protocols : enabled[p]})
    /\ UNCHANGED <<enabled, answered, due, token, newToken, flight, serial, success,
                   master, events>>

-----------------------------------------------------------------------------
(* The jobs: the i-th request of p in flight.                              *)

Forget(p, i) == flight' = [flight EXCEPT ![p] = RemoveAt(@, i)]

\* CJob::Run under the lock of the protocol
NoteAnswer(p, i) ==
    LET r == flight[p][i] IN
    /\ r.answer # "none" /\ ~r.noted
    /\ IF r.overtaken THEN UNCHANGED <<status, answered>>
       ELSE /\ status' = [status EXCEPT ![p] = r.answer]
            /\ answered' = [answered EXCEPT ![p] = r.newest]
    /\ flight' = [flight EXCEPT ![p] =
         [j \in DOMAIN @ |->
            IF j < i THEN [@[j] EXCEPT !.overtaken = TRUE]
            ELSE IF j = i THEN [@[j] EXCEPT !.noted = TRUE] ELSE @[j]]]
    /\ UNCHANGED <<enabled, due, token, newToken, serial, success, online, master, mail, events>>

CountAll(p, i) ==  \* a wrong Count: whatever the answer, the info is there
    LET r == flight[p][i] IN
    /\ r.noted
    /\ success' = IF r.serial > success THEN r.serial ELSE success
    /\ Forget(p, i)
    /\ UNCHANGED <<enabled, status, answered, due, token, newToken, serial, online,
                   master, mail, events>>

CountTooFar(p, i) ==  \* a wrong Count: it skips the next info
    LET r == flight[p][i] IN
    /\ r.noted
    /\ success' = IF r.answer = "ok" /\ r.serial >= success THEN r.serial + 1
                  ELSE success
    /\ Forget(p, i)
    /\ UNCHANGED <<enabled, status, answered, due, token, newToken, serial, online,
                   master, mail, events>>

CountOkOnly(p, i) ==  \* a wrong Count: the info is not sent again
    LET r == flight[p][i] IN
    /\ r.noted
    /\ success' = IF r.answer = "ok" /\ r.serial > success THEN r.serial ELSE success
    /\ Forget(p, i)
    /\ UNCHANGED <<enabled, status, answered, due, token, newToken, serial, online,
                   master, mail, events>>

\* CJob::Run under the lock that all protocols share
Count(p, i) ==
    LET r == flight[p][i] IN
    /\ r.noted
    /\ success' = IF r.answer = "ok" /\ r.serial > success THEN r.serial
                  ELSE IF r.answer = "needinfo" /\ r.serial = success THEN success - 1
                  ELSE success
    /\ Forget(p, i)
    /\ UNCHANGED <<enabled, status, answered, due, token, newToken, serial, online,
                   master, mail, events>>

-----------------------------------------------------------------------------
(* The master and the network.                                             *)

MasterAnswer(r) ==
    IF r.token # master.start THEN "needchallenge"
    ELSE IF ~r.info /\ r.serial > master.info THEN "needinfo" ELSE "ok"

Serve(p, i) ==
    LET r == flight[p][i]
        answer == MasterAnswer(r)
        info == IF r.info /\ r.serial > master.info THEN r.serial ELSE master.info
    IN
    /\ r.answer = "none"
    /\ flight' = [flight EXCEPT ![p][i] = Answered(r, answer)]
    /\ master' = IF answer = "ok"
                 THEN [master EXCEPT !.info = info, !.listed = @ \cup {p}] ELSE master
    /\ mail' = IF answer = "needchallenge"
               THEN mail \cup {[delete |-> FALSE, protocol |-> p, start |-> master.start]}
               ELSE mail
    /\ UNCHANGED <<enabled, status, answered, due, token, newToken, serial, success,
                   online, events>>

ServeDelete(m) ==
    /\ m \in mail /\ m.delete
    /\ mail' = mail \ {m}
    /\ master' = [master EXCEPT !.listed = @ \ {m.protocol}]
    /\ UNCHANGED <<enabled, status, answered, due, token, newToken, flight, serial,
                   success, online, events>>

\* A request or its answer, a token or a deletion is lost
LoseRequest(p, i) ==
    /\ ~flight[p][i].noted /\ events < MaxEvents
    /\ Forget(p, i)
    /\ events' = events + 1
    /\ UNCHANGED <<enabled, status, answered, due, token, newToken, serial, success,
                   online, master, mail>>

LoseMail(m) ==
    /\ m \in mail /\ events < MaxEvents
    /\ mail' = mail \ {m}
    /\ events' = events + 1
    /\ UNCHANGED <<enabled, status, answered, due, token, newToken, flight, serial,
                   success, online, master>>

MasterRestarts ==
    /\ events < MaxEvents
    /\ master' = [start |-> master.start + 1, info |-> NoInfo, listed |-> {}]
    /\ events' = events + 1
    /\ UNCHANGED <<enabled, status, answered, due, token, newToken, flight, serial,
                   success, online, mail>>

-----------------------------------------------------------------------------
JobStep(p, i) == Serve(p, i) \/ NoteAnswer(p, i) \/ Count(p, i)
ServerStep(p) == Update(p) \/ \E m \in mail : m.protocol = p /\ OnToken(m)

RegisterNext ==
    \/ \E p \in Protocols : ServerStep(p) \/ TimePasses(p)
    \/ \E p \in Protocols : \E i \in DOMAIN flight[p] : JobStep(p, i) \/ LoseRequest(p, i)
    \/ \E m \in mail : ServeDelete(m) \/ LoseMail(m)
    \/ \E soon \in {{}} \cup {{p} : p \in Protocols} : OnNewInfo(soon)
    \/ \E new \in [Protocols -> BOOLEAN] : OnConfigChange(new)
    \/ OnShutdown
    \/ MasterRestarts

\* The main loop and the workers go on, time passes, and what is not lost
\* arrives; nothing need change or fail.
RegisterFairness ==
    /\ \A p \in Protocols :
        /\ WF_registerVars(TimePasses(p))
        /\ WF_registerVars(Update(p))
        /\ SF_registerVars(\E m \in mail : m.protocol = p /\ OnToken(m))
        /\ WF_registerVars(flight[p] # <<>> /\ JobStep(p, 1))
    /\ WF_registerVars(\E m \in mail : ServeDelete(m))

RegisterSpec == RegisterInit /\ [][RegisterNext]_registerVars /\ RegisterFairness

-----------------------------------------------------------------------------
(* Properties.                                                             *)

\* Every variable keeps its type, and the master has no info that is newer
\* than the server's.
RequestRecords == [
    serial : Nat, info : BOOLEAN, token : Int, newest : BOOLEAN,
    overtaken : BOOLEAN, answer : Statuses, noted : BOOLEAN]
RegisterTypeOK ==
    /\ enabled \in [Protocols -> BOOLEAN] /\ status \in [Protocols -> Statuses]
    /\ answered \in [Protocols -> BOOLEAN] /\ due \in [Protocols -> BOOLEAN]
    /\ token \in [Protocols -> Int] /\ newToken \in [Protocols -> BOOLEAN]
    /\ \A p \in Protocols : flight[p] \in Seq(RequestRecords)
    /\ serial \in Nat /\ success \in Int /\ success <= serial
    /\ online \in BOOLEAN
    /\ master.start \in Nat /\ master.info \in NoInfo .. serial
    /\ master.listed \subseteq Protocols

\* No request leaves the info out before the master has it, unless the master
\* loses it later: answers of other protocols and older requests do not count.
InfoReachedMaster == master.start = 0 => success <= master.info

\* Once nothing changes and nothing fails any more, the master lists the
\* server for each protocol that is enabled, with the info it has by then,
\* in whatever order the requests, their answers and the tokens came before.
EventuallyListed ==
    \A p \in Protocols :
        <>[](online /\ enabled[p] => p \in master.listed /\ master.info = serial)
=============================================================================
