--------------------------- MODULE RegisterProofs ---------------------------
(* Theorems about Register: its type invariant, and that no request leaves  *)
(* the info out before the master has it, for any protocols, any number of  *)
(* requests in flight and of losses, changes and restarts.                  *)
EXTENDS Register, SequenceTheorems, TLAPS

Masters == [start : Nat, info : Int, listed : SUBSET Protocols]
Mails == [delete : BOOLEAN, protocol : Protocols, start : Int]

Types ==
    /\ enabled \in [Protocols -> BOOLEAN] /\ status \in [Protocols -> Statuses]
    /\ answered \in [Protocols -> BOOLEAN] /\ due \in [Protocols -> BOOLEAN]
    /\ token \in [Protocols -> Int] /\ newToken \in [Protocols -> BOOLEAN]
    /\ flight \in [Protocols -> Seq(RequestRecords)]
    /\ serial \in Nat /\ success \in Int /\ online \in BOOLEAN
    /\ master \in Masters /\ mail \subseteq Mails

\* What a request in flight may claim: a serial the server has given, and,
\* once it is answered ok by a master that never restarted, one it has
FineRequest(r, s, m) ==
    /\ r.serial <= s
    /\ m.start = 0 /\ r.answer = "ok" => r.serial <= m.info
Fine(f, s, m) == \A p \in Protocols : \A i \in DOMAIN f[p] : FineRequest(f[p][i], s, m)

Bounds ==
    /\ success <= serial
    /\ -1 <= master.info /\ master.info <= serial

\* InfoReachedMaster is not inductive: Count takes the serial of an answered
\* request for one the master has, in whatever order the answers come.
Inv == Types /\ Bounds /\ Fine(flight, serial, master) /\ InfoReachedMaster

-----------------------------------------------------------------------------
(* Sequences of requests.                                                  *)

\* A request with its notes changed is a request.
LEMMA RequestTypes ==
    ASSUME NEW r \in RequestRecords
    PROVE  /\ [r EXCEPT !.newest = FALSE] \in RequestRecords
           /\ [r EXCEPT !.overtaken = TRUE] \in RequestRecords
           /\ [r EXCEPT !.noted = TRUE] \in RequestRecords
BY DEF RequestRecords

\* An answered request is the request it was, with the answer.
LEMMA AnsweredTypes ==
    ASSUME NEW r \in RequestRecords, NEW a \in Statuses
    PROVE  /\ Answered(r, a) \in RequestRecords
           /\ Answered(r, a).serial = r.serial
           /\ Answered(r, a).answer = a
<1>1. Answered(r, a) = [r EXCEPT !.info = FALSE, !.token = -1, !.answer = a]
  BY DEF Answered, NoToken
<1>2. -1 \in Int
  OBVIOUS
<1> QED BY <1>1, <1>2 DEF RequestRecords

\* What is left of a sequence without one of its elements.
LEMMA RemoveAtProperties ==
    ASSUME NEW S, NEW s \in Seq(S), NEW i \in DOMAIN s
    PROVE  /\ RemoveAt(s, i) \in Seq(S)
           /\ \A j \in DOMAIN RemoveAt(s, i) :
                 \E k \in DOMAIN s : RemoveAt(s, i)[j] = s[k]
<1> DEFINE a == SubSeq(s, 1, i - 1)
           b == SubSeq(s, i + 1, Len(s))
<1>1. Len(s) \in Nat /\ DOMAIN s = 1 .. Len(s)
  BY LenProperties
<1>2. /\ a \in Seq(S) /\ Len(a) = i - 1
      /\ \A j \in 1 .. (i - 1) : a[j] = s[j]
  BY <1>1, SubSeqProperties
<1>3. /\ b \in Seq(S) /\ Len(b) = Len(s) - i
      /\ \A j \in 1 .. (Len(s) - i) : b[j] = s[i + j]
  BY <1>1, SubSeqProperties
<1>4. RemoveAt(s, i) = a \o b
  BY DEF RemoveAt
<1> HIDE DEF a, b
<1>5. /\ a \o b \in Seq(S)
      /\ Len(a \o b) = Len(s) - 1
      /\ \A j \in 1 .. (Len(s) - 1) :
            (a \o b)[j] = IF j <= i - 1 THEN a[j] ELSE b[j - (i - 1)]
  <2>1. Len(a) + Len(b) = Len(s) - 1
    BY <1>1, <1>2, <1>3
  <2>2. /\ a \o b \in Seq(S)
        /\ Len(a \o b) = Len(a) + Len(b)
        /\ \A j \in 1 .. Len(a) + Len(b) :
              (a \o b)[j] = IF j <= Len(a) THEN a[j] ELSE b[j - Len(a)]
    BY <1>2, <1>3, ConcatProperties
  <2> QED BY <1>2, <2>1, <2>2
<1>6. DOMAIN (a \o b) = 1 .. (Len(s) - 1)
  BY <1>5, LenProperties
<1>7. ASSUME NEW j \in 1 .. (Len(s) - 1)
      PROVE  \E k \in DOMAIN s : (a \o b)[j] = s[k]
  <2>1. CASE j <= i - 1
    <3>1. (a \o b)[j] = s[j] /\ j \in DOMAIN s
      BY <1>1, <1>2, <1>5, <2>1
    <3> QED BY <3>1
  <2>2. CASE ~(j <= i - 1)
    <3>1. j - (i - 1) \in 1 .. (Len(s) - i) /\ j + 1 \in DOMAIN s
      BY <1>1, <2>2
    <3>2. (a \o b)[j] = b[j - (i - 1)]
      BY <1>5, <2>2
    <3>3. b[j - (i - 1)] = s[i + (j - (i - 1))] /\ i + (j - (i - 1)) = j + 1
      BY <1>1, <1>3, <3>1
    <3>4. (a \o b)[j] = s[j + 1]
      BY <3>2, <3>3
    <3> QED BY <3>1, <3>4
  <2> QED BY <2>1, <2>2
<1> QED BY <1>4, <1>5, <1>6, <1>7

-----------------------------------------------------------------------------
(* The main thread.                                                        *)

\* SendRegister keeps the types and adds requests that claim no more than
\* the serial it is given.
LEMMA SendRegisterInv ==
    ASSUME Types, NEW ps, NEW s \in Nat, serial <= s,
           NEW t \in [Protocols -> Int], NEW n \in [Protocols -> BOOLEAN],
           Fine(flight, serial, master), SendRegister(ps, s, t, n)
    PROVE  /\ flight' \in [Protocols -> Seq(RequestRecords)]
           /\ answered' \in [Protocols -> BOOLEAN]
           /\ newToken' \in [Protocols -> BOOLEAN]
           /\ due' \in [Protocols -> BOOLEAN]
           /\ Fine(flight', s, master)
<1> USE DEF Types
<1> DEFINE older(p) == [i \in DOMAIN flight[p] |-> [flight[p][i] EXCEPT !.newest = FALSE]]
           new(p) == Request(s, t[p])
<1>1. ASSUME NEW p \in Protocols
      PROVE  /\ older(p) \in Seq(RequestRecords)
             /\ DOMAIN older(p) = DOMAIN flight[p]
             /\ \A i \in DOMAIN flight[p] : FineRequest(older(p)[i], s, master)
  <2>1. \A i \in DOMAIN flight[p] : flight[p][i] \in RequestRecords
    BY ElementOfSeq, LenProperties
  <2>2. \A i \in DOMAIN flight[p] :
           [flight[p][i] EXCEPT !.newest = FALSE] \in RequestRecords
    BY <2>1, RequestTypes
  <2>3. older(p) \in Seq(RequestRecords) /\ DOMAIN older(p) = DOMAIN flight[p]
    <3> DEFINE F(i) == [flight[p][i] EXCEPT !.newest = FALSE]
    <3>1. \A i \in DOMAIN flight[p] : F(i) \in RequestRecords
      BY <2>2
    <3>2. Len(flight[p]) \in Nat /\ DOMAIN flight[p] = 1 .. Len(flight[p])
      BY LenProperties
    <3> QED BY <3>1, <3>2, IsASeq
  <2>4. ASSUME NEW i \in DOMAIN flight[p]
        PROVE  FineRequest(older(p)[i], s, master)
    <3>1. flight[p][i] \in RequestRecords /\ FineRequest(flight[p][i], serial, master)
      BY <2>1 DEF Fine
    <3>2. older(p)[i].serial = flight[p][i].serial
          /\ older(p)[i].answer = flight[p][i].answer
      BY <3>1 DEF RequestRecords
    <3>3. flight[p][i].serial \in Nat
      BY <3>1 DEF RequestRecords
    <3> QED BY <3>1, <3>2, <3>3 DEF FineRequest
  <2> QED BY <2>3, <2>4
<1>2. ASSUME NEW p \in Protocols
      PROVE  /\ new(p) \in RequestRecords
             /\ FineRequest(new(p), s, master)
  <2>1. new(p) \in RequestRecords /\ new(p).serial = s /\ new(p).answer = "none"
    BY DEF Request, RequestRecords, Statuses
  <2> QED BY <2>1 DEF FineRequest
<1>3. flight' = [p \in Protocols |->
                   IF p \in ps THEN Append(older(p), new(p)) ELSE flight[p]]
  BY DEF SendRegister
<1>4. ASSUME NEW p \in Protocols
      PROVE  /\ flight'[p] \in Seq(RequestRecords)
             /\ \A i \in DOMAIN flight'[p] : FineRequest(flight'[p][i], s, master)
  <2>1. CASE p \in ps
    <3>1. flight'[p] = Append(older(p), new(p))
      BY <1>3, <2>1
    <3>2. older(p) \in Seq(RequestRecords) /\ new(p) \in RequestRecords
      BY <1>1, <1>2
    <3> HIDE DEF older, new
    <3>3. /\ flight'[p] \in Seq(RequestRecords)
          /\ Len(flight'[p]) = Len(older(p)) + 1
          /\ \A i \in 1 .. Len(older(p)) : flight'[p][i] = older(p)[i]
          /\ flight'[p][Len(older(p)) + 1] = new(p)
      BY <3>1, <3>2, AppendProperties
    <3>4. Len(older(p)) \in Nat /\ DOMAIN older(p) = 1 .. Len(older(p))
      BY <3>2, LenProperties
    <3>5. DOMAIN flight'[p] = 1 .. (Len(older(p)) + 1)
      BY <3>3, LenProperties
    <3>6. \A i \in 1 .. Len(older(p)) : FineRequest(flight'[p][i], s, master)
      BY <1>1, <3>3, <3>4
    <3>7. FineRequest(flight'[p][Len(older(p)) + 1], s, master)
      BY <1>2, <3>3
    <3>8. \A k \in Nat : \A i \in 1 .. (k + 1) : i \in 1 .. k \/ i = k + 1
      OBVIOUS
    <3>9. \A i \in DOMAIN flight'[p] : i \in 1 .. Len(older(p)) \/ i = Len(older(p)) + 1
      BY <3>4, <3>5, <3>8
    <3> QED BY <3>3, <3>6, <3>7, <3>9
  <2>2. CASE p \notin ps
    <3>1. flight'[p] = flight[p]
      BY <1>3, <2>2
    <3>2. ASSUME NEW i \in DOMAIN flight[p]
          PROVE  FineRequest(flight[p][i], s, master)
      <4>1. flight[p][i] \in RequestRecords /\ FineRequest(flight[p][i], serial, master)
        BY ElementOfSeq, LenProperties DEF Fine
      <4>2. flight[p][i].serial \in Nat
        BY <4>1 DEF RequestRecords
      <4> QED BY <4>1, <4>2 DEF FineRequest
    <3> QED BY <3>1, <3>2
  <2> QED BY <2>1, <2>2
<1>5. flight' \in [Protocols -> Seq(RequestRecords)]
  BY <1>3, <1>4
<1> QED BY <1>4, <1>5 DEF SendRegister, Fine

\* SendDelete keeps the types.
LEMMA SendDeleteTypes ==
    ASSUME Types, NEW ps \in SUBSET Protocols, SendDelete(ps)
    PROVE  status' \in [Protocols -> Statuses] /\ mail' \subseteq Mails
<1>1. status' \in [Protocols -> Statuses]
  BY DEF Types, SendDelete, Statuses
<1>2. \A p \in Protocols :
         [delete |-> TRUE, protocol |-> p, start |-> NoToken] \in Mails
  BY DEF Mails, NoToken
<1>3. mail' \subseteq mail \cup {[delete |-> TRUE, protocol |-> p, start |-> NoToken] :
                                   p \in Protocols}
  BY DEF SendDelete
<1> QED BY <1>1, <1>2, <1>3 DEF Types

LEMMA UpdateInv == ASSUME Inv, NEW p \in Protocols, Update(p) PROVE Inv'
<1>1. /\ Types /\ Fine(flight, serial, master) /\ SendRegister({p}, serial, token, newToken)
      /\ serial \in Nat /\ serial <= serial
      /\ token \in [Protocols -> Int] /\ newToken \in [Protocols -> BOOLEAN]
  BY DEF Inv, Update, Types
<1>2. /\ flight' \in [Protocols -> Seq(RequestRecords)] /\ answered' \in [Protocols -> BOOLEAN]
      /\ newToken' \in [Protocols -> BOOLEAN] /\ due' \in [Protocols -> BOOLEAN]
      /\ Fine(flight', serial, master)
  BY <1>1, SendRegisterInv
<1> QED BY <1>2 DEF Inv, Update, Types, Bounds, Fine, FineRequest, InfoReachedMaster

LEMMA TimePassesInv == ASSUME Inv, NEW p \in Protocols, TimePasses(p) PROVE Inv'
BY DEF Inv, TimePasses, Types, Bounds, Fine, FineRequest, InfoReachedMaster

LEMMA OnTokenInv == ASSUME Inv, NEW m \in mail, OnToken(m) PROVE Inv'
<1>1. Types /\ Fine(flight, serial, master) /\ m \in Mails
  BY DEF Inv, Types
<1>2. m.protocol \in Protocols /\ m.start \in Int
  BY <1>1 DEF Mails
<1> DEFINE n == [newToken EXCEPT ![m.protocol] = TRUE]
<1>3. token' \in [Protocols -> Int] /\ n \in [Protocols -> BOOLEAN]
  BY <1>1, <1>2 DEF OnToken, Types
<1>4. PICK ps : SendRegister(ps, serial, token', n)
  BY DEF OnToken
<1> HIDE DEF n
<1>5. /\ flight' \in [Protocols -> Seq(RequestRecords)] /\ answered' \in [Protocols -> BOOLEAN]
      /\ newToken' \in [Protocols -> BOOLEAN] /\ due' \in [Protocols -> BOOLEAN]
      /\ Fine(flight', serial, master)
  <2>1. serial \in Nat /\ serial <= serial
    BY <1>1 DEF Types
  <2> QED BY <1>1, <1>3, <1>4, <2>1, SendRegisterInv
<1> QED BY <1>3, <1>5 DEF Inv, OnToken, Types, Bounds, Fine, FineRequest, InfoReachedMaster

LEMMA OnNewInfoInv == ASSUME Inv, NEW soon, OnNewInfo(soon) PROVE Inv'
<1>1. /\ Types /\ Fine(flight, serial, master)
      /\ serial \in Nat /\ serial <= serial
      /\ token \in [Protocols -> Int] /\ newToken \in [Protocols -> BOOLEAN]
  BY DEF Inv, Types
<1>2. PICK ps : SendRegister(ps, serial', token, newToken)
  BY DEF OnNewInfo
<1>3. serial' \in Nat /\ serial <= serial'
  BY <1>1 DEF OnNewInfo, Types
<1>4. /\ flight' \in [Protocols -> Seq(RequestRecords)] /\ answered' \in [Protocols -> BOOLEAN]
      /\ newToken' \in [Protocols -> BOOLEAN] /\ due' \in [Protocols -> BOOLEAN]
      /\ Fine(flight', serial', master)
  BY <1>1, <1>2, <1>3, SendRegisterInv
<1>5. Types' /\ Bounds'
  BY <1>3, <1>4 DEF Inv, OnNewInfo, Types, Bounds, Masters
<1> QED BY <1>4, <1>5 DEF Inv, OnNewInfo, Fine, FineRequest, InfoReachedMaster

LEMMA OnConfigChangeInv ==
    ASSUME Inv, NEW new \in [Protocols -> BOOLEAN], OnConfigChange(new) PROVE Inv'
<1>1. /\ Types /\ Fine(flight, serial, master)
      /\ serial \in Nat /\ serial <= serial
      /\ token \in [Protocols -> Int] /\ newToken \in [Protocols -> BOOLEAN]
  BY DEF Inv, Types
<1>2. PICK ps : SendRegister(ps, serial, token, newToken)
  BY DEF OnConfigChange
<1>3. PICK qs \in SUBSET Protocols : SendDelete(qs)
  BY DEF OnConfigChange
<1>4. /\ flight' \in [Protocols -> Seq(RequestRecords)] /\ answered' \in [Protocols -> BOOLEAN]
      /\ newToken' \in [Protocols -> BOOLEAN] /\ due' \in [Protocols -> BOOLEAN]
      /\ Fine(flight', serial, master)
  BY <1>1, <1>2, SendRegisterInv
<1>5. status' \in [Protocols -> Statuses] /\ mail' \subseteq Mails
  BY <1>1, <1>3, SendDeleteTypes
<1> QED BY <1>4, <1>5 DEF Inv, OnConfigChange, Types, Bounds, Fine, FineRequest, InfoReachedMaster

LEMMA OnShutdownInv == ASSUME Inv, OnShutdown PROVE Inv'
<1>1. PICK qs \in SUBSET Protocols : SendDelete(qs)
  BY DEF OnShutdown
<1>2. status' \in [Protocols -> Statuses] /\ mail' \subseteq Mails
  BY <1>1, SendDeleteTypes DEF Inv
<1> QED BY <1>2 DEF Inv, OnShutdown, Types, Bounds, Fine, FineRequest, InfoReachedMaster

-----------------------------------------------------------------------------
(* The jobs, the master and the network.                                   *)

\* The requests in flight stay fine if those of one protocol are replaced by
\* fine ones.
LEMMA EditFlight ==
    ASSUME Types, NEW p \in Protocols, NEW q \in Seq(RequestRecords),
           flight' = [flight EXCEPT ![p] = q],
           NEW s, NEW m, Fine(flight, s, m),
           \A i \in DOMAIN q : FineRequest(q[i], s, m)
    PROVE  flight' \in [Protocols -> Seq(RequestRecords)] /\ Fine(flight', s, m)
BY DEF Types, Fine

\* Requests that leave take nothing from what holds of the others.
LEMMA ForgetInv ==
    ASSUME Inv, NEW p \in Protocols, NEW i \in DOMAIN flight[p], Forget(p, i)
    PROVE  /\ flight' \in [Protocols -> Seq(RequestRecords)]
           /\ Fine(flight', serial, master)
<1> DEFINE q == RemoveAt(flight[p], i)
<1>1. Types /\ Fine(flight, serial, master) /\ flight[p] \in Seq(RequestRecords)
  BY DEF Inv, Types
<1>2. /\ q \in Seq(RequestRecords)
      /\ \A j \in DOMAIN q : \E k \in DOMAIN flight[p] : q[j] = flight[p][k]
  BY <1>1, RemoveAtProperties
<1>3. \A j \in DOMAIN q : FineRequest(q[j], serial, master)
  BY <1>1, <1>2 DEF Fine
<1>4. flight' = [flight EXCEPT ![p] = q]
  BY DEF Forget
<1> HIDE DEF q
<1> QED BY <1>1, <1>2, <1>3, <1>4, EditFlight

LEMMA LoseRequestInv ==
    ASSUME Inv, NEW p \in Protocols, NEW i \in DOMAIN flight[p], LoseRequest(p, i)
    PROVE  Inv'
<1>1. /\ flight' \in [Protocols -> Seq(RequestRecords)]
      /\ Fine(flight', serial, master)
  BY ForgetInv DEF LoseRequest
<1> QED BY <1>1 DEF Inv, LoseRequest, Types, Bounds, Fine, FineRequest, InfoReachedMaster

LEMMA CountInv ==
    ASSUME Inv, NEW p \in Protocols, NEW i \in DOMAIN flight[p], Count(p, i)
    PROVE  Inv'
<1> DEFINE r == flight[p][i]
<1>1. /\ flight' \in [Protocols -> Seq(RequestRecords)]
      /\ Fine(flight', serial, master)
  BY ForgetInv DEF Count
<1>2. r \in RequestRecords /\ FineRequest(r, serial, master)
  <2>1. flight[p] \in Seq(RequestRecords)
    BY DEF Inv, Types
  <2> QED BY <2>1, ElementOfSeq, LenProperties DEF Inv, Fine
<1>3. r.serial \in Nat /\ r.serial <= serial
      /\ (master.start = 0 /\ r.answer = "ok" => r.serial <= master.info)
  BY <1>2 DEF FineRequest, RequestRecords
<1>4. /\ success' = (IF r.answer = "ok" /\ r.serial > success THEN r.serial
                     ELSE IF r.answer = "needinfo" /\ r.serial = success THEN success - 1
                     ELSE success)
      /\ UNCHANGED <<enabled, status, answered, due, token, newToken, serial, online,
                     master, mail>>
  BY DEF Count
<1>5. master.info \in Int
  BY DEF Inv, Types, Masters
<1> HIDE DEF r
<1>6. Types' /\ Bounds'
  BY <1>1, <1>3, <1>4 DEF Inv, Types, Bounds
<1>7. InfoReachedMaster'
  BY <1>3, <1>4, <1>5 DEF Inv, Types, InfoReachedMaster
<1>8. Fine(flight', serial', master')
  BY <1>1, <1>4
<1> QED BY <1>6, <1>7, <1>8 DEF Inv, Fine, FineRequest

LEMMA NoteAnswerInv ==
    ASSUME Inv, NEW p \in Protocols, NEW i \in DOMAIN flight[p], NoteAnswer(p, i)
    PROVE  Inv'
<1> DEFINE f == flight[p]
           F(j) == IF j < i THEN [f[j] EXCEPT !.overtaken = TRUE]
                   ELSE IF j = i THEN [f[j] EXCEPT !.noted = TRUE] ELSE f[j]
           q == [j \in DOMAIN f |-> F(j)]
<1>1. Types /\ Fine(flight, serial, master) /\ f \in Seq(RequestRecords)
  BY DEF Inv, Types
<1>2. Len(f) \in Nat /\ DOMAIN f = 1 .. Len(f)
  BY <1>1, LenProperties
<1>3. ASSUME NEW j \in DOMAIN f
      PROVE  F(j) \in RequestRecords /\ FineRequest(F(j), serial, master)
  <2>1. f[j] \in RequestRecords /\ FineRequest(f[j], serial, master)
    BY <1>1, <1>2, ElementOfSeq DEF Fine
  <2>2. F(j) \in RequestRecords
    BY <2>1, RequestTypes
  <2>3. F(j).serial = f[j].serial /\ F(j).answer = f[j].answer
    BY <2>1 DEF RequestRecords
  <2> QED BY <2>1, <2>2, <2>3 DEF FineRequest
<1>4. q \in Seq(RequestRecords) /\ DOMAIN q = DOMAIN f
  BY <1>2, <1>3, IsASeq
<1>5. \A j \in DOMAIN q : FineRequest(q[j], serial, master)
  BY <1>3
<1>6. flight' = [flight EXCEPT ![p] = q]
  BY DEF NoteAnswer
<1>7. flight' \in [Protocols -> Seq(RequestRecords)] /\ Fine(flight', serial, master)
  <2> HIDE DEF q, f
  <2> QED BY <1>1, <1>4, <1>5, <1>6, EditFlight
<1>8. f[i] \in RequestRecords
  BY <1>1, <1>2, ElementOfSeq
<1>9. status' \in [Protocols -> Statuses] /\ answered' \in [Protocols -> BOOLEAN]
  BY <1>8 DEF Inv, Types, NoteAnswer, RequestRecords
<1> QED BY <1>7, <1>9 DEF Inv, NoteAnswer, Types, Bounds, Fine, FineRequest, InfoReachedMaster

\* The master has the info of a registration it answers with ok, and what it
\* has is never taken back.
LEMMA ServeInv ==
    ASSUME Inv, NEW p \in Protocols, NEW i \in DOMAIN flight[p], Serve(p, i)
    PROVE  Inv'
<1> DEFINE f == flight[p]
           r == f[i]
           answer == MasterAnswer(r)
           info == IF r.info /\ r.serial > master.info THEN r.serial ELSE master.info
           new == Answered(r, answer)
           q == [f EXCEPT ![i] = new]
<1>1. Types /\ Bounds /\ Fine(flight, serial, master) /\ f \in Seq(RequestRecords)
  BY DEF Inv, Types
<1>2. Len(f) \in Nat /\ DOMAIN f = 1 .. Len(f)
  BY <1>1, LenProperties
<1>3. \A j \in DOMAIN f : f[j] \in RequestRecords /\ FineRequest(f[j], serial, master)
  BY <1>1, <1>2, ElementOfSeq DEF Fine
<1>4. answer \in Statuses
  BY DEF MasterAnswer, Statuses
<1>5. /\ new \in RequestRecords
      /\ new.serial = r.serial /\ new.answer = answer
  BY <1>3, <1>4, AnsweredTypes
<1>6. r.serial \in Nat /\ r.serial <= serial
  BY <1>3 DEF FineRequest, RequestRecords
<1>7. /\ master.info \in Int /\ master.start \in Nat /\ serial \in Nat
      /\ -1 <= master.info /\ master.info <= serial
  BY <1>1 DEF Types, Masters, Bounds
<1>8. /\ master' \in Masters /\ master'.start = master.start
      /\ master.info <= master'.info
      /\ -1 <= master'.info /\ master'.info <= serial
      /\ answer = "ok" => r.serial <= master'.info
  <2>1. CASE answer = "ok"
    <3>1. master' = [master EXCEPT !.info = info, !.listed = @ \cup {p}]
      BY <2>1 DEF Serve
    <3>2. info \in Int /\ master.info <= info /\ info <= serial
      BY <1>6, <1>7
    <3>3. r.serial <= info
      BY <1>6, <1>7, <2>1 DEF MasterAnswer
    <3>4. master \in Masters
      BY <1>1 DEF Types
    <3> HIDE DEF info, answer
    <3>5. /\ master' \in Masters /\ master'.start = master.start
          /\ master'.info = info
      BY <3>1, <3>2, <3>4 DEF Masters
    <3> QED BY <1>7, <3>2, <3>3, <3>5
  <2>2. CASE answer # "ok"
    <3>1. master' = master
      BY <2>2 DEF Serve
    <3> QED BY <1>1, <1>7, <2>2, <3>1 DEF Types
  <2> QED BY <2>1, <2>2
<1>9. ASSUME NEW x \in RequestRecords, FineRequest(x, serial, master)
      PROVE  FineRequest(x, serial, master')
  <2>1. x.serial \in Nat
    BY DEF RequestRecords
  <2>2. master'.info \in Int
    BY <1>8 DEF Masters
  <2> QED BY <1>7, <1>8, <1>9, <2>1, <2>2 DEF FineRequest
<1>10. FineRequest(new, serial, master')
  BY <1>5, <1>6, <1>8 DEF FineRequest
<1>11. Fine(flight, serial, master')
  <2>1. ASSUME NEW o \in Protocols, NEW j \in DOMAIN flight[o]
        PROVE  FineRequest(flight[o][j], serial, master')
    <3>1. flight[o] \in Seq(RequestRecords)
      BY <1>1 DEF Types
    <3>2. flight[o][j] \in RequestRecords
      BY <3>1, ElementOfSeq, LenProperties
    <3> QED BY <1>1, <1>9, <3>2 DEF Fine
  <2> QED BY <2>1 DEF Fine
<1>12. /\ q \in Seq(RequestRecords)
       /\ \A j \in DOMAIN q : FineRequest(q[j], serial, master')
  <2> HIDE DEF new, f
  <2>1. q \in Seq(RequestRecords) /\ DOMAIN q = DOMAIN f
    <3>1. i \in 1 .. Len(f)
      BY <1>2 DEF f
    <3> QED BY <1>1, <1>5, <3>1, ExceptSeq
  <2>2. ASSUME NEW j \in DOMAIN f
        PROVE  FineRequest(q[j], serial, master')
    <3>1. CASE j = i
      BY <1>10, <3>1, <1>2
    <3>2. CASE j # i
      BY <1>3, <1>9, <3>2
    <3> QED BY <3>1, <3>2
  <2> QED BY <2>1, <2>2
<1>13. flight' = [flight EXCEPT ![p] = q]
  BY DEF Serve
<1>14. flight' \in [Protocols -> Seq(RequestRecords)] /\ Fine(flight', serial, master')
  <2> HIDE DEF q, f
  <2> QED BY <1>1, <1>11, <1>12, <1>13, EditFlight
<1>15. mail' \subseteq Mails
  <2>1. [delete |-> FALSE, protocol |-> p, start |-> master.start] \in Mails
    BY <1>7 DEF Mails
  <2>2. mail' \subseteq mail \cup {[delete |-> FALSE, protocol |-> p, start |-> master.start]}
    BY DEF Serve
  <2> QED BY <1>1, <2>1, <2>2 DEF Types
<1>16. /\ UNCHANGED <<enabled, status, answered, due, token, newToken, serial, success,
                      online>>
  BY DEF Serve
<1>17. Types' /\ Bounds'
  BY <1>1, <1>8, <1>14, <1>15, <1>16 DEF Types, Bounds
<1>18. InfoReachedMaster'
  <2>1. master'.info \in Int /\ success \in Int
    BY <1>1, <1>8 DEF Masters, Types
  <2> QED BY <1>7, <1>8, <1>16, <2>1 DEF Inv, InfoReachedMaster
<1>19. Fine(flight', serial', master')
  BY <1>14, <1>16
<1> QED BY <1>17, <1>18, <1>19 DEF Inv, Fine, FineRequest

LEMMA ServeDeleteInv == ASSUME Inv, NEW m \in mail, ServeDelete(m) PROVE Inv'
<1>1. master' = [master EXCEPT !.listed = @ \ {m.protocol}] /\ mail' \subseteq mail
  BY DEF ServeDelete
<1>2. /\ master' \in Masters
      /\ master'.start = master.start /\ master'.info = master.info
  BY <1>1 DEF Inv, Types, Masters
<1>3. Fine(flight, serial, master')
  BY <1>2 DEF Inv, Fine, FineRequest
<1> QED BY <1>1, <1>2, <1>3
        DEF Inv, ServeDelete, Types, Bounds, Fine, FineRequest, InfoReachedMaster

LEMMA LoseMailInv == ASSUME Inv, NEW m \in mail, LoseMail(m) PROVE Inv'
BY DEF Inv, LoseMail, Types, Bounds, Fine, FineRequest, InfoReachedMaster

\* A master that has restarted promises nothing about what is in flight.
LEMMA MasterRestartsInv == ASSUME Inv, MasterRestarts PROVE Inv'
<1>1. /\ master' \in Masters /\ master'.start # 0
      /\ master'.info = -1
  BY DEF Inv, MasterRestarts, Types, Masters, NoInfo
<1>2. Fine(flight, serial, master')
  BY <1>1 DEF Inv, Fine, FineRequest
<1> QED BY <1>1, <1>2
        DEF Inv, MasterRestarts, Types, Bounds, Fine, FineRequest, InfoReachedMaster

-----------------------------------------------------------------------------
(* The theorems.                                                           *)

LEMMA InvInit == RegisterInit => Inv
<1> SUFFICES ASSUME RegisterInit PROVE Inv
  OBVIOUS
<1>1. <<>> \in Seq(RequestRecords)
  BY EmptySeq
<1>2. Types
  BY <1>1 DEF RegisterInit, Types, Statuses, Masters, Mails, NoToken, NoInfo
<1>3. Bounds /\ InfoReachedMaster
  BY DEF RegisterInit, Bounds, InfoReachedMaster, NoInfo
<1>4. Fine(flight, serial, master)
  BY DEF RegisterInit, Fine
<1> QED BY <1>2, <1>3, <1>4 DEF Inv

LEMMA InvStep == Inv /\ [RegisterNext]_registerVars => Inv'
<1> SUFFICES ASSUME Inv, [RegisterNext]_registerVars PROVE Inv'
  OBVIOUS
<1>1. ASSUME NEW p \in Protocols, ServerStep(p) PROVE Inv'
  BY <1>1, UpdateInv, OnTokenInv DEF ServerStep
<1>2. ASSUME NEW p \in Protocols, TimePasses(p) PROVE Inv'
  BY <1>2, TimePassesInv
<1>3. ASSUME NEW p \in Protocols, NEW i \in DOMAIN flight[p], JobStep(p, i) PROVE Inv'
  BY <1>3, ServeInv, NoteAnswerInv, CountInv DEF JobStep
<1>4. ASSUME NEW p \in Protocols, NEW i \in DOMAIN flight[p], LoseRequest(p, i) PROVE Inv'
  BY <1>4, LoseRequestInv
<1>5. ASSUME NEW m \in mail, ServeDelete(m) \/ LoseMail(m) PROVE Inv'
  BY <1>5, ServeDeleteInv, LoseMailInv
<1>6. ASSUME NEW soon, OnNewInfo(soon) PROVE Inv'
  BY <1>6, OnNewInfoInv
<1>7. ASSUME NEW new \in [Protocols -> BOOLEAN], OnConfigChange(new) PROVE Inv'
  BY <1>7, OnConfigChangeInv
<1>8. CASE OnShutdown
  BY <1>8, OnShutdownInv
<1>9. CASE MasterRestarts
  BY <1>9, MasterRestartsInv
<1>10. CASE UNCHANGED registerVars
  BY <1>10 DEF Inv, registerVars, Types, Bounds, Fine, FineRequest, InfoReachedMaster
<1> QED BY <1>1, <1>2, <1>3, <1>4, <1>5, <1>6, <1>7, <1>8, <1>9, <1>10 DEF RegisterNext

LEMMA Invariance == RegisterSpec => []Inv
<1> QED BY InvInit, InvStep, PTL DEF RegisterSpec

LEMMA InvTypes == Inv => RegisterTypeOK
<1> SUFFICES ASSUME Inv PROVE RegisterTypeOK
  OBVIOUS
<1>1. /\ master.info \in Int /\ serial \in Nat
      /\ -1 <= master.info /\ master.info <= serial
      /\ master.start \in Nat /\ master.listed \subseteq Protocols
  BY DEF Inv, Types, Bounds, Masters
<1> QED BY <1>1 DEF Inv, Types, Bounds, RegisterTypeOK, NoInfo

\* Every variable of the registration keeps its type: among them, no answer,
\* in whatever order it comes, makes the server count an info as arrived that
\* it has not made yet, and the master never has one that is newer.
THEOREM TypeCorrectness == RegisterSpec => []RegisterTypeOK
<1> QED BY Invariance, InvTypes, PTL

\* A request leaves the info out (m_LatestSuccessfulInfoSerial, SendRegister)
\* only if the master has it or has lost it by a restart.
THEOREM InfoIsNotLeftOut == RegisterSpec => []InfoReachedMaster
<1>1. Inv => InfoReachedMaster
  BY DEF Inv
<1> QED BY Invariance, <1>1, PTL
=============================================================================
