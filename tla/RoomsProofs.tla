---------------------------- MODULE RoomsProofs -----------------------------
(***************************************************************************)
(* Theorems about Rooms, for any clients and any number of rooms.  The     *)
(* safety properties of Rooms hold together: a player is moved by a        *)
(* handful of operators, and each of them leaves a controller and a room   *)
(* that fit the players that are in it (Fit).                              *)
(***************************************************************************)
EXTENDS Rooms, FiniteSetTheorems, TLAPS

USE RoomsAssumption

RoomRecords == [open : BOOLEAN, locked : BOOLEAN, invited : SUBSET Clients,
                reload : {"no", "soft", "hard"}]

\* What the controller k and the record r of room t have to say when the
\* players m are in it
Fit(t, k, r, m) ==
    /\ k.created <=> (t = Lobby \/ m # {})
    /\ t # Lobby => (r.open <=> k.created)
    /\ k.init => k.created
    /\ t # Lobby /\ ~r.open => ~r.locked /\ r.invited = {}
    /\ k.counted >= Cardinality(m)
    /\ t # Lobby => k.counted = Cardinality(m) /\ k.victim \subseteq m

\* The players are where the counts say.
PlayersOK ==
    /\ client \in [Clients -> {"out", "connecting", "ingame"}]
    /\ team \in [Clients -> Rooms] /\ size \in [Rooms -> Nat]
    /\ SizesAreTrue

\* The rooms, with controllers k and records r, fit the players m.
RoomsFit(k, r, m) ==
    /\ k \in [Rooms -> Controllers] /\ r \in [Rooms -> RoomRecords]
    /\ \A t \in Rooms : Fit(t, k[t], r[t], m[t])

MembersOf == [t \in Rooms |-> Members(t)]

ClockOK ==
    /\ visit \in [Clients -> Nat] /\ reloads \in Nat /\ crashed \in BOOLEAN
    /\ tick \in [phase : {"net", "rooms", "entities"}, at : Rooms,
                 processed : Nat, created : Nat, inited : Nat]

RoomInv == PlayersOK /\ RoomsFit(inst, room, MembersOf) /\ ClockOK

-----------------------------------------------------------------------------
(* Players, counted.                                                       *)

LEMMA LobbyIsRoom == Lobby \in Rooms
BY DEF Lobby, Rooms

LEMMA Counting ==
    ASSUME NEW m \in SUBSET Clients
    PROVE  /\ IsFiniteSet(m) /\ Cardinality(m) \in Nat
           /\ Cardinality(m) = 0 <=> m = {}
           /\ \A c \in Clients \ m : Cardinality(m \cup {c}) = Cardinality(m) + 1
           /\ \A c \in m : /\ Cardinality(m \ {c}) = Cardinality(m) - 1
                           /\ Cardinality(m) <= 1 <=> m = {c}
<1>1. IsFiniteSet(m) /\ Cardinality(m) \in Nat
  BY FS_Subset, FS_CardinalityType
<1>2. Cardinality(m) = 0 <=> m = {}
  BY <1>1, FS_EmptySet
<1>3. \A c \in Clients \ m : Cardinality(m \cup {c}) = Cardinality(m) + 1
  BY <1>1, FS_AddElement
<1>4. ASSUME NEW c \in m
      PROVE  /\ Cardinality(m \ {c}) = Cardinality(m) - 1
             /\ Cardinality(m) <= 1 <=> m = {c}
  <2>1. IsFiniteSet(m \ {c}) /\ Cardinality(m \ {c}) = Cardinality(m) - 1
    BY <1>1, FS_RemoveElement
  <2>2. Cardinality(m \ {c}) \in Nat /\ (Cardinality(m \ {c}) = 0 <=> m \ {c} = {})
    BY <2>1, FS_CardinalityType, FS_EmptySet
  <2>3. m \ {c} = {} <=> m = {c}
    OBVIOUS
  <2> QED BY <1>1, <2>1, <2>2, <2>3
<1> QED BY <1>1, <1>2, <1>3, <1>4

LEMMA MembersAre ==
    /\ \A t : Members(t) \in SUBSET Clients
    /\ \A t : Members(t) \subseteq Present(t) /\ Present(t) \in SUBSET Clients
    /\ SizesAreTrue => \A t : t # Lobby => Present(t) = Members(t)
BY DEF Members, Present, SizesAreTrue

\* A player moves to room t, or enters it.
LEMMA MembersMoved ==
    ASSUME PlayersOK, NEW c \in Clients, NEW t \in Rooms,
           client' = [client EXCEPT ![c] = "ingame"], team' = [team EXCEPT ![c] = t]
    PROVE  \A u : Members(u)' = IF u = t THEN Members(u) \cup {c} ELSE Members(u) \ {c}
BY DEF Members, PlayersOK

\* A player is dropped.
LEMMA MembersDropped ==
    ASSUME PlayersOK, NEW c \in Clients, client' = [client EXCEPT ![c] = "out"],
           \A d \in Clients \ {c} : team'[d] = team[d]
    PROVE  \A u : Members(u)' = Members(u) \ {c}
BY DEF Members, PlayersOK

-----------------------------------------------------------------------------
(* Controllers and rooms, one at a time.                                   *)

LEMMA ControllerTypes ==
    /\ NoController \in Controllers /\ NoRoom \in RoomRecords
    /\ \A m \in SUBSET Clients : NewController(m) \in Controllers
    /\ \A k \in Controllers : EndVote(k) \in Controllers
    /\ \A k \in Controllers : \A c, t, reason : PlayerLeaves(k, c, t, reason) \in Controllers
<1>1. NoController \in Controllers /\ NoRoom \in RoomRecords
  BY DEF NoController, Controllers, NoRoom, RoomRecords, Nobody
<1>2. ASSUME NEW m \in SUBSET Clients PROVE NewController(m) \in Controllers
  <2>1. Cardinality(m) \in Int
    BY Counting
  <2> QED BY <1>1, <2>1 DEF NewController, Controllers
<1>3. \A k \in Controllers : EndVote(k) \in Controllers
  BY DEF EndVote, Controllers, Nobody
<1>4. ASSUME NEW k \in Controllers, NEW c, NEW t, NEW reason
      PROVE  PlayerLeaves(k, c, t, reason) \in Controllers
  <2>1. [k EXCEPT !.counted = @ - 1] \in Controllers
    BY DEF Controllers
  <2> QED BY <1>3, <2>1 DEF PlayerLeaves
<1> QED BY <1>1, <1>2, <1>3, <1>4

\* The end of a vote changes nothing that Fit speaks of but the victim.
LEMMA FitEndVote ==
    ASSUME NEW t, NEW k \in Controllers, NEW r, NEW m, Fit(t, k, r, m)
    PROVE  Fit(t, EndVote(k), r, m)
BY DEF Fit, EndVote, Controllers, Nobody

\* Fewer guests fit as well.
LEMMA FitUninvite ==
    ASSUME NEW t, NEW k, NEW r \in RoomRecords, NEW m, NEW c, Fit(t, k, r, m)
    PROVE  Fit(t, k, [r EXCEPT !.invited = @ \ {c}], m)
BY DEF Fit, RoomRecords

\* A player joins room t.
LEMMA FitJoin ==
    ASSUME NEW t, NEW k \in Controllers, NEW r \in RoomRecords,
           NEW m \in SUBSET Clients, NEW c \in Clients \ m, Fit(t, k, r, m)
    PROVE  LET new == IF k.created THEN k ELSE NewController({})
           IN  Fit(t, [new EXCEPT !.counted = @ + 1],
                   [r EXCEPT !.open = @ \/ ~r.locked], m \cup {c})
<1> DEFINE new == IF k.created THEN k ELSE NewController({})
           k2 == [new EXCEPT !.counted = @ + 1]
           r2 == [r EXCEPT !.open = @ \/ ~r.locked]
<1>1. /\ Cardinality(m) \in Nat /\ Cardinality(m \cup {c}) = Cardinality(m) + 1
      /\ (Cardinality(m) = 0 <=> m = {}) /\ Cardinality({}) = 0
  BY Counting, FS_EmptySet
<1>2. new \in Controllers /\ new.created
  BY ControllerTypes DEF NewController, NoController
<1>3. k.counted \in Int /\ new.counted \in Int
  BY <1>2 DEF Controllers
<1>4. ~k.created => new.counted = 0 /\ new.victim = {} /\ ~new.init
  BY <1>1 DEF NewController, NoController, Nobody
<1>5. /\ k2.created /\ k2.counted = new.counted + 1 /\ k2.victim = new.victim
      /\ k2.init = new.init
  BY <1>2 DEF Controllers
<1>6. /\ r2.open <=> (r.open \/ ~r.locked)
      /\ r2.locked = r.locked /\ r2.invited = r.invited
  BY DEF RoomRecords
<1>7. t # Lobby => r2.open
  BY <1>6 DEF Fit
<1>8. k2.counted >= Cardinality(m \cup {c})
  <2>1. CASE k.created
    BY <1>1, <1>3, <1>5, <2>1 DEF Fit
  <2>2. CASE ~k.created
    BY <1>1, <1>3, <1>4, <1>5, <2>2 DEF Fit
  <2> QED BY <2>1, <2>2
<1>9. t # Lobby => k2.counted = Cardinality(m \cup {c}) /\ k2.victim \subseteq m \cup {c}
  <2>1. CASE k.created
    BY <1>1, <1>3, <1>5, <2>1 DEF Fit
  <2>2. CASE ~k.created
    BY <1>1, <1>3, <1>4, <1>5, <2>2 DEF Fit
  <2> QED BY <2>1, <2>2
<1> HIDE DEF new, k2, r2
<1>10. Fit(t, k2, r2, m \cup {c})
  BY <1>5, <1>7, <1>8, <1>9 DEF Fit
<1> QED BY <1>10 DEF k2, r2, new

\* A player leaves room t, which stays: it is room 0 or has other players.
LEMMA FitLeave ==
    ASSUME NEW t, NEW k \in Controllers, NEW r \in RoomRecords,
           NEW m \in SUBSET Clients, NEW c \in m, NEW reason, Fit(t, k, r, m),
           t = Lobby \/ m # {c}
    PROVE  Fit(t, PlayerLeaves(k, c, t, reason), r, m \ {c})
<1> DEFINE left == [k EXCEPT !.counted = @ - 1]
           k2 == PlayerLeaves(k, c, t, reason)
<1>1. /\ Cardinality(m) \in Nat /\ Cardinality(m \ {c}) = Cardinality(m) - 1
      /\ k.counted \in Int
  BY Counting DEF Controllers
<1>2. /\ left \in Controllers /\ left.created = k.created /\ left.init = k.init
      /\ left.counted = k.counted - 1 /\ left.victim = k.victim
  BY DEF Controllers
<1>3. k2 = left \/ k2 = EndVote(left)
  BY DEF PlayerLeaves
<1>4. /\ k2.created = k.created /\ k2.init = k.init /\ k2.counted = k.counted - 1
  BY <1>2, <1>3 DEF EndVote, Controllers
<1>5. t # Lobby => k2.victim \subseteq k.victim \ {c}
  <2>1. CASE t # Lobby /\ c \in k.victim
    <3>1. k2 = EndVote(left)
      BY <1>2, <2>1 DEF PlayerLeaves
    <3> QED BY <1>2, <3>1 DEF EndVote, Controllers, Nobody
  <2>2. CASE t # Lobby /\ c \notin k.victim
    <3>1. k2.victim \in {{}, k.victim}
      BY <1>2, <1>3 DEF EndVote, Controllers, Nobody
    <3> QED BY <2>2, <3>1
  <2> QED BY <2>1, <2>2
<1>6. t = Lobby \/ m \ {c} # {}
  OBVIOUS
<1> HIDE DEF left, k2
<1>7. Fit(t, k2, r, m \ {c})
  BY <1>1, <1>4, <1>5, <1>6 DEF Fit
<1> QED BY <1>7 DEF k2

\* A player leaves room 0 without the controller's being told.
LEMMA FitLobby ==
    ASSUME NEW k \in Controllers, NEW r \in RoomRecords,
           NEW m \in SUBSET Clients, NEW c \in m, Fit(Lobby, k, r, m)
    PROVE  Fit(Lobby, k, r, m \ {c})
<1>1. /\ Cardinality(m) \in Nat /\ Cardinality(m \ {c}) = Cardinality(m) - 1
      /\ k.counted \in Int
  BY Counting DEF Controllers
<1> QED BY <1>1 DEF Fit

\* The room of the last player is gone.
LEMMA FitGone ==
    ASSUME NEW t, t # Lobby, NEW r, ~r.open, ~r.locked, r.invited = {}
    PROVE  Fit(t, NoController, r, {})
<1>1. Cardinality({}) = 0
  BY FS_EmptySet
<1> QED BY <1>1 DEF Fit, NoController, Nobody

-----------------------------------------------------------------------------
(* The rooms after a player has moved.                                     *)

LEMMA RoomFacts ==
    ASSUME RoomInv, NEW t \in Rooms
    PROVE  /\ Fit(t, inst[t], room[t], Members(t))
           /\ inst[t] \in Controllers /\ room[t] \in RoomRecords
           /\ size[t] = Cardinality(Members(t))
           /\ t # Lobby => Present(t) = Members(t)
<1>1. Fit(t, inst[t], room[t], Members(t))
  BY DEF RoomInv, RoomsFit, MembersOf
<1>2. inst[t] \in Controllers /\ room[t] \in RoomRecords
  BY DEF RoomInv, RoomsFit
<1>3. SizesAreTrue
  BY DEF RoomInv, PlayersOK
<1>4. t # Lobby => Present(t) = Members(t)
  BY <1>3, MembersAre
<1> QED BY <1>1, <1>2, <1>3, <1>4 DEF SizesAreTrue

LEMMA PlayerFacts ==
    ASSUME RoomInv, NEW c \in Clients
    PROVE  /\ team[c] \in Rooms /\ client[c] \in {"out", "connecting", "ingame"}
           /\ client[c] = "ingame" => c \in Members(team[c])
           /\ client[c] # "ingame" => team[c] = Lobby
BY DEF RoomInv, PlayersOK, SizesAreTrue, Members

\* The last player of a room vacates it.
LEMMA VacatesIff ==
    ASSUME RoomInv, NEW c \in Clients, client[c] = "ingame", NEW t \in Rooms,
           t # team[c] \/ t = Lobby
    PROVE  Vacates(c, t) <=> team[c] # Lobby /\ Members(team[c]) = {c}
<1> DEFINE old == team[c]
<1> HIDE DEF old
<1>0. old \in Rooms /\ c \in Members(old)
  BY PlayerFacts DEF old
<1>1. /\ old \in Rooms /\ c \in Members(old) /\ size[old] = Cardinality(Members(old))
      /\ Fit(old, inst[old], room[old], Members(old))
  BY <1>0, RoomFacts
<1>2. Members(old) \in SUBSET Clients
  BY MembersAre
<1>3. Cardinality(Members(old)) <= 1 <=> Members(old) = {c}
  BY <1>1, <1>2, Counting
<1>4. old # Lobby => room[old].open
  BY <1>1 DEF Fit
<1>5. Cardinality(Members(old)) = size[old] /\ (old # t \/ old = Lobby)
  BY <1>1 DEF old
<1> QED BY <1>3, <1>4, <1>5 DEF Vacates, old

\* What can become of a record of a room
LEMMA RecordTypes ==
    ASSUME NEW r \in RoomRecords
    PROVE  LET closed == [r EXCEPT !.open = FALSE, !.locked = FALSE, !.invited = {}]
           IN  /\ closed \in RoomRecords /\ ~closed.open /\ ~closed.locked
               /\ closed.invited = {}
               /\ [r EXCEPT !.open = @ \/ ~r.locked] \in RoomRecords
BY DEF RoomRecords

LEMMA RoomsAfterAre ==
    ASSUME RoomInv, NEW c \in Clients, NEW t \in Rooms
    PROVE  LET r == RoomsAfter(c, t)
           IN  /\ r \in [Rooms -> RoomRecords]
               /\ r[t] = [room[t] EXCEPT !.open = @ \/ ~room[t].locked]
               /\ \A u \in Rooms \ {t} :
                      IF u = team[c] /\ Vacates(c, t)
                      THEN ~r[u].open /\ ~r[u].locked /\ r[u].invited = {}
                      ELSE r[u] = room[u]
<1> DEFINE old == team[c]
           closed == [room[old] EXCEPT !.open = FALSE, !.locked = FALSE, !.invited = {}]
           rest == IF Vacates(c, t) THEN [room EXCEPT ![old] = closed] ELSE room
           new == [rest[t] EXCEPT !.open = @ \/ ~rest[t].locked]
           r == RoomsAfter(c, t)
<1>1. room \in [Rooms -> RoomRecords] /\ old \in Rooms
  BY PlayerFacts DEF RoomInv, RoomsFit
<1>0. room[old] \in RoomRecords
  BY <1>1
<1>2. closed \in RoomRecords /\ ~closed.open /\ ~closed.locked /\ closed.invited = {}
  BY <1>0, RecordTypes
<1>3. Vacates(c, t) => old # t
  BY DEF Vacates
<1> HIDE DEF closed
<1>4. rest \in [Rooms -> RoomRecords] /\ rest[t] = room[t]
  BY <1>1, <1>2, <1>3
<1>5. \A u \in Rooms : rest[u] = IF u = old /\ Vacates(c, t) THEN closed ELSE room[u]
  BY <1>1
<1>6. r = [rest EXCEPT ![t].open = @ \/ ~rest[t].locked]
  BY DEF RoomsAfter, closed
<1> HIDE DEF rest
<1>7. new \in RoomRecords
  BY <1>4, RecordTypes
<1>8. r = [rest EXCEPT ![t] = new]
  BY <1>6
<1> HIDE DEF r, new
<1>9. /\ r \in [Rooms -> RoomRecords] /\ r[t] = new
      /\ \A u \in Rooms \ {t} : r[u] = rest[u]
  BY <1>4, <1>7, <1>8
<1>10. new = [room[t] EXCEPT !.open = @ \/ ~room[t].locked]
  BY <1>4 DEF new
<1>11. \A u \in Rooms \ {t} :
           IF u = old /\ Vacates(c, t)
           THEN ~r[u].open /\ ~r[u].locked /\ r[u].invited = {}
           ELSE r[u] = room[u]
  BY <1>2, <1>5, <1>9
<1> QED BY <1>9, <1>10, <1>11 DEF r

LEMMA InstancesAre ==
    ASSUME RoomInv, NEW c \in Clients, client[c] = "ingame",
           NEW t \in Rooms, t # team[c], NEW reason, reason # "disconnect"
    PROVE  LET k == Instances(inst, c, t, reason)
               new == IF inst[t].created THEN inst[t] ELSE NewController({})
               old == team[c]
           IN  /\ k \in [Rooms -> Controllers]
               /\ k[t] = [new EXCEPT !.counted = @ + 1]
               /\ k[old] = IF Vacates(c, t) THEN NoController
                           ELSE IF room[old].open THEN PlayerLeaves(inst[old], c, old, reason)
                           ELSE inst[old]
               /\ \A u \in Rooms \ {t, old} : k[u] = inst[u]
<1> DEFINE old == team[c]
           new == IF inst[t].created THEN inst[t] ELSE NewController({})
           created == IF inst[t].created THEN inst
                      ELSE [inst EXCEPT ![t] = NewController(Present(t))]
           left == IF reason # "disconnect" /\ room[old].open /\ created[old].created
                   THEN [created EXCEPT ![old] = PlayerLeaves(@, c, old, reason)]
                   ELSE created
           rest == IF Vacates(c, t) THEN [left EXCEPT ![old] = NoController] ELSE left
           joined == [new EXCEPT !.counted = @ + 1]
           k == Instances(inst, c, t, reason)
<1> HIDE DEF old, new, created, left, rest, joined, k
<1>0. old \in Rooms /\ c \in Members(old) /\ old # t
  BY PlayerFacts DEF old
<1>1. /\ inst \in [Rooms -> Controllers] /\ old \in Rooms /\ c \in Members(old)
      /\ Fit(t, inst[t], room[t], Members(t)) /\ Fit(old, inst[old], room[old], Members(old))
      /\ t # Lobby => Present(t) = Members(t)
  BY <1>0, RoomFacts DEF RoomInv, RoomsFit
<1>2. inst[old].created
  BY <1>1 DEF Fit
<1>3. ~inst[t].created => Present(t) = {}
  BY <1>1 DEF Fit
<1>4. NewController({}) \in Controllers /\ new \in Controllers
  <2>1. {} \in SUBSET Clients
    OBVIOUS
  <2>2. NewController({}) \in Controllers
    BY <2>1, ControllerTypes
  <2> QED BY <1>1, <2>2 DEF new
<1>5. /\ created \in [Rooms -> Controllers] /\ created[t] = new
      /\ \A u \in Rooms \ {t} : created[u] = inst[u]
  BY <1>1, <1>3, <1>4 DEF created, new
<1>6. PlayerLeaves(inst[old], c, old, reason) \in Controllers /\ NoController \in Controllers
  BY <1>1, ControllerTypes
<1>7. /\ left \in [Rooms -> Controllers] /\ left[t] = new
      /\ left[old] = IF room[old].open THEN PlayerLeaves(inst[old], c, old, reason)
                     ELSE inst[old]
      /\ \A u \in Rooms \ {t, old} : left[u] = inst[u]
  BY <1>0, <1>1, <1>2, <1>5, <1>6 DEF left
<1>8. /\ rest \in [Rooms -> Controllers] /\ rest[t] = new
      /\ rest[old] = IF Vacates(c, t) THEN NoController ELSE left[old]
      /\ \A u \in Rooms \ {t, old} : rest[u] = inst[u]
  BY <1>0, <1>1, <1>6, <1>7 DEF rest
<1>9. k = [rest EXCEPT ![t].counted = @ + 1]
  BY <1>0 DEF Instances, rest, left, created, old, k
<1>10. joined \in Controllers
  BY <1>4 DEF Controllers, joined
<1>11. k = [rest EXCEPT ![t] = joined]
  BY <1>8, <1>9 DEF joined
<1>12. /\ k \in [Rooms -> Controllers] /\ k[t] = joined /\ k[old] = rest[old]
       /\ \A u \in Rooms \ {t, old} : k[u] = inst[u]
  BY <1>0, <1>1, <1>8, <1>10, <1>11
<1> QED BY <1>7, <1>8, <1>12 DEF joined, new, k, old

-----------------------------------------------------------------------------
(* The players of all rooms, after one has moved.                          *)

\* The counts after a move are those of the players.
LEMMA MoveCounts ==
    ASSUME RoomInv, NEW c \in Clients, client[c] = "ingame",
           NEW old \in Rooms, team[c] = old, NEW t \in Rooms, t # old,
           MoveTo(c, t), UNCHANGED client
    PROVE  /\ PlayersOK'
           /\ Members(t)' = Members(t) \cup {c} /\ c \notin Members(t)
           /\ Members(old)' = Members(old) \ {c}
           /\ \A u \in Rooms \ {t, old} : Members(u)' = Members(u)
<1>1. /\ PlayersOK /\ old \in Rooms /\ old # t /\ c \in Members(old)
      /\ team' = [team EXCEPT ![c] = t]
      /\ size' = [size EXCEPT ![old] = @ - 1, ![t] = @ + 1]
  BY PlayerFacts DEF RoomInv, MoveTo
<1>2. client \in [Clients -> {"out", "connecting", "ingame"}] /\ team \in [Clients -> Rooms]
      /\ size \in [Rooms -> Nat]
  BY <1>1 DEF PlayersOK
<1>3. client' = [client EXCEPT ![c] = "ingame"]
  BY <1>2
<1>4. \A u : Members(u)' = IF u = t THEN Members(u) \cup {c} ELSE Members(u) \ {c}
  BY <1>1, <1>3, MembersMoved
<1>5. \A u : u # old => c \notin Members(u)
  BY DEF Members
<1>6. /\ Members(t)' = Members(t) \cup {c} /\ c \notin Members(t)
      /\ Members(old)' = Members(old) \ {c}
      /\ \A u \in Rooms \ {t, old} : Members(u)' = Members(u)
  BY <1>1, <1>4, <1>5
<1>7. ASSUME NEW u \in Rooms
      PROVE  size'[u] \in Nat /\ size'[u] = Cardinality(Members(u)')
  <2>1. /\ Members(u) \in SUBSET Clients /\ size[u] = Cardinality(Members(u))
        /\ size[u] \in Nat
    BY <1>2, MembersAre, RoomFacts
  <2>2. CASE u = t
    <3>1. Cardinality(Members(u) \cup {c}) = Cardinality(Members(u)) + 1
      BY <1>6, <2>1, <2>2, Counting
    <3>2. size'[u] = size[u] + 1
      BY <1>1, <1>2, <2>2
    <3>3. Members(u)' = Members(u) \cup {c}
      BY <1>6, <2>2
    <3> QED BY <2>1, <3>1, <3>2, <3>3
  <2>3. CASE u = old
    <3>1. /\ Cardinality(Members(u) \ {c}) = Cardinality(Members(u)) - 1
          /\ Cardinality(Members(u) \ {c}) \in Nat
      BY <1>1, <2>1, <2>3, Counting
    <3>2. size'[u] = size[u] - 1
      BY <1>1, <1>2, <2>3
    <3> QED BY <1>6, <2>1, <2>3, <3>1, <3>2
  <2>4. CASE u \notin {t, old}
    <3>1. size'[u] = size[u]
      BY <1>1, <1>2, <2>4
    <3> QED BY <1>6, <2>1, <2>4, <3>1
  <2> QED BY <2>2, <2>3, <2>4
<1>8. size' \in [Rooms -> Nat] /\ team' \in [Clients -> Rooms]
  BY <1>1, <1>2, <1>7
<1>9. \A d \in Clients : client'[d] # "ingame" => team'[d] = Lobby
  BY <1>1, <1>2, PlayerFacts
<1>10. PlayersOK'
  BY <1>2, <1>7, <1>8, <1>9 DEF PlayersOK, SizesAreTrue
<1> QED BY <1>6, <1>10

LEMMA MoveFits ==
    ASSUME RoomInv, NEW c \in Clients, client[c] = "ingame",
           NEW old \in Rooms, team[c] = old, NEW t \in Rooms, t # old,
           NEW reason, reason # "disconnect",
           MoveTo(c, t), UNCHANGED client
    PROVE  PlayersOK' /\ RoomsFit(Instances(inst, c, t, reason), RoomsAfter(c, t), MembersOf')
<1> DEFINE k == Instances(inst, c, t, reason)
           r == RoomsAfter(c, t)
           new == IF inst[t].created THEN inst[t] ELSE NewController({})
<1>1. /\ PlayersOK' /\ c \notin Members(t)
      /\ Members(t)' = Members(t) \cup {c} /\ Members(old)' = Members(old) \ {c}
      /\ \A u \in Rooms \ {t, old} : Members(u)' = Members(u)
  BY MoveCounts
<1>2. old \in Rooms /\ old # t /\ c \in Members(old)
  BY PlayerFacts
<1>3. /\ Fit(t, inst[t], room[t], Members(t)) /\ Fit(old, inst[old], room[old], Members(old))
      /\ inst[t] \in Controllers /\ room[t] \in RoomRecords
      /\ inst[old] \in Controllers /\ room[old] \in RoomRecords
      /\ Members(t) \in SUBSET Clients /\ Members(old) \in SUBSET Clients
  BY <1>2, RoomFacts, MembersAre
<1>4. /\ k \in [Rooms -> Controllers]
      /\ k[t] = [new EXCEPT !.counted = @ + 1]
      /\ k[old] = IF Vacates(c, t) THEN NoController
                  ELSE IF room[old].open THEN PlayerLeaves(inst[old], c, old, reason)
                  ELSE inst[old]
      /\ \A u \in Rooms \ {t, old} : k[u] = inst[u]
  BY InstancesAre
<1>5. /\ r \in [Rooms -> RoomRecords]
      /\ r[t] = [room[t] EXCEPT !.open = @ \/ ~room[t].locked]
      /\ \A u \in Rooms \ {t} :
             IF u = old /\ Vacates(c, t)
             THEN ~r[u].open /\ ~r[u].locked /\ r[u].invited = {}
             ELSE r[u] = room[u]
  BY RoomsAfterAre
<1>6. Vacates(c, t) <=> old # Lobby /\ Members(old) = {c}
  BY VacatesIff
<1> HIDE DEF k, r
<1>7. Fit(t, k[t], r[t], Members(t)')
  BY <1>1, <1>3, <1>4, <1>5, FitJoin
<1>8. Fit(old, k[old], r[old], Members(old)')
  <2>1. CASE Vacates(c, t)
    <3>1. /\ old # Lobby /\ Members(old)' = {} /\ k[old] = NoController
          /\ ~r[old].open /\ ~r[old].locked /\ r[old].invited = {}
      BY <1>1, <1>2, <1>4, <1>5, <1>6, <2>1
    <3> QED BY <3>1, FitGone
  <2>2. CASE ~Vacates(c, t) /\ room[old].open
    <3>1. /\ old = Lobby \/ Members(old) # {c}
          /\ k[old] = PlayerLeaves(inst[old], c, old, reason) /\ r[old] = room[old]
      BY <1>2, <1>4, <1>5, <1>6, <2>2
    <3>2. Fit(old, PlayerLeaves(inst[old], c, old, reason), room[old], Members(old) \ {c})
      BY <1>2, <1>3, <3>1, FitLeave
    <3> QED BY <1>1, <3>1, <3>2
  <2>3. CASE ~Vacates(c, t) /\ ~room[old].open
    <3>1. old = Lobby
      BY <1>2, <1>3, <2>3 DEF Fit
    <3>2. k[old] = inst[old] /\ r[old] = room[old]
      BY <1>2, <1>4, <1>5, <2>3
    <3>3. Fit(old, inst[old], room[old], Members(old) \ {c})
      BY <1>2, <1>3, <3>1, FitLobby
    <3> QED BY <1>1, <3>2, <3>3
  <2> QED BY <2>1, <2>2, <2>3
<1>9. ASSUME NEW u \in Rooms, u \notin {t, old} PROVE Fit(u, k[u], r[u], Members(u)')
  <2>1. Fit(u, inst[u], room[u], Members(u))
    BY RoomFacts
  <2>2. k[u] = inst[u] /\ r[u] = room[u] /\ Members(u)' = Members(u)
    BY <1>1, <1>4, <1>5, <1>9
  <2> QED BY <2>1, <2>2
<1>10. \A u \in Rooms : Fit(u, k[u], r[u], (MembersOf')[u])
  <2>1. \A u \in Rooms : Fit(u, k[u], r[u], Members(u)')
    BY <1>7, <1>8, <1>9
  <2>2. \A u \in Rooms : (MembersOf')[u] = Members(u)'
    BY DEF MembersOf
  <2> QED BY <2>1, <2>2
<1> QED BY <1>1, <1>4, <1>5, <1>10 DEF RoomsFit, k, r

\* A vote ends, or an invitation.
LEMMA EndVoteFits ==
    ASSUME NEW k, NEW r, NEW m, RoomsFit(k, r, m), NEW t \in Rooms
    PROVE  RoomsFit([k EXCEPT ![t] = EndVote(@)], r, m)
<1> DEFINE k2 == [k EXCEPT ![t] = EndVote(@)]
<1>1. /\ k \in [Rooms -> Controllers] /\ k[t] \in Controllers
      /\ \A u \in Rooms : Fit(u, k[u], r[u], m[u])
  BY DEF RoomsFit
<1>2. EndVote(k[t]) \in Controllers /\ Fit(t, EndVote(k[t]), r[t], m[t])
  BY <1>1, ControllerTypes, FitEndVote
<1>3. /\ k2 \in [Rooms -> Controllers] /\ k2[t] = EndVote(k[t])
      /\ \A u \in Rooms \ {t} : k2[u] = k[u]
  BY <1>1, <1>2
<1> HIDE DEF k2
<1>4. \A u \in Rooms : Fit(u, k2[u], r[u], m[u])
  BY <1>1, <1>2, <1>3
<1> QED BY <1>3, <1>4 DEF RoomsFit, k2

LEMMA UninviteFits ==
    ASSUME NEW k, NEW r, NEW m, RoomsFit(k, r, m), NEW t \in Rooms, NEW c
    PROVE  RoomsFit(k, [r EXCEPT ![t].invited = @ \ {c}], m)
<1> DEFINE one == [r[t] EXCEPT !.invited = @ \ {c}]
           r2 == [r EXCEPT ![t].invited = @ \ {c}]
<1>1. /\ r \in [Rooms -> RoomRecords] /\ r[t] \in RoomRecords
      /\ \A u \in Rooms : Fit(u, k[u], r[u], m[u])
  BY DEF RoomsFit
<1>2. one \in RoomRecords
  BY <1>1 DEF RoomRecords
<1>3. Fit(t, k[t], one, m[t])
  BY <1>1, FitUninvite
<1> HIDE DEF one
<1>4. r2 = [r EXCEPT ![t] = one]
  BY <1>1 DEF one
<1>5. /\ r2 \in [Rooms -> RoomRecords] /\ r2[t] = one
      /\ \A u \in Rooms \ {t} : r2[u] = r[u]
  BY <1>1, <1>2, <1>4
<1> HIDE DEF r2
<1>6. \A u \in Rooms : Fit(u, k[u], r2[u], m[u])
  BY <1>1, <1>3, <1>5
<1> QED BY <1>5, <1>6 DEF RoomsFit, r2

\* The controllers without a player that disconnects
LEMMA InstancesWithoutAre ==
    ASSUME RoomInv, NEW c \in Clients, client[c] = "ingame",
           NEW old \in Rooms, team[c] = old
    PROVE  LET k == InstancesWithout(c)
           IN  /\ k \in [Rooms -> Controllers]
               /\ k[old] = IF Vacates(c, Lobby) THEN NoController
                           ELSE PlayerLeaves(inst[old], c, old, "disconnect")
               /\ \A u \in Rooms \ {old} : k[u] = inst[u]
<1> DEFINE one == PlayerLeaves(inst[old], c, old, "disconnect")
           left == [inst EXCEPT ![old] = one]
           k == InstancesWithout(c)
<1>1. /\ Fit(old, inst[old], room[old], Members(old)) /\ inst[old] \in Controllers
      /\ inst \in [Rooms -> Controllers] /\ c \in Members(old)
  BY RoomFacts, PlayerFacts DEF RoomInv, RoomsFit
<1>2. Fit(Lobby, inst[Lobby], room[Lobby], Members(Lobby))
  BY RoomFacts, LobbyIsRoom
<1>3. inst[old].created /\ inst[Lobby].created
  BY <1>1, <1>2 DEF Fit
<1>4. one \in Controllers /\ NoController \in Controllers
  BY <1>1, ControllerTypes
<1> HIDE DEF one
<1>5. /\ left \in [Rooms -> Controllers] /\ left[old] = one
      /\ \A u \in Rooms \ {old} : left[u] = inst[u]
  BY <1>1, <1>4
<1>6. k = Instances(left, c, Lobby, "disconnect")
  BY <1>1, <1>3 DEF InstancesWithout, one
<1> HIDE DEF left, k
<1>7. CASE old = Lobby
  <2>1. k = left
    BY <1>6, <1>7 DEF Instances
  <2>2. ~Vacates(c, Lobby)
    BY <1>7 DEF Vacates
  <2> QED BY <1>5, <2>1, <2>2 DEF one, k
<1>8. CASE old # Lobby
  <2>1. left[Lobby].created
    BY <1>3, <1>5, <1>8, LobbyIsRoom
  <2>2. k = IF Vacates(c, Lobby) THEN [left EXCEPT ![old] = NoController] ELSE left
    BY <1>6, <1>8, <2>1 DEF Instances
  <2> QED BY <1>4, <1>5, <2>2 DEF one, k
<1> QED BY <1>7, <1>8

LEMMA DropFits ==
    ASSUME RoomInv, NEW c \in Clients, client[c] = "ingame", Drop(c)
    PROVE  PlayersOK' /\ RoomsFit(InstancesWithout(c), RoomsAfter(c, Lobby), MembersOf')
<1> PICK old \in Rooms : team[c] = old
  BY PlayerFacts
<1> DEFINE k == InstancesWithout(c)
           r == RoomsAfter(c, Lobby)
<1>1. /\ PlayersOK /\ Lobby \in Rooms /\ c \in Members(old)
      /\ client' = [client EXCEPT ![c] = "out"] /\ team' = [team EXCEPT ![c] = Lobby]
      /\ size' = [size EXCEPT ![old] = @ - 1]
  BY PlayerFacts, LobbyIsRoom DEF RoomInv, Drop
<1>2. client \in [Clients -> {"out", "connecting", "ingame"}] /\ team \in [Clients -> Rooms]
      /\ size \in [Rooms -> Nat]
  BY <1>1 DEF PlayersOK
<1>3. \A u : Members(u)' = Members(u) \ {c}
  BY <1>1, <1>2, MembersDropped
<1>4. \A u : u # old => c \notin Members(u)
  BY DEF Members
<1>5. \A u \in Rooms \ {old} : Members(u)' = Members(u)
  BY <1>3, <1>4
<1>6. ASSUME NEW u \in Rooms
      PROVE  size'[u] \in Nat /\ size'[u] = Cardinality(Members(u)')
  <2>1. /\ Members(u) \in SUBSET Clients /\ size[u] = Cardinality(Members(u))
        /\ size[u] \in Nat
    BY <1>2, MembersAre, RoomFacts
  <2>2. CASE u = old
    <3>1. /\ Cardinality(Members(u) \ {c}) = Cardinality(Members(u)) - 1
          /\ Cardinality(Members(u) \ {c}) \in Nat
      BY <1>1, <2>1, <2>2, Counting
    <3>2. size'[u] = size[u] - 1
      BY <1>1, <1>2, <2>2
    <3> QED BY <1>3, <2>1, <3>1, <3>2
  <2>3. CASE u # old
    <3>1. size'[u] = size[u]
      BY <1>1, <1>2, <2>3
    <3> QED BY <1>5, <2>1, <2>3, <3>1
  <2> QED BY <2>2, <2>3
<1>7. /\ client' \in [Clients -> {"out", "connecting", "ingame"}]
      /\ size' \in [Rooms -> Nat] /\ team' \in [Clients -> Rooms]
  BY <1>1, <1>2, <1>6
<1>8. \A d \in Clients : client'[d] # "ingame" => team'[d] = Lobby
  BY <1>1, <1>2, PlayerFacts
<1>9. PlayersOK'
  BY <1>6, <1>7, <1>8 DEF PlayersOK, SizesAreTrue
<1>10. /\ k \in [Rooms -> Controllers]
       /\ k[old] = IF Vacates(c, Lobby) THEN NoController
                   ELSE PlayerLeaves(inst[old], c, old, "disconnect")
       /\ \A u \in Rooms \ {old} : k[u] = inst[u]
  BY InstancesWithoutAre
<1>11. /\ r \in [Rooms -> RoomRecords]
       /\ r[Lobby] = [room[Lobby] EXCEPT !.open = @ \/ ~room[Lobby].locked]
       /\ \A u \in Rooms \ {Lobby} :
              IF u = old /\ Vacates(c, Lobby)
              THEN ~r[u].open /\ ~r[u].locked /\ r[u].invited = {}
              ELSE r[u] = room[u]
  BY <1>1, RoomsAfterAre
<1>12. Vacates(c, Lobby) <=> old # Lobby /\ Members(old) = {c}
  BY <1>1, VacatesIff
<1> HIDE DEF k, r
<1>13. Fit(old, k[old], r[old], Members(old) \ {c})
  <2>1. CASE Vacates(c, Lobby)
    <3>1. /\ old # Lobby /\ Members(old) \ {c} = {} /\ k[old] = NoController
          /\ ~r[old].open /\ ~r[old].locked /\ r[old].invited = {}
      BY <1>1, <1>10, <1>11, <1>12, <2>1
    <3> QED BY <3>1, FitGone
  <2>2. CASE ~Vacates(c, Lobby)
    <3>1. /\ old = Lobby \/ Members(old) # {c}
          /\ k[old] = PlayerLeaves(inst[old], c, old, "disconnect")
          /\ old # Lobby => r[old] = room[old]
      BY <1>10, <1>11, <1>12, <2>2
    <3>2. /\ inst[old] \in Controllers /\ room[old] \in RoomRecords
          /\ Fit(old, inst[old], room[old], Members(old)) /\ Members(old) \in SUBSET Clients
      BY RoomFacts, MembersAre
    <3>3. Fit(old, k[old], room[old], Members(old) \ {c})
      BY <1>1, <3>1, <3>2, FitLeave
    <3>4. CASE old = Lobby
      BY <3>3, <3>4 DEF Fit
    <3>5. CASE old # Lobby
      BY <3>1, <3>3, <3>5
    <3> QED BY <3>4, <3>5
  <2> QED BY <2>1, <2>2
<1>14. ASSUME NEW u \in Rooms, u # old PROVE Fit(u, k[u], r[u], Members(u))
  <2>1. Fit(u, inst[u], room[u], Members(u)) /\ k[u] = inst[u]
    BY <1>10, <1>14, RoomFacts
  <2>2. CASE u = Lobby
    BY <2>1, <2>2 DEF Fit
  <2>3. CASE u # Lobby
    BY <1>11, <1>14, <2>1, <2>3
  <2> QED BY <2>2, <2>3
<1>15. \A u \in Rooms : Fit(u, k[u], r[u], (MembersOf')[u])
  <2>1. \A u \in Rooms : (MembersOf')[u] = Members(u)'
    BY DEF MembersOf
  <2>2. (MembersOf')[old] = Members(old) \ {c}
    BY <1>3, <2>1
  <2>3. \A u \in Rooms \ {old} : (MembersOf')[u] = Members(u)
    BY <1>5, <2>1
  <2> QED BY <1>13, <1>14, <2>2, <2>3
<1> QED BY <1>9, <1>10, <1>11, <1>15 DEF RoomsFit, k, r

\* A player that connects still is dropped, or connects.
LEMMA OutsideFits ==
    ASSUME RoomInv, NEW c \in Clients, client[c] # "ingame",
           NEW state \in {"out", "connecting"}, client' = [client EXCEPT ![c] = state],
           UNCHANGED <<team, size>>
    PROVE  PlayersOK' /\ RoomsFit(inst, room, MembersOf')
<1>1. /\ client \in [Clients -> {"out", "connecting", "ingame"}] /\ team \in [Clients -> Rooms]
      /\ size \in [Rooms -> Nat] /\ SizesAreTrue /\ RoomsFit(inst, room, MembersOf)
  BY DEF RoomInv, PlayersOK
<1>2. \A u : Members(u)' = Members(u)
  BY <1>1 DEF Members
<1>3. client' \in [Clients -> {"out", "connecting", "ingame"}]
  BY <1>1
<1>4. SizesAreTrue'
  BY <1>1, <1>2 DEF SizesAreTrue
<1>5. MembersOf' = MembersOf
  BY <1>2 DEF MembersOf
<1> QED BY <1>1, <1>3, <1>4, <1>5 DEF PlayersOK

-----------------------------------------------------------------------------
(* The commands.                                                           *)

\* What changes one room only
LEMMA OneFits ==
    ASSUME NEW k, NEW r, NEW m, RoomsFit(k, r, m), NEW t \in Rooms,
           NEW x \in Controllers, NEW y \in RoomRecords, Fit(t, x, y, m[t])
    PROVE  RoomsFit([k EXCEPT ![t] = x], [r EXCEPT ![t] = y], m)
<1> DEFINE k2 == [k EXCEPT ![t] = x]
           r2 == [r EXCEPT ![t] = y]
<1>1. /\ k \in [Rooms -> Controllers] /\ r \in [Rooms -> RoomRecords]
      /\ \A u \in Rooms : Fit(u, k[u], r[u], m[u])
  BY DEF RoomsFit
<1>2. /\ k2 \in [Rooms -> Controllers] /\ r2 \in [Rooms -> RoomRecords]
      /\ k2[t] = x /\ r2[t] = y
      /\ \A u \in Rooms \ {t} : k2[u] = k[u] /\ r2[u] = r[u]
  BY <1>1
<1> HIDE DEF k2, r2
<1>3. \A u \in Rooms : Fit(u, k2[u], r2[u], m[u])
  BY <1>1, <1>2
<1> QED BY <1>2, <1>3 DEF RoomsFit, k2, r2

LEMMA RoomFits ==
    ASSUME RoomInv, NEW t \in Rooms, NEW y \in RoomRecords,
           Fit(t, inst[t], y, Members(t))
    PROVE  RoomsFit(inst, [room EXCEPT ![t] = y], MembersOf)
<1>1. RoomsFit(inst, room, MembersOf) /\ inst \in [Rooms -> Controllers]
      /\ inst[t] \in Controllers /\ MembersOf[t] = Members(t)
  BY DEF RoomInv, RoomsFit, MembersOf
<1>2. Fit(t, inst[t], y, MembersOf[t])
  BY <1>1
<1>3. RoomsFit([inst EXCEPT ![t] = inst[t]], [room EXCEPT ![t] = y], MembersOf)
  BY <1>1, <1>2, OneFits
<1>4. [inst EXCEPT ![t] = inst[t]] = inst
  BY <1>1
<1> QED BY <1>3, <1>4

LEMMA ControllerFits ==
    ASSUME RoomInv, NEW t \in Rooms, NEW x \in Controllers,
           Fit(t, x, room[t], Members(t))
    PROVE  RoomsFit([inst EXCEPT ![t] = x], room, MembersOf)
<1>1. RoomsFit(inst, room, MembersOf) /\ room \in [Rooms -> RoomRecords]
      /\ room[t] \in RoomRecords /\ MembersOf[t] = Members(t)
  BY DEF RoomInv, RoomsFit, MembersOf
<1>2. Fit(t, x, room[t], MembersOf[t])
  BY <1>1
<1>3. RoomsFit([inst EXCEPT ![t] = x], [room EXCEPT ![t] = room[t]], MembersOf)
  BY <1>1, <1>2, OneFits
<1>4. [room EXCEPT ![t] = room[t]] = room
  BY <1>1
<1> QED BY <1>3, <1>4

LEMMA SamePlayers ==
    ASSUME RoomInv, UNCHANGED <<client, team, size>>
    PROVE  PlayersOK' /\ MembersOf' = MembersOf
BY DEF RoomInv, PlayersOK, SizesAreTrue, MembersOf, Members

\* A player connects, or disconnects.
LEMMA ConnectKeeps ==
    ASSUME RoomInv, NEW c \in Clients, Connect(c) \/ Disconnect(c), UNCHANGED <<reloads, tick, crashed>>
    PROVE  RoomInv'
<1>1. ClockOK'
  BY DEF RoomInv, ClockOK, Connect, Disconnect
<1>2. CASE Connect(c)
  <2>1. PlayersOK' /\ RoomsFit(inst, room, MembersOf')
    BY <1>2, OutsideFits DEF Connect
  <2> QED BY <1>1, <1>2, <2>1 DEF RoomInv, Connect
<1>3. CASE Disconnect(c) /\ client[c] = "ingame"
  <2>1. PlayersOK' /\ RoomsFit(InstancesWithout(c), RoomsAfter(c, Lobby), MembersOf')
    BY <1>3, DropFits DEF Disconnect
  <2>2. inst' = InstancesWithout(c) /\ room' = RoomsAfter(c, Lobby)
    BY <1>3 DEF Disconnect, Drop
  <2> QED BY <1>1, <2>1, <2>2 DEF RoomInv
<1>4. CASE Disconnect(c) /\ client[c] # "ingame"
  <2>1. /\ client' = [client EXCEPT ![c] = "out"] /\ inst' = inst
        /\ UNCHANGED <<team, size, room>>
    BY <1>4 DEF Disconnect, Drop, InstancesWithout
  <2>2. PlayersOK' /\ RoomsFit(inst, room, MembersOf')
    BY <1>4, <2>1, OutsideFits
  <2> QED BY <1>1, <2>1, <2>2 DEF RoomInv
<1> QED BY <1>2, <1>3, <1>4

LEMMA EnterKeeps ==
    ASSUME RoomInv, NEW c \in Clients, Enter(c), UNCHANGED <<reloads, tick, crashed>>
    PROVE  RoomInv'
<1> DEFINE k == [inst[Lobby] EXCEPT !.counted = @ + 1]
           r == [room[Lobby] EXCEPT !.open = @ \/ ~room[Lobby].locked]
<1>1. /\ client \in [Clients -> {"out", "connecting", "ingame"}] /\ team \in [Clients -> Rooms]
      /\ size \in [Rooms -> Nat] /\ PlayersOK /\ Lobby \in Rooms /\ team[c] = Lobby
      /\ inst \in [Rooms -> Controllers] /\ room \in [Rooms -> RoomRecords]
  BY LobbyIsRoom, PlayerFacts DEF RoomInv, PlayersOK, RoomsFit, Enter
<1>2. /\ Fit(Lobby, inst[Lobby], room[Lobby], Members(Lobby))
      /\ inst[Lobby] \in Controllers /\ room[Lobby] \in RoomRecords
      /\ size[Lobby] = Cardinality(Members(Lobby)) /\ size[Lobby] \in Nat
      /\ Members(Lobby) \in SUBSET Clients
  BY <1>1, RoomFacts, MembersAre
<1>3. inst[Lobby].created
  BY <1>2 DEF Fit
<1>4. \A u : Members(u)' = IF u = Lobby THEN Members(u) \cup {c} ELSE Members(u) \ {c}
  BY <1>1, MembersMoved DEF Enter
<1>5. \A u : c \notin Members(u)
  BY DEF Members, Enter
<1>6. ASSUME NEW u \in Rooms PROVE size'[u] \in Nat /\ size'[u] = Cardinality(Members(u)')
  <2>1. CASE u = Lobby
    <3>1. Cardinality(Members(Lobby) \cup {c}) = Cardinality(Members(Lobby)) + 1
      BY <1>2, <1>5, Counting
    <3>2. size'[u] = size[u] + 1 /\ Members(u)' = Members(Lobby) \cup {c}
      BY <1>1, <1>4, <2>1 DEF Enter
    <3> QED BY <1>2, <2>1, <3>1, <3>2
  <2>2. CASE u # Lobby
    <3>1. size'[u] = size[u] /\ Members(u)' = Members(u)
      BY ZenonT(60), <1>1, <1>4, <1>5, <2>2 DEF Enter
    <3> QED BY <1>1, <3>1, RoomFacts
  <2> QED BY <2>1, <2>2
<1>7. /\ client' \in [Clients -> {"out", "connecting", "ingame"}]
      /\ size' \in [Rooms -> Nat] /\ team' \in [Clients -> Rooms]
      /\ \A d \in Clients : client'[d] # "ingame" => team'[d] = Lobby
  BY <1>1, <1>6, PlayerFacts DEF Enter
<1>8. PlayersOK'
  BY <1>6, <1>7 DEF PlayersOK, SizesAreTrue
<1>9. k \in Controllers /\ r \in RoomRecords
  <2>1. k \in Controllers
    BY <1>2 DEF Controllers
  <2> QED BY <1>2, <2>1, RecordTypes
<1>10. Fit(Lobby, k, r, Members(Lobby) \cup {c})
  BY <1>2, <1>3, <1>5, FitJoin
<1>11. inst' = [inst EXCEPT ![Lobby] = k]
  BY <1>1, <1>3 DEF Enter
<1>12. room' = [room EXCEPT ![Lobby] = r]
  BY <1>1 DEF Enter, RoomsAfter, Vacates
<1> HIDE DEF k, r
<1>13. /\ MembersOf' \in [Rooms -> SUBSET Clients]
       /\ (MembersOf')[Lobby] = Members(Lobby) \cup {c}
       /\ \A u \in Rooms \ {Lobby} : (MembersOf')[u] = Members(u)
  <2>1. \A u \in Rooms : (MembersOf')[u] = Members(u)' /\ Members(u)' \in SUBSET Clients
    BY DEF MembersOf, Members
  <2>2. MembersOf' \in [Rooms -> SUBSET Clients]
    BY DEF MembersOf, Members
  <2>3. Members(Lobby)' = Members(Lobby) \cup {c}
    BY <1>4
  <2>4. \A u \in Rooms \ {Lobby} : Members(u)' = Members(u)
    BY <1>4, <1>5
  <2> QED BY <1>1, <2>1, <2>2, <2>3, <2>4
<1>14. ASSUME NEW u \in Rooms PROVE Fit(u, inst'[u], room'[u], (MembersOf')[u])
  <2>1. CASE u = Lobby
    <3>1. inst'[u] = k /\ room'[u] = r
      BY <1>1, <1>11, <1>12, <2>1
    <3> QED BY <1>10, <1>13, <2>1, <3>1
  <2>2. CASE u # Lobby
    <3>1. inst'[u] = inst[u] /\ room'[u] = room[u]
      BY <1>1, <1>11, <1>12, <2>2
    <3> QED BY <1>13, <2>2, <3>1, RoomFacts
  <2> QED BY <2>1, <2>2
<1>15. inst' \in [Rooms -> Controllers] /\ room' \in [Rooms -> RoomRecords]
  BY <1>1, <1>9, <1>11, <1>12
<1>16. ClockOK'
  BY DEF RoomInv, ClockOK, Enter
<1> QED BY <1>8, <1>14, <1>15, <1>16 DEF RoomInv, RoomsFit

LEMMA MoveKeeps ==
    ASSUME RoomInv, NEW c \in Clients, NEW t \in Rooms, JoinRoom(c, t) \/ CreateRoom(c, t),
           UNCHANGED <<reloads, tick, crashed>>
    PROVE  RoomInv'
<1>1. /\ client[c] = "ingame" /\ t # team[c] /\ MoveTo(c, t) /\ UNCHANGED client
      /\ inst' = Instances(inst, c, t, "normal") /\ room' = RoomsAfter(c, t)
  BY DEF JoinRoom, CreateRoom, MayEnter
<1> PICK old \in Rooms : team[c] = old
  BY PlayerFacts
<1>2. PlayersOK' /\ RoomsFit(Instances(inst, c, t, "normal"), RoomsAfter(c, t), MembersOf')
  <2> DEFINE reason == "normal"
  <2>1. reason # "disconnect"
    OBVIOUS
  <2> HIDE DEF reason
  <2>2. PlayersOK' /\ RoomsFit(Instances(inst, c, t, reason), RoomsAfter(c, t), MembersOf')
    BY <1>1, <2>1, MoveFits
  <2> QED BY <2>2 DEF reason
<1>3. ClockOK'
  BY DEF RoomInv, ClockOK, JoinRoom, CreateRoom
<1> QED BY <1>1, <1>2, <1>3 DEF RoomInv

\* Locks, guests and votes
LEMMA SettingsKeep ==
    ASSUME RoomInv, NEW c \in Clients, NEW d \in Clients, NEW t \in Rooms,
           NEW locked \in BOOLEAN,
           \/ SetLock(c, locked) \/ Invite(c, d) \/ Uninvite(c, t)
           \/ CallKickVote(c, d) \/ CallServerVote,
           UNCHANGED <<reloads, tick, crashed>>
    PROVE  RoomInv'
<1>1. ClockOK' /\ PlayersOK' /\ MembersOf' = MembersOf
  <2>1. UNCHANGED <<client, visit, team, size>>
    BY DEF SetLock, Invite, Uninvite, CallKickVote, CallServerVote
  <2> QED BY <2>1, SamePlayers DEF RoomInv, ClockOK
<1>2. SUFFICES RoomsFit(inst', room', MembersOf)
  BY <1>1 DEF RoomInv
<1>3. RoomsFit(inst, room, MembersOf)
  BY DEF RoomInv
<1> PICK u \in Rooms : team[c] = u
  BY PlayerFacts
<1>4. /\ inst[u] \in Controllers /\ room[u] \in RoomRecords
      /\ Fit(u, inst[u], room[u], Members(u)) /\ inst \in [Rooms -> Controllers]
      /\ room \in [Rooms -> RoomRecords]
      /\ client[c] = "ingame" => c \in Members(u)
  BY RoomFacts, PlayerFacts DEF RoomInv, RoomsFit
<1>5. u # Lobby /\ client[c] = "ingame" => room[u].open
  BY <1>4 DEF Fit
<1>6. CASE SetLock(c, locked)
  <2> DEFINE y == [room[u] EXCEPT !.locked = locked]
  <2>1. y \in RoomRecords /\ Fit(u, inst[u], y, Members(u))
    BY <1>4, <1>5, <1>6 DEF SetLock, RoomRecords, Fit
  <2>2. room' = [room EXCEPT ![u] = y] /\ inst' = inst
    BY <1>4, <1>6 DEF SetLock
  <2> HIDE DEF y
  <2> QED BY <2>1, <2>2, RoomFits
<1>7. CASE Invite(c, d)
  <2> DEFINE y == [room[u] EXCEPT !.invited = @ \cup {d}]
  <2>1. y \in RoomRecords /\ Fit(u, inst[u], y, Members(u))
    BY <1>4, <1>5, <1>7 DEF Invite, RoomRecords, Fit
  <2>2. room' = [room EXCEPT ![u] = y] /\ inst' = inst
    BY <1>4, <1>7 DEF Invite
  <2> HIDE DEF y
  <2> QED BY <2>1, <2>2, RoomFits
<1>8. CASE Uninvite(c, t)
  BY <1>3, <1>8, UninviteFits DEF Uninvite
<1>9. CASE CallKickVote(c, d)
  <2> DEFINE old == inst[u]
             kick == IF old.kick = Nobody THEN {PlayerAt(d)} ELSE old.kick
             x == [old EXCEPT !.victim = {d}, !.kick = kick]
  <2>1. PlayerAt(d) \in [slot : Clients, visit : Nat]
    BY DEF PlayerAt, RoomInv, ClockOK
  <2>2. kick \in SUBSET [slot : Clients, visit : Nat]
    BY <1>4, <2>1 DEF Controllers
  <2>3. d \in Members(u)
    BY <1>9, PlayerFacts DEF CallKickVote
  <2>4. inst' = [inst EXCEPT ![u] = x] /\ room' = room
    BY <1>4, <1>9 DEF CallKickVote
  <2> HIDE DEF kick
  <2>5. x \in Controllers /\ x.victim = {d} /\ x.created = old.created
        /\ x.init = old.init /\ x.counted = old.counted
    BY <1>4, <2>2 DEF Controllers
  <2> HIDE DEF x
  <2>6. Fit(u, x, room[u], Members(u))
    BY <1>4, <2>3, <2>5 DEF Fit
  <2> QED BY <2>4, <2>5, <2>6, ControllerFits
<1>10. CASE CallServerVote
  <2>1. room' = room /\ inst' = [v \in Rooms |-> IF inst[v].kick # Nobody THEN EndVote(inst[v])
                                                 ELSE inst[v]]
    BY <1>10 DEF CallServerVote
  <2>2. \A v \in Rooms : /\ inst[v] \in Controllers /\ EndVote(inst[v]) \in Controllers
                         /\ Fit(v, inst[v], room[v], MembersOf[v])
    BY <1>3, ControllerTypes DEF RoomsFit
  <2>3. \A v \in Rooms : Fit(v, EndVote(inst[v]), room[v], MembersOf[v])
    BY <2>2, FitEndVote
  <2>4. inst' \in [Rooms -> Controllers]
    BY <2>1, <2>2
  <2>5. \A v \in Rooms : Fit(v, inst'[v], room[v], MembersOf[v])
    BY <2>1, <2>2, <2>3
  <2> QED BY <1>4, <2>1, <2>4, <2>5 DEF RoomsFit
<1> QED BY <1>6, <1>7, <1>8, <1>9, <1>10

LEMMA AskReloadKeeps ==
    ASSUME RoomInv, NEW t \in Rooms, NEW type \in {"hard", "soft"}, AskReload(t, type),
           UNCHANGED <<tick, crashed>>
    PROVE  RoomInv'
<1> DEFINE y == [room[t] EXCEPT !.reload = type]
<1>1. ClockOK' /\ PlayersOK' /\ MembersOf' = MembersOf
  BY SamePlayers DEF RoomInv, ClockOK, AskReload
<1>2. /\ Fit(t, inst[t], room[t], Members(t)) /\ room[t] \in RoomRecords
      /\ room \in [Rooms -> RoomRecords]
  BY RoomFacts DEF RoomInv, RoomsFit
<1>3. y \in RoomRecords /\ Fit(t, inst[t], y, Members(t))
  BY <1>2 DEF RoomRecords, Fit
<1>4. room' = [room EXCEPT ![t] = y] /\ inst' = inst
  BY <1>2 DEF AskReload
<1> HIDE DEF y
<1>5. RoomsFit(inst, [room EXCEPT ![t] = y], MembersOf)
  BY <1>3, RoomFits
<1> QED BY <1>1, <1>4, <1>5 DEF RoomInv

-----------------------------------------------------------------------------
(* OnTick.                                                                 *)

\* The rooms, and whom a vote moves, after the Tick of room t
LEMMA ReloadFits ==
    ASSUME RoomInv, NEW t \in Rooms, inst[t].init, HardReload(t) \/ SoftReload(t)
    PROVE  PlayersOK' /\ RoomsFit(inst', room', MembersOf')
<1> DEFINE x == IF room[t].reload = "hard" THEN NewController(Present(t))
                ELSE [inst[t] EXCEPT !.init = FALSE, !.entities = 0]
           y == [room[t] EXCEPT !.reload = "no"]
<1>1. PlayersOK' /\ MembersOf' = MembersOf
  BY SamePlayers DEF HardReload, SoftReload
<1>2. /\ Fit(t, inst[t], room[t], Members(t)) /\ inst[t] \in Controllers
      /\ room[t] \in RoomRecords /\ MembersOf[t] = Members(t)
      /\ t # Lobby => Present(t) = Members(t)
      /\ RoomsFit(inst, room, MembersOf)
      /\ inst \in [Rooms -> Controllers] /\ room \in [Rooms -> RoomRecords]
  BY RoomFacts DEF RoomInv, RoomsFit, MembersOf
<1>3. inst[t].created
  BY <1>2 DEF Fit
<1>4. /\ Cardinality(Present(t)) \in Nat /\ Cardinality(Members(t)) \in Nat
      /\ Cardinality(Members(t)) <= Cardinality(Present(t))
  BY MembersAre, Counting, FS_Subset
<1>5. /\ y \in RoomRecords /\ y.open = room[t].open /\ y.locked = room[t].locked
      /\ y.invited = room[t].invited
  BY <1>2 DEF RoomRecords
<1>6. /\ x \in Controllers /\ x.created /\ ~x.init
      /\ x.counted >= Cardinality(Members(t))
      /\ t # Lobby => x.counted = Cardinality(Members(t)) /\ x.victim \subseteq Members(t)
  <2>1. CASE room[t].reload = "hard"
    <3>1. x = NewController(Present(t)) /\ x \in Controllers
      BY <2>1, MembersAre, ControllerTypes
    <3>2. /\ x.created /\ ~x.init /\ x.counted = Cardinality(Present(t))
          /\ x.victim = {}
      BY <3>1 DEF NewController, NoController, Nobody
    <3> QED BY <1>2, <1>4, <3>1, <3>2
  <2>2. CASE room[t].reload # "hard"
    <3>1. x = [inst[t] EXCEPT !.init = FALSE, !.entities = 0]
      BY <2>2
    <3>0. 0 \in 0 .. MapEntities
      OBVIOUS
    <3> HIDE DEF x
    <3>2. /\ x \in Controllers /\ x.created = inst[t].created /\ ~x.init
          /\ x.counted = inst[t].counted /\ x.victim = inst[t].victim
      BY <1>2, <3>0, <3>1 DEF Controllers
    <3> QED BY <1>2, <1>3, <3>2 DEF Fit
  <2> QED BY <2>1, <2>2
<1>7. inst' = [inst EXCEPT ![t] = x] /\ room' = [room EXCEPT ![t] = y]
  BY <1>2 DEF HardReload, SoftReload
<1> HIDE DEF x, y
<1>8. Fit(t, x, y, MembersOf[t])
  BY <1>2, <1>3, <1>5, <1>6 DEF Fit
<1>9. RoomsFit([inst EXCEPT ![t] = x], [room EXCEPT ![t] = y], MembersOf)
  BY <1>2, <1>5, <1>6, <1>8, OneFits
<1> QED BY <1>1, <1>7, <1>9

LEMMA KickFromServerFits ==
    ASSUME RoomInv, NEW t \in Rooms, NEW c \in Clients, KickFromServer(t, c)
    PROVE  PlayersOK' /\ RoomsFit(inst', room', MembersOf')
<1>1. inst' = [InstancesWithout(c) EXCEPT ![t] = EndVote(@)] /\ Drop(c)
  BY DEF KickFromServer
<1>2. PlayersOK' /\ RoomsFit(InstancesWithout(c), room', MembersOf')
  <2>1. CASE client[c] = "ingame"
    BY <1>1, <2>1, DropFits DEF Drop
  <2>2. CASE client[c] # "ingame"
    <3>1. /\ client' = [client EXCEPT ![c] = "out"] /\ InstancesWithout(c) = inst
          /\ room' = room /\ UNCHANGED <<team, size>>
      BY <1>1, <2>2 DEF Drop, InstancesWithout
    <3>2. PlayersOK' /\ RoomsFit(inst, room, MembersOf')
      BY <2>2, <3>1, OutsideFits
    <3> QED BY <3>1, <3>2
  <2> QED BY <2>1, <2>2
<1> QED BY <1>1, <1>2, EndVoteFits

LEMMA KickFromRoomFits ==
    ASSUME RoomInv, NEW t \in Rooms, NEW c \in Clients, KickFromRoom(t, c)
    PROVE  PlayersOK' /\ RoomsFit(inst', room', MembersOf')
<1> DEFINE k == Instances(inst, c, Lobby, "force")
           r == RoomsAfter(c, Lobby)
<1>1. /\ inst' = [k EXCEPT ![t] = EndVote(@)] /\ MoveTo(c, Lobby) /\ UNCHANGED client
      /\ room' = [r EXCEPT ![t].invited = @ \ {c}]
  BY DEF KickFromRoom
<1>2. PlayersOK' /\ RoomsFit(k, r, MembersOf')
  <2>1. CASE team[c] # Lobby
    <3> DEFINE reason == "force"
    <3>1. client[c] = "ingame" /\ reason # "disconnect"
      BY <2>1, PlayerFacts
    <3> HIDE DEF reason
    <3> PICK old \in Rooms : team[c] = old
      BY PlayerFacts
    <3>2. Lobby # old
      BY <2>1
    <3>3. PlayersOK' /\ RoomsFit(Instances(inst, c, Lobby, reason), RoomsAfter(c, Lobby), MembersOf')
      BY <1>1, <3>1, <3>2, LobbyIsRoom, MoveFits
    <3> QED BY <3>3 DEF reason
  <2>2. CASE team[c] = Lobby
    <3> DEFINE y == [room[Lobby] EXCEPT !.open = @ \/ ~room[Lobby].locked]
    <3>1. /\ team \in [Clients -> Rooms] /\ size \in [Rooms -> Nat]
          /\ room \in [Rooms -> RoomRecords] /\ room[Lobby] \in RoomRecords
          /\ Fit(Lobby, inst[Lobby], room[Lobby], Members(Lobby))
      BY LobbyIsRoom, RoomFacts DEF RoomInv, PlayersOK, RoomsFit
    <3>2. team' = team /\ size' = size
      BY <1>1, <2>2, <3>1, LobbyIsRoom DEF MoveTo
    <3>3. PlayersOK' /\ MembersOf' = MembersOf
      BY <1>1, <3>2, SamePlayers
    <3>4. k = inst
      BY <2>2 DEF Instances
    <3>5. r = [room EXCEPT ![Lobby] = y]
      BY <2>2, <3>1 DEF RoomsAfter, Vacates
    <3>6. y \in RoomRecords
      BY <3>1, RecordTypes
    <3> HIDE DEF y
    <3>7. Fit(Lobby, inst[Lobby], y, Members(Lobby))
      BY <3>1 DEF Fit
    <3>8. RoomsFit(inst, [room EXCEPT ![Lobby] = y], MembersOf)
      BY <3>6, <3>7, LobbyIsRoom, RoomFits
    <3> HIDE DEF k, r
    <3> QED BY <3>3, <3>4, <3>5, <3>8
  <2> QED BY <2>1, <2>2
<1> HIDE DEF k, r
<1>3. RoomsFit([k EXCEPT ![t] = EndVote(@)], r, MembersOf')
  BY <1>2, EndVoteFits
<1>4. RoomsFit([k EXCEPT ![t] = EndVote(@)], [r EXCEPT ![t].invited = @ \ {c}], MembersOf')
  BY <1>3, UninviteFits
<1> QED BY <1>1, <1>2, <1>4

LEMMA TickRoomKeeps ==
    ASSUME RoomInv, NEW t \in Rooms, TickRoom(t)
    PROVE  RoomInv'
<1>1. ClockOK'
  <2>1. /\ tick' \in [phase : {"net", "rooms", "entities"}, at : Rooms,
                      processed : Nat, created : Nat, inited : Nat]
    BY DEF TickRoom, NextRoom, NoTick, RoomInv, ClockOK, Rooms
  <2>2. crashed' \in BOOLEAN
    BY DEF TickRoom, HardReload, SoftReload, TickQuietly, VoteFails, VotePasses,
           KickFromServer, KickFromRoom, RoomInv, ClockOK
  <2> QED BY <2>1, <2>2 DEF TickRoom, RoomInv, ClockOK
<1>2. RoomsFit(inst, room, MembersOf)
  BY DEF RoomInv
<1>3. CASE UNCHANGED <<client, team, size, inst, room>>
  BY <1>1, <1>2, <1>3, SamePlayers DEF RoomInv
<1>4. CASE inst[t].init /\ (HardReload(t) \/ SoftReload(t))
  BY <1>1, <1>4, ReloadFits DEF RoomInv
<1>5. CASE VoteFails(t)
  <2>1. PlayersOK' /\ MembersOf' = MembersOf
    BY <1>5, SamePlayers DEF VoteFails
  <2>2. RoomsFit([inst EXCEPT ![t] = EndVote(@)], room, MembersOf)
    BY <1>2, EndVoteFits
  <2> QED BY <1>1, <1>5, <2>1, <2>2 DEF VoteFails, RoomInv
<1>6. CASE VotePasses(t)
  <2>1. inst[t] \in Controllers
    BY RoomFacts
  <2>2. PICK p \in inst[t].kick : KickFromServer(t, p.slot) \/ KickFromRoom(t, p.slot)
    BY <1>6 DEF VotePasses
  <2>3. p.slot \in Clients
    BY <2>1, <2>2 DEF Controllers
  <2> QED BY <1>1, <2>2, <2>3, KickFromServerFits, KickFromRoomFits DEF RoomInv
<1> QED BY <1>3, <1>4, <1>5, <1>6 DEF TickRoom, TickQuietly

LEMMA CreateEntityKeeps ==
    ASSUME RoomInv, NEW t \in Rooms, CreateEntity(t)
    PROVE  RoomInv'
<1> DEFINE entities == inst[t].entities + (IF Adds(t) THEN 1 ELSE 0)
           init == inst[t].init \/ (inst[t].created /\ entities = MapEntities)
           x == [inst[t] EXCEPT !.entities = entities, !.init = init]
<1>1. /\ Fit(t, inst[t], room[t], Members(t)) /\ inst[t] \in Controllers
      /\ inst \in [Rooms -> Controllers]
  BY RoomFacts DEF RoomInv, RoomsFit
<1>2. ClockOK'
  <2> DEFINE ticks == [phase : {"net", "rooms", "entities"}, at : Rooms,
                       processed : Nat, created : Nat, inited : Nat]
             processed == tick.processed + (IF Adds(t) THEN 1 ELSE 0)
             created == tick.created + (IF inst[t].created THEN 1 ELSE 0)
             inited == tick.inited + (IF init THEN 1 ELSE 0)
  <2>1. tick \in ticks /\ 0 \in Rooms /\ t \in Rooms
    BY DEF RoomInv, ClockOK, Rooms
  <2>2. processed \in Nat /\ created \in Nat /\ inited \in Nat
    BY <2>1
  <2>3. t < MaxRooms - 1 => t + 1 \in Rooms
    BY DEF Rooms
  <2>4. NoTick \in ticks /\ [NoTick EXCEPT !.phase = "entities", !.processed = processed] \in ticks
    BY <2>1, <2>2 DEF NoTick
  <2>5. tick' = IF t < MaxRooms - 1 /\ processed < EntitiesPerTick
                THEN [phase |-> "entities", at |-> t + 1, processed |-> processed,
                      created |-> created, inited |-> inited]
                ELSE IF created = inited THEN NoTick
                ELSE [NoTick EXCEPT !.phase = "entities", !.processed = processed]
    BY DEF CreateEntity
  <2> HIDE DEF processed, created, inited
  <2>6. tick' \in ticks
    BY <2>2, <2>3, <2>4, <2>5
  <2> QED BY <2>6 DEF CreateEntity, RoomInv, ClockOK
<1>3. PlayersOK' /\ MembersOf' = MembersOf
  BY SamePlayers DEF CreateEntity
<1>4. entities \in 0 .. MapEntities /\ init \in BOOLEAN
  BY <1>1 DEF Adds, Controllers
<1>5. init => inst[t].created
  BY <1>1 DEF Fit
<1>6. inst' = [inst EXCEPT ![t] = x] /\ room' = room
  BY <1>1 DEF CreateEntity
<1> HIDE DEF entities, init
<1>7. /\ x \in Controllers /\ x.created = inst[t].created /\ x.init = init
      /\ x.counted = inst[t].counted /\ x.victim = inst[t].victim
  BY <1>1, <1>4 DEF Controllers
<1> HIDE DEF x
<1>8. Fit(t, x, room[t], Members(t))
  BY <1>1, <1>5, <1>7 DEF Fit
<1>9. RoomsFit([inst EXCEPT ![t] = x], room, MembersOf)
  BY <1>7, <1>8, ControllerFits
<1> QED BY <1>2, <1>3, <1>6, <1>9 DEF RoomInv

-----------------------------------------------------------------------------
LEMMA Initially == Init => RoomInv
<1> SUFFICES ASSUME Init PROVE RoomInv
  OBVIOUS
<1>1. Lobby \in Rooms /\ 0 \in Rooms
  BY LobbyIsRoom DEF Lobby
<1>2. \A t : Members(t) = {}
  BY DEF Init, Members
<1>3. Cardinality({}) = 0
  BY FS_EmptySet
<1>4. PlayersOK
  BY <1>1, <1>2, <1>3 DEF Init, PlayersOK, SizesAreTrue
<1>5. {} \in SUBSET Clients
  OBVIOUS
<1>6. inst \in [Rooms -> Controllers] /\ room \in [Rooms -> RoomRecords]
  BY <1>5, ControllerTypes DEF Init
<1>7. ASSUME NEW t \in Rooms PROVE Fit(t, inst[t], room[t], {})
  <2>1. room[t] = NoRoom
    BY DEF Init
  <2>2. CASE t = Lobby
    <3>1. inst[t] = NewController({})
      BY <2>2 DEF Init
    <3>2. inst[t].created /\ ~inst[t].init /\ inst[t].counted = 0
      BY <1>3, <3>1 DEF NewController, NoController
    <3> QED BY <1>3, <2>2, <3>2 DEF Fit
  <2>3. CASE t # Lobby
    <3>1. inst[t] = NoController
      BY <2>3 DEF Init
    <3> QED BY <2>1, <2>3, <3>1, FitGone DEF NoRoom
  <2> QED BY <2>2, <2>3
<1>8. RoomsFit(inst, room, MembersOf)
  BY <1>2, <1>6, <1>7 DEF RoomsFit, MembersOf
<1>9. ClockOK
  BY <1>1 DEF Init, ClockOK, NoTick
<1> QED BY <1>4, <1>8, <1>9 DEF RoomInv

LEMMA Step == RoomInv /\ [Next]_vars => RoomInv'
<1> SUFFICES ASSUME RoomInv, [Next]_vars PROVE RoomInv'
  OBVIOUS
<1>1. CASE UNCHANGED vars
  <2>1. PlayersOK' /\ MembersOf' = MembersOf
    BY <1>1, SamePlayers DEF vars
  <2> QED BY <1>1, <2>1 DEF vars, RoomInv, ClockOK
<1>2. CASE BeginTick
  <2>1. PlayersOK' /\ MembersOf' = MembersOf
    BY <1>2, SamePlayers DEF BeginTick
  <2>2. ClockOK'
    BY <1>2 DEF BeginTick, RoomInv, ClockOK, NoTick, Rooms
  <2> QED BY <1>2, <2>1, <2>2 DEF BeginTick, RoomInv
<1>3. CASE TickStep
  BY <1>3, TickRoomKeeps, CreateEntityKeeps DEF TickStep
<1>4. CASE Command /\ UNCHANGED <<reloads, tick, crashed>>
  <2>1. CASE \E c \in Clients : Connect(c) \/ Disconnect(c)
    BY <1>4, <2>1, ConnectKeeps
  <2>2. CASE \E c \in Clients : Enter(c)
    BY <1>4, <2>2, EnterKeeps
  <2>3. CASE \E c \in Clients, t \in Rooms : JoinRoom(c, t) \/ CreateRoom(c, t)
    BY <1>4, <2>3, MoveKeeps
  <2>4. CASE \E c \in Clients, t \in Rooms : Uninvite(c, t)
    BY <1>4, <2>4, SettingsKeep
  <2>5. CASE \E c \in Clients, locked \in BOOLEAN : SetLock(c, locked)
    BY <1>4, <2>5, SettingsKeep, LobbyIsRoom
  <2>6. CASE \E c, d \in Clients : Invite(c, d) \/ CallKickVote(c, d)
    BY <1>4, <2>6, SettingsKeep, LobbyIsRoom
  <2>7. CASE CallServerVote
    <3>1. CASE Clients = {}
      <4>1. PlayersOK' /\ MembersOf' = MembersOf /\ ClockOK'
        BY <1>4, <2>7, SamePlayers DEF CallServerVote, RoomInv, ClockOK
      <4>2. \A t \in Rooms : inst[t] \in Controllers
        BY RoomFacts
      <4>3. \A t \in Rooms : inst[t].kick = {}
        BY <3>1, <4>2 DEF Controllers
      <4> QED BY <2>7, <4>3 DEF CallServerVote, Nobody
    <3>2. CASE Clients # {}
      BY <1>4, <2>7, <3>2, SettingsKeep, LobbyIsRoom
    <3> QED BY <3>1, <3>2
  <2> QED BY <1>4, <2>1, <2>2, <2>3, <2>4, <2>5, <2>6, <2>7 DEF Command
<1>5. CASE /\ \E t \in Rooms, type \in {"hard", "soft"} : AskReload(t, type)
           /\ UNCHANGED <<tick, crashed>>
  BY <1>5, AskReloadKeeps
<1> QED BY <1>1, <1>2, <1>3, <1>4, <1>5 DEF Next

LEMMA Invariance == Spec => []RoomInv
BY Initially, Step, PTL DEF Spec

\* Every client is in one room of the server, every record of a room keeps
\* its type, and so does the place where OnTick is.
THEOREM TypeCorrectness == Spec => []TypeOK
<1>1. RoomInv => TypeOK
  BY DEF RoomInv, PlayersOK, RoomsFit, ClockOK, TypeOK, RoomRecords
<1> QED BY <1>1, Invariance, PTL

\* Whatever moves a player out of a room (a command, a vote of its room or of
\* another one, a disconnect), m_TeamSize counts the players of each room.
THEOREM SizesStayTrue == Spec => []SizesAreTrue
<1>1. RoomInv => SizesAreTrue
  BY DEF RoomInv, PlayersOK
<1> QED BY <1>1, Invariance, PTL

\* A controller exists exactly while its room has players, and a room that
\* is gone leaves neither a lock nor guests.
THEOREM RoomsDieEmpty == Spec => []RoomsLiveWithPlayers
<1>1. ASSUME RoomInv PROVE RoomsLiveWithPlayers
  <2>1. \A t \in Rooms : Fit(t, inst[t], room[t], Members(t))
    BY <1>1, RoomFacts
  <2> QED BY <2>1 DEF Fit, RoomsLiveWithPlayers
<1> QED BY <1>1, Invariance, PTL

\* Controllers are told of each player that joins or leaves their room once.
THEOREM CountsOfControllers == Spec => []ControllersCount
<1>1. ASSUME RoomInv PROVE ControllersCount
  <2>1. \A t \in Rooms : Fit(t, inst[t], room[t], Members(t))
    BY <1>1, RoomFacts
  <2> QED BY <2>1 DEF Fit, ControllersCount
<1> QED BY <1>1, Invariance, PTL

\* The victim of a vote in a room other than 0 is a player of that room.
THEOREM VictimsStay == Spec => []VictimsAreHere
<1>1. ASSUME RoomInv PROVE VictimsAreHere
  <2>1. \A t \in Rooms : Fit(t, inst[t], room[t], Members(t))
    BY <1>1, RoomFacts
  <2> QED BY <2>1 DEF Fit, VictimsAreHere
<1> QED BY <1>1, Invariance, PTL
=============================================================================
