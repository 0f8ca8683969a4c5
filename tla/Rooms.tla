------------------------------- MODULE Rooms --------------------------------
(***************************************************************************)
(* CGameTeams (game/server/teams.cpp) with the counts of teamscore.cpp and *)
(* the commands that reach it: which client is in which room, and when the *)
(* rooms' controllers are created, reloaded and destroyed.  One thread     *)
(* handles the messages of the clients and then runs CGameTeams::OnTick,   *)
(* whose loops are steps of their own, since a vote that passes in a       *)
(* room's Tick moves and drops players in the middle of them.              *)
(*                                                                         *)
(* What a controller does with its players is module Match; here it counts *)
(* them and holds a vote to kick one.  All players play (no spectators).   *)
(* Delays between two commands are left out, super rooms as well.          *)
(***************************************************************************)
EXTENDS Integers, FiniteSets

CONSTANTS
    Clients,      \* the slots of the server
    MaxRooms,     \* the number of rooms, MAX_CLIENTS in the code
    MapEntities,  \* m_Entities.size()
    EntitiesPerTick,
    JoinCreates,  \* whether m_GameTypes.size() <= 1
    MaxVisits,    \* bound: how many players use a slot one after another
    MaxReloads    \* bound: how many reloads are asked for

ASSUME RoomsAssumption ==
    /\ IsFiniteSet(Clients)
    /\ MaxRooms \in Nat \ {0}
    /\ MapEntities \in Nat \ {0} /\ EntitiesPerTick \in Nat \ {0}
    /\ JoinCreates \in BOOLEAN
    /\ MaxVisits \in Nat /\ MaxReloads \in Nat

VARIABLES
    client,  \* whether a slot is used, and whether its player is in the game
    visit,   \* how many players the slot has had (history)
    team,    \* m_Core.m_Team
    size,    \* m_Core.m_TeamSize
    inst,    \* m_aTeamInstances
    room,    \* m_aTeamState, m_aTeamLocked, m_aInvited, m_aTeamReload
    reloads, \* how many reloads were asked for (bound)
    tick,    \* where OnTick is
    crashed  \* a handler went on in a controller that was deleted

vars == <<client, visit, team, size, inst, room, reloads, tick, crashed>>

Rooms == 0 .. MaxRooms - 1
Lobby == 0
Nobody == {}

\* A player is a slot and a visit; the code knows the slot only
PlayerAt(c) == [slot |-> c, visit |-> visit[c]]

NoController ==
    [created |-> FALSE, init |-> FALSE, entities |-> 0, counted |-> 0,
     kick |-> Nobody,    \* whom the command of the running vote names
     victim |-> Nobody]  \* m_VoteVictim
NewController(players) ==
    [NoController EXCEPT !.created = TRUE, !.counted = Cardinality(players)]
NoRoom == [open |-> FALSE, locked |-> FALSE, invited |-> {}, reload |-> "no"]

NoTick == [phase |-> "net", at |-> 0, processed |-> 0, created |-> 0, inited |-> 0]

Init ==
    /\ client = [c \in Clients |-> "out"] /\ visit = [c \in Clients |-> 0]
    /\ team = [c \in Clients |-> Lobby] /\ size = [t \in Rooms |-> 0]
    /\ inst = [t \in Rooms |-> IF t = Lobby THEN NewController({}) ELSE NoController]
    /\ room = [t \in Rooms |-> NoRoom]
    /\ reloads = 0 /\ tick = NoTick /\ crashed = FALSE

\* PlayerExists: players that still connect are in room 0 as well
Present(t) == {c \in Clients : client[c] # "out" /\ team[c] = t}
Members(t) == {c \in Clients : client[c] = "ingame" /\ team[c] = t}

-----------------------------------------------------------------------------
(* SetForcePlayerTeam.                                                     *)

EndVote(controller) ==
    [controller EXCEPT !.kick = Nobody, !.victim = Nobody]

PlayerLeavesServer(controller, c, t, reason) ==  \* a wrong PlayerLeaves
    LET left == [controller EXCEPT !.counted = @ - 1]
    IN IF c \in left.victim /\ reason = "disconnect" THEN EndVote(left) ELSE left

\* OnInternalPlayerLeave of the controller of room t
PlayerLeaves(controller, c, t, reason) ==
    LET left == [controller EXCEPT !.counted = @ - 1]
    IN IF c \in left.victim /\ (t # Lobby \/ reason = "disconnect")
       THEN EndVote(left) ELSE left

VacatesLate(c, t) ==  \* a wrong Vacates: it counts c as gone already
    /\ team[c] \notin {t, Lobby}
    /\ room[team[c]].open /\ size[team[c]] < 1

\* The old room loses its last player
Vacates(c, t) ==
    /\ team[c] \notin {t, Lobby}
    /\ room[team[c]].open /\ size[team[c]] <= 1

Instances(insts, c, t, reason) ==
    LET old == team[c]
        created ==
            IF insts[t].created THEN insts
            ELSE [insts EXCEPT ![t] = NewController(Present(t))]
        left ==
            IF reason # "disconnect" /\ room[old].open /\ created[old].created
            THEN [created EXCEPT ![old] = PlayerLeaves(@, c, old, reason)]
            ELSE created
        rest == IF Vacates(c, t) THEN [left EXCEPT ![old] = NoController] ELSE left
    IN IF old = t THEN insts
       ELSE IF reason = "disconnect" THEN rest
       ELSE [rest EXCEPT ![t].counted = @ + 1]

RoomsAfter(c, t) ==
    LET closed == [room[team[c]] EXCEPT !.open = FALSE, !.locked = FALSE, !.invited = {}]
        rest == IF Vacates(c, t) THEN [room EXCEPT ![team[c]] = closed] ELSE room
    IN [rest EXCEPT ![t].open = @ \/ ~rest[t].locked]

MoveToUncounted(c, t) ==  \* a wrong MoveTo: the old room still counts c
    /\ team' = [team EXCEPT ![c] = t]
    /\ size' = [size EXCEPT ![t] = @ + 1]

\* m_Core.Team(c, t)
MoveTo(c, t) ==
    /\ team' = [team EXCEPT ![c] = t]
    /\ size' = [size EXCEPT ![team[c]] = @ - 1, ![t] = @ + 1]

Drop(c) ==
    /\ client' = [client EXCEPT ![c] = "out"]
    /\ IF client[c] = "ingame"
       THEN /\ team' = [team EXCEPT ![c] = Lobby]
            /\ size' = [size EXCEPT ![team[c]] = @ - 1]
            /\ room' = RoomsAfter(c, Lobby)
       ELSE UNCHANGED <<team, size, room>>

\* OnPlayerDisconnect, then SetForcePlayerTeam
InstancesWithout(c) ==
    IF client[c] # "ingame" THEN inst
    ELSE LET t == team[c]
             left == IF inst[t].created
                     THEN [inst EXCEPT ![t] = PlayerLeaves(@, c, t, "disconnect")]
                     ELSE inst
         IN Instances(left, c, Lobby, "disconnect")

-----------------------------------------------------------------------------
(* Between two ticks: clients come and go, and their commands.             *)

Connect(c) ==
    /\ client[c] = "out" /\ visit[c] < MaxVisits
    /\ client' = [client EXCEPT ![c] = "connecting"]
    /\ visit' = [visit EXCEPT ![c] = @ + 1]
    /\ UNCHANGED <<team, size, inst, room>>

\* OnPlayerConnect
Enter(c) ==
    /\ client[c] = "connecting"
    /\ client' = [client EXCEPT ![c] = "ingame"]
    /\ team' = [team EXCEPT ![c] = Lobby]
    /\ size' = [size EXCEPT ![Lobby] = @ + 1]
    /\ inst' = [inst EXCEPT ![Lobby].counted = IF inst[Lobby].created THEN @ + 1 ELSE @]
    /\ room' = RoomsAfter(c, Lobby)
    /\ UNCHANGED visit

Disconnect(c) ==
    /\ client[c] # "out"
    /\ Drop(c)
    /\ inst' = InstancesWithout(c)
    /\ UNCHANGED visit

Invited(c, t) == c \in room[t].invited

MayEnter(c, t) ==
    /\ client[c] = "ingame" /\ inst[team[c]].init  \* CanSwitchTeam
    /\ room[t].locked /\ t # Lobby => Invited(c, t)
    /\ team[c] # t

JoinRoom(c, t) ==
    /\ MayEnter(c, t)
    /\ inst[t].created \/ JoinCreates
    /\ MoveTo(c, t)
    /\ inst' = Instances(inst, c, t, "normal")
    /\ room' = RoomsAfter(c, t)
    /\ UNCHANGED <<client, visit>>

\* FindAEmptyTeam
CreateRoom(c, t) ==
    /\ t # Lobby /\ ~room[t].open
    /\ \A u \in Rooms \ {Lobby} : ~room[u].open => t <= u
    /\ MayEnter(c, t)
    /\ MoveTo(c, t)
    /\ inst' = Instances(inst, c, t, "normal")
    /\ room' = RoomsAfter(c, t)
    /\ UNCHANGED <<client, visit>>

SetLock(c, locked) ==
    /\ client[c] = "ingame" /\ team[c] # Lobby
    /\ room' = [room EXCEPT ![team[c]].locked = locked]
    /\ UNCHANGED <<client, visit, team, size, inst>>

Invite(c, guest) ==
    /\ client[c] = "ingame" /\ team[c] # Lobby
    /\ client[guest] = "ingame" /\ ~Invited(guest, team[c])
    /\ room' = [room EXCEPT ![team[c]].invited = @ \cup {guest}]
    /\ UNCHANGED <<client, visit, team, size, inst>>

Uninvite(c, t) ==
    /\ t # Lobby
    /\ room' = [room EXCEPT ![t].invited = @ \ {c}]
    /\ UNCHANGED <<client, visit, team, size, inst>>

\* The victim is set before CallVote sees that a vote is running.  Both must
\* have a character, which this module leaves open: a call may be refused.
CallKickVote(c, victim) ==
    /\ c # victim /\ client[c] = "ingame" /\ client[victim] = "ingame"
    /\ team[c] = team[victim]
    /\ inst' = [inst EXCEPT ![team[c]].victim = {victim},
                            ![team[c]].kick = IF @ = Nobody THEN {PlayerAt(victim)} ELSE @]
    /\ UNCHANGED <<client, visit, team, size, room>>

\* A vote of the server cancels those of the rooms
CallServerVote ==
    /\ \E t \in Rooms : inst[t].kick # Nobody
    /\ inst' = [t \in Rooms |-> IF inst[t].kick # Nobody THEN EndVote(inst[t]) ELSE inst[t]]
    /\ UNCHANGED <<client, visit, team, size, room>>

\* gametype: RecreateGameInstance; map: ReloadGameInstance
AskReload(t, type) ==
    /\ inst[t].created /\ reloads < MaxReloads
    /\ type = "soft" => inst[t].entities # 0
    /\ room' = [room EXCEPT ![t].reload = type]
    /\ reloads' = reloads + 1
    /\ UNCHANGED <<client, visit, team, size, inst>>

Command ==
    \/ \E c \in Clients : Connect(c) \/ Enter(c) \/ Disconnect(c)
    \/ \E c \in Clients, t \in Rooms : JoinRoom(c, t) \/ CreateRoom(c, t) \/ Uninvite(c, t)
    \/ \E c \in Clients, locked \in BOOLEAN : SetLock(c, locked)
    \/ \E c, d \in Clients : Invite(c, d) \/ CallKickVote(c, d)
    \/ CallServerVote

-----------------------------------------------------------------------------
(* OnTick: first every room, then the entities of the rooms that are not   *)
(* ready.                                                                  *)

BeginTick ==
    /\ tick.phase = "net"
    /\ tick' = [NoTick EXCEPT !.phase = "rooms"]
    /\ UNCHANGED <<client, visit, team, size, inst, room, reloads, crashed>>

NextRoomTooFar ==  \* a wrong NextRoom: one room too many
    tick' = IF tick.at = MaxRooms THEN [NoTick EXCEPT !.phase = "entities"]
            ELSE [tick EXCEPT !.at = @ + 1]
NextRoom ==
    tick' = IF tick.at = MaxRooms - 1 THEN [NoTick EXCEPT !.phase = "entities"]
            ELSE [tick EXCEPT !.at = @ + 1]

HardReloadEmpty(t) ==  \* a wrong HardReload: the players do not join again
    /\ room[t].reload = "hard"
    /\ inst' = [inst EXCEPT ![t] = NewController({})]
    /\ room' = [room EXCEPT ![t].reload = "no"]
    /\ UNCHANGED <<client, team, size, crashed>>

HardReload(t) ==
    /\ room[t].reload = "hard"
    /\ inst' = [inst EXCEPT ![t] = NewController(Present(t))]
    /\ room' = [room EXCEPT ![t].reload = "no"]
    /\ UNCHANGED <<client, team, size, crashed>>

SoftReload(t) ==
    /\ room[t].reload = "soft"
    /\ inst' = [inst EXCEPT ![t].init = FALSE, ![t].entities = 0]
    /\ room' = [room EXCEPT ![t].reload = "no"]
    /\ UNCHANGED <<client, team, size, crashed>>

\* No vote ends in the Tick of the room
TickQuietly(t) ==
    /\ room[t].reload = "no"
    /\ UNCHANGED <<client, team, size, inst, room, crashed>>

VoteFails(t) ==
    /\ room[t].reload = "no" /\ inst[t].kick # Nobody
    /\ inst' = [inst EXCEPT ![t] = EndVote(@)]
    /\ UNCHANGED <<client, team, size, room, crashed>>

\* ConKick in room 0, or of a slot that is free: the command kick
KickFromServer(t, c) ==
    /\ t = Lobby \/ client[c] = "out"
    /\ Drop(c)
    /\ inst' = [InstancesWithout(c) EXCEPT ![t] = EndVote(@)]
    /\ UNCHANGED crashed

\* ConKick in the other rooms
KickFromRoom(t, c) ==
    /\ t # Lobby /\ client[c] # "out"
    /\ MoveTo(c, Lobby)
    /\ inst' = [Instances(inst, c, Lobby, "force") EXCEPT ![t] = EndVote(@)]
    /\ room' = [RoomsAfter(c, Lobby) EXCEPT ![t].invited = @ \ {c}]
    /\ crashed' = (team[c] = t /\ Vacates(c, Lobby))
    /\ UNCHANGED client

VotePasses(t) ==
    /\ room[t].reload = "no"
    /\ \E p \in inst[t].kick : KickFromServer(t, p.slot) \/ KickFromRoom(t, p.slot)

TickRoom(t) ==
    /\ tick.phase = "rooms" /\ t = tick.at
    /\ NextRoom
    /\ \/ /\ inst[t].init
          /\ \/ HardReload(t) \/ SoftReload(t)
             \/ TickQuietly(t) \/ VoteFails(t) \/ VotePasses(t)
       \/ /\ ~inst[t].init
          /\ UNCHANGED <<client, team, size, inst, room, crashed>>
    /\ UNCHANGED <<visit, reloads>>

AddsWithinLimit(t) ==  \* a wrong Adds: nothing is added beyond the limit
    inst[t].created /\ ~inst[t].init /\ inst[t].entities < MapEntities
    /\ tick.processed < EntitiesPerTick

Adds(t) == inst[t].created /\ ~inst[t].init /\ inst[t].entities < MapEntities

\* One round of the inner loop, and the test of the outer one at its end
CreateEntity(t) ==
    LET entities == inst[t].entities + (IF Adds(t) THEN 1 ELSE 0)
        init == inst[t].init \/ (inst[t].created /\ entities = MapEntities)
        processed == tick.processed + (IF Adds(t) THEN 1 ELSE 0)
        created == tick.created + (IF inst[t].created THEN 1 ELSE 0)
        inited == tick.inited + (IF init THEN 1 ELSE 0)
    IN
    /\ tick.phase = "entities" /\ t = tick.at
    /\ inst' = [inst EXCEPT ![t].entities = entities, ![t].init = init]
    /\ tick' = IF t < MaxRooms - 1 /\ processed < EntitiesPerTick
               THEN [phase |-> "entities", at |-> t + 1, processed |-> processed,
                     created |-> created, inited |-> inited]
               ELSE IF created = inited THEN NoTick
               ELSE [NoTick EXCEPT !.phase = "entities", !.processed = processed]
    /\ UNCHANGED <<client, visit, team, size, room, reloads, crashed>>

TickStep == \E t \in Rooms : TickRoom(t) \/ CreateEntity(t)

-----------------------------------------------------------------------------
Next ==
    /\ ~crashed
    /\ \/ /\ tick.phase = "net"
          /\ \/ Command /\ UNCHANGED reloads
             \/ \E t \in Rooms, type \in {"hard", "soft"} : AskReload(t, type)
          /\ UNCHANGED <<tick, crashed>>
       \/ BeginTick
       \/ TickStep

Spec == Init /\ [][Next]_vars

\* The main loop ticks again and again; clients need not do anything.
Fairness == WF_vars(~crashed /\ (BeginTick \/ TickStep))
FairSpec == Spec /\ Fairness

-----------------------------------------------------------------------------
(* Properties.                                                             *)

\* Every variable keeps its type.
Controllers ==
    [created : BOOLEAN, init : BOOLEAN, entities : 0 .. MapEntities, counted : Int,
     kick : SUBSET [slot : Clients, visit : Nat], victim : SUBSET Clients]
TypeOK ==
    /\ client \in [Clients -> {"out", "connecting", "ingame"}]
    /\ visit \in [Clients -> Nat]
    /\ team \in [Clients -> Rooms]
    /\ size \in [Rooms -> Nat]
    /\ inst \in [Rooms -> Controllers]
    /\ room \in [Rooms -> [open : BOOLEAN, locked : BOOLEAN,
                           invited : SUBSET Clients,
                           reload : {"no", "soft", "hard"}]]
    /\ reloads \in Nat
    /\ tick \in [phase : {"net", "rooms", "entities"}, at : Rooms,
                 processed : Nat, created : Nat, inited : Nat]
    /\ crashed \in BOOLEAN

\* The counts of m_Core are those of the players in the rooms, and players
\* that are not in the game are in room 0, whatever commands, votes and
\* disconnects move them out of a room.
SizesAreTrue ==
    /\ \A t \in Rooms : size[t] = Cardinality(Members(t))
    /\ \A c \in Clients : client[c] # "ingame" => team[c] = Lobby

\* A room lives exactly as long as it has players: nobody is left in a room
\* without a controller, and no room is left without players.  A room that
\* is gone leaves neither a lock nor guests to the next one of its number.
RoomsLiveWithPlayers ==
    \A t \in Rooms :
        /\ inst[t].created <=> (t = Lobby \/ Members(t) # {})
        /\ t # Lobby => (room[t].open <=> inst[t].created)
        /\ inst[t].init => inst[t].created
        /\ t # Lobby /\ ~room[t].open => ~room[t].locked /\ room[t].invited = {}

\* The controller of a room counts the players in it, those in room 0 at
\* least: a reload neither forgets nor doubles anybody.
ControllersCount ==
    \A t \in Rooms :
        /\ inst[t].counted >= Cardinality(Members(t))
        /\ t # Lobby => inst[t].counted = Cardinality(Members(t))

\* While a kick vote of a room other than 0 names the player it was called
\* for, that player is in the room.
VictimsAreHere ==
    \A t \in Rooms \ {Lobby} : inst[t].victim \subseteq Members(t)

\* OnTick returns, and a room that was created gets ready unless it is left.
TickEnds == tick.phase # "net" ~> tick.phase = "net" \/ crashed
RoomsGetReady ==
    \A t \in Rooms :
        inst[t].created /\ ~inst[t].init ~> inst[t].init \/ ~inst[t].created \/ crashed

\* "abort the kick-vote on player-leave" (gamecontroller.cpp:1947): no kick
\* vote goes on when its player has left the server.
KickVotesAreAborted ==
    \A t \in Rooms : \A p \in inst[t].kick :
        client[p.slot] # "out" /\ visit[p.slot] = p.visit

\* GetRealPlayerNum and HasNoPlayers read the controller's count as the
\* number of players in the room.
LobbyCounts == inst[Lobby].counted = Cardinality(Members(Lobby))

\* No handler goes on in a controller that it made SetForcePlayerTeam delete.
NoHandlerOutlivesItsRoom == ~crashed
=============================================================================
