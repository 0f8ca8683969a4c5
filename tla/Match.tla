------------------------------- MODULE Match -------------------------------
(***************************************************************************)
(* One room's match controller: IGameController of                         *)
(* game/server/gamecontroller.cpp with the part of CPlayer it drives.      *)
(* The main thread runs every handler to completion, so a handler is one   *)
(* action; the handlers call each other, so each callee is an operator     *)
(* from room to room and an action composes them in the order the code     *)
(* does.  The only handlers split into several steps are the loops over    *)
(* the players that call DoTeamChange (swap_teams, shuffle_teams,          *)
(* set_team_all, DoTeamBalance): every iteration is a step and no other    *)
(* handler is enabled until the loop has ended (field "loop").  The one    *)
(* other thread that writes to a room is a login's (Login).                *)
(*                                                                         *)
(* Scores, positions and texts are abstracted: a win check has a free      *)
(* outcome, a balancing step moves any player of the bigger team.          *)
(***************************************************************************)
EXTENDS Integers, FiniteSets

CONSTANTS
    Players,      \* the clients that may be in this room; of one that has
                  \* left only its login is kept, so without logins a member
                  \* stands for all the clients of a slot
    Accounts,     \* the clients that have an account of the Axiom service
    Teamplay,     \* IGF_TEAMS
    Survival,     \* IGF_SURVIVAL; the survival game types are round based
    SuddenDeath,  \* IGF_SUDDENDEATH
    TickSpeed,    \* ticks per second (50 in the server)
    TimerEnd,     \* TIMER_END, the seconds an END_MATCH lasts (10)
    Configs,      \* the settings a room may be created with
    Commands,     \* the console commands that may be called
    Args          \* the arguments those commands are called with

TEAM_SPECTATORS == -1
TEAM_RED == 0
TEAM_BLUE == 1
Sides == {TEAM_RED, TEAM_BLUE}
Teams == Sides \cup {TEAM_SPECTATORS}
NoTeam == 2        \* no DoTeamChange pending for this player
OppositeTeam == 3  \* one pending to the side the player is not on (SwapTeams)

TIMER_INFINITE == -1

\* EGameState
WARMUP_GAME == "warmup_game"
WARMUP_USER == "warmup_user"
START_COUNTDOWN == "start_countdown"
GAME_PAUSED == "game_paused"
GAME_RUNNING == "game_running"
END_MATCH == "end_match"
END_ROUND == "end_round"
GameStates == {WARMUP_GAME, WARMUP_USER, START_COUNTDOWN, GAME_PAUSED,
               GAME_RUNNING, END_MATCH, END_ROUND}
Warmups == {WARMUP_GAME, WARMUP_USER}

Config == [warmup : Nat, countdown : Int, minimumPlayers : Nat,
           readyMode : 0..3, matchSwap : 0..2, resetOnMatchEnd : BOOLEAN,
           pausePerMatch : Nat, playerSlots : Nat, balance : BOOLEAN]

Seconds == Nat \cup {TIMER_INFINITE}
CommandNames == {"pause", "restart", "minimum_players", "countdown",
                 "player_ready_mode", "swap_teams", "shuffle_teams",
                 "set_team_all", "set_team", "map"}

ASSUME MatchAssumption ==
    /\ Teamplay \in BOOLEAN /\ Survival \in BOOLEAN /\ SuddenDeath \in BOOLEAN
    /\ TickSpeed \in Nat \ {0}
    /\ TimerEnd \in Nat \ {0, 1}
    /\ IsFiniteSet(Players) /\ Accounts \subseteq Players
    /\ Configs \subseteq Config
    \* a negative countdown is set by a step of its own, SetCountdown
    /\ Survival => \A c \in Configs : c.countdown >= 0
    /\ Commands \subseteq CommandNames
    /\ Args \in [seconds : SUBSET Seconds, minimumPlayers : SUBSET Nat,
                 countdown : SUBSET Int, readyMode : SUBSET (0..3)]

VARIABLES
    room,
    loggedIn      \* the clients that have logged in while in this room

vars == <<room, loggedIn>>

-----------------------------------------------------------------------------
(* The state of a room.  pauses is m_PauseCount, toTeam the pending change; *)
(* alive and spawning (m_Spawning) are tracked in the survival game types,  *)
(* the only ones whose rules read them.                                     *)

Player == [inRoom : BOOLEAN, team : Teams, ready : BOOLEAN,
           noRespawn : BOOLEAN, deadSpec : BOOLEAN, spawning : BOOLEAN,
           alive : BOOLEAN, pauses : Nat,
           toTeam : Teams \cup {NoTeam, OppositeTeam}]

Absent == [inRoom |-> FALSE, team |-> TEAM_SPECTATORS, ready |-> FALSE,
           noRespawn |-> FALSE, deadSpec |-> FALSE, spawning |-> FALSE,
           alive |-> FALSE, pauses |-> 0, toTeam |-> NoTeam]

\* phase: "setup" while CreateGameInstance runs the settings, "load" until
\* the entities are created (m_Init and m_Started FALSE), then "run".
\* fresh: m_GameStartTick = Server()->Tick().  unbalanced: m_UnbalancedTick.
Room == [phase : {"setup", "load", "run"}, cfg : Config,
         state : GameStates, timer : Seconds,
         paused : BOOLEAN, resetRequested : BOOLEAN,
         pauseRequested : BOOLEAN, suddenDeath : BOOLEAN, fresh : BOOLEAN,
         size : [Sides -> Int], unbalanced : {"ok", "check", "since"},
         players : [Players -> Player],
         loop : {"none", "command", "balance"},
         numBalance : Nat, bigger : Sides]

\* A room that sets minimum_players has reset its (empty) match by then.
Init ==
    /\ loggedIn = {}
    /\ \E c \in Configs :
       \E s \in IF c.minimumPlayers = 1 THEN {GAME_RUNNING, WARMUP_GAME}
                                        ELSE {WARMUP_GAME} :
           room = [phase |-> "setup", cfg |-> c, state |-> s,
                   timer |-> TIMER_INFINITE, paused |-> FALSE,
                   resetRequested |-> s = WARMUP_GAME, pauseRequested |-> FALSE,
                   suddenDeath |-> FALSE, fresh |-> TRUE,
                   size |-> [t \in Sides |-> 0], unbalanced |-> "ok",
                   players |-> [p \in Players |-> Absent],
                   loop |-> "none", numBalance |-> 0, bigger |-> TEAM_RED]

-----------------------------------------------------------------------------
(* Predicates of a room r.                                                 *)

InRoom(r) == {p \in Players : r.players[p].inRoom}
Active(r) == {p \in InRoom(r) : r.players[p].team # TEAM_SPECTATORS}
Side(r, t) == {p \in InRoom(r) : r.players[p].team = t}

HasEnoughPlayers(r) ==
    /\ r.cfg.minimumPlayers > 0
    /\ Teamplay => \A t \in Sides : r.size[t] > 0
    /\ r.size[TEAM_RED] + (IF Teamplay THEN r.size[TEAM_BLUE] ELSE 0)
         >= r.cfg.minimumPlayers

HasNoPlayers(r) == \A t \in Sides : r.size[t] = 0

ReadyToStart(r) == r.cfg.readyMode \in {1, 3}   \* m_PlayerReadyMode & 1
ReadyToPause(r) == r.cfg.readyMode \in {2, 3}   \* m_PlayerReadyMode & 2

IsWarmup(r) == r.phase # "run" \/ r.state \in Warmups
IsGamePaused(r) == r.state \in {GAME_PAUSED, START_COUNTDOWN}

IsPlayerReadyMode(r) ==
    /\ r.timer = TIMER_INFINITE
    /\ \/ ReadyToStart(r) /\ r.state = WARMUP_USER
       \/ ReadyToPause(r) /\ r.state = GAME_PAUSED

GetStartRespawnState(r) ==
    /\ Survival
    /\ r.state \notin Warmups
    /\ ~(r.state = START_COUNTDOWN /\ r.fresh)

AllReady(r, without) == \A p \in Active(r) \ without : r.players[p].ready

BiggerSide(r) ==
    IF r.size[TEAM_RED] > r.size[TEAM_BLUE] THEN TEAM_RED ELSE TEAM_BLUE
Other(t) == IF t = TEAM_RED THEN TEAM_BLUE ELSE TEAM_RED
Difference(r) == r.size[BiggerSide(r)] - r.size[Other(BiggerSide(r))]
NeedsBalance(r) == Teamplay /\ r.cfg.balance /\ Difference(r) >= 2

\* The players one run of DoTeamBalance may move: m_Score decides in the code.
Movers(r) ==
    LET bigger == Side(r, BiggerSide(r))
        num == Difference(r) \div 2
    IN  IF ~NeedsBalance(r) THEN {{}}
        ELSE IF Cardinality(bigger) <= num THEN {bigger}
        ELSE {s \in SUBSET bigger : Cardinality(s) = num}

-----------------------------------------------------------------------------
(* CPlayer.                                                                *)

\* DeadCanFollow: a player of the same team that is alive or may respawn.
CanFollow(r, p) ==
    \E q \in InRoom(r) : /\ r.players[q].team = r.players[p].team
                         /\ r.players[q].alive \/ ~r.players[q].noRespawn

\* KillCharacter: its weapon is WEAPON_GAME, so OnInternalCharacterDeath
\* returns before it updates the spectator modes of the dead players.
KillCharacters(r, ps) ==
    [r EXCEPT !.players = [p \in Players |->
        [r.players[p] EXCEPT !.alive = @ /\ p \notin ps]]]

Respawn(r, ps) ==
    [r EXCEPT !.players = [p \in Players |->
        LET q == r.players[p]
            plays == q.team # TEAM_SPECTATORS
        IN  IF p \notin ps THEN q
            ELSE IF q.noRespawn /\ plays
            THEN [q EXCEPT !.deadSpec = CanFollow(r, p), !.ready = TRUE]
            ELSE [q EXCEPT !.deadSpec = FALSE,
                           !.spawning = @ \/ (Survival /\ plays)]]]

SetPlayersReadyState(r, b) ==
    [r EXCEPT !.players = [p \in Players |->
        [r.players[p] EXCEPT
            !.ready = IF p \in Active(r) /\ (b \/ ~r.players[p].deadSpec)
                      THEN b ELSE @]]]

EnableRespawn(r) ==
    [r EXCEPT !.players = [p \in Players |->
        [r.players[p] EXCEPT !.noRespawn = @ /\ ~Survival]]]

-----------------------------------------------------------------------------
(* SetGameState, one operator per target state.  The calls that start a    *)
(* match come after StartMatch.                                            *)

\* Mutant: the ready states of a warmup or a pause stay.
ToRunningUnready(r) ==
    [r EXCEPT !.state = GAME_RUNNING, !.timer = TIMER_INFINITE,
              !.paused = FALSE, !.pauseRequested = FALSE]

\* IGS_GAME_RUNNING
ToRunning(r) ==
    SetPlayersReadyState(
        [r EXCEPT !.state = GAME_RUNNING, !.timer = TIMER_INFINITE,
                  !.paused = FALSE, !.pauseRequested = FALSE], TRUE)

Abs(n) == IF n < 0 THEN -n ELSE n

\* IGS_START_COUNTDOWN
ToCountdown(r) ==
    LET c == r.cfg.countdown IN
    IF r.state \notin {GAME_RUNNING, GAME_PAUSED, START_COUNTDOWN} THEN r
    ELSE IF c > 0 \/ (c < 0 /\ Survival)
    THEN [r EXCEPT !.state = START_COUNTDOWN, !.timer = Abs(c) * TickSpeed,
                   !.paused = TRUE]
    ELSE ToRunning(r)

\* IGS_GAME_PAUSED
ToPaused(r, seconds) ==
    IF r.state \notin {GAME_RUNNING, GAME_PAUSED, WARMUP_GAME} THEN r
    ELSE IF seconds = 0 THEN ToCountdown(r)
    ELSE LET p == [r EXCEPT !.state = GAME_PAUSED, !.paused = TRUE,
                            !.timer = IF seconds < 0 THEN TIMER_INFINITE
                                      ELSE seconds * TickSpeed]
         IN  IF seconds < 0 THEN SetPlayersReadyState(p, FALSE) ELSE p

\* Mutant: who is out of a round stays out in the warmup.
WaitForPlayersOut(r) ==
    IF r.state \notin {GAME_RUNNING} \cup Warmups THEN r
    ELSE [r EXCEPT !.state = WARMUP_GAME, !.timer = TIMER_INFINITE,
                   !.suddenDeath = FALSE]

\* IGS_WARMUP_GAME with an infinite timer
WaitForPlayers(r) ==
    IF r.state \notin {GAME_RUNNING} \cup Warmups THEN r
    ELSE EnableRespawn([r EXCEPT !.state = WARMUP_GAME,
                                 !.timer = TIMER_INFINITE,
                                 !.suddenDeath = FALSE])

\* IGS_WARMUP_USER with a timer other than 0
CanWarmup(r) == r.state \in {GAME_RUNNING, GAME_PAUSED} \cup Warmups
ToWarmup(r, seconds) ==
    LET ready == IF seconds > 0 THEN SetPlayersReadyState(r, TRUE)
                 ELSE IF ReadyToStart(r) THEN SetPlayersReadyState(r, FALSE)
                 ELSE r
    IN  IF ~CanWarmup(r) THEN r
        ELSE EnableRespawn(
                [ready EXCEPT !.state = WARMUP_USER, !.paused = FALSE,
                              !.timer = IF seconds < 0 THEN TIMER_INFINITE
                                        ELSE seconds * TickSpeed,
                              !.pauseRequested = FALSE, !.suddenDeath = FALSE])

\* IGS_END_MATCH and IGS_END_ROUND
CanEnd(r) == r.state \in {GAME_RUNNING, GAME_PAUSED, END_MATCH, END_ROUND}

\* Mutant: the world of an ended match goes on.
EndMatchUnpaused(r) ==
    IF CanEnd(r)
    THEN [r EXCEPT !.state = END_MATCH, !.timer = TimerEnd * TickSpeed,
                   !.suddenDeath = FALSE, !.pauseRequested = FALSE]
    ELSE r
EndMatch(r) ==
    LET e == [r EXCEPT !.pauseRequested = FALSE] IN
    IF CanEnd(r)
    THEN [e EXCEPT !.state = END_MATCH, !.timer = TimerEnd * TickSpeed,
                   !.suddenDeath = FALSE, !.paused = TRUE]
    ELSE e

\* DoWincheckMatch: the scores and limits choose the outcome.
Outcomes == {"none", "won"} \cup (IF SuddenDeath THEN {"tie"} ELSE {})
DoWincheckMatch(r, outcome) ==
    CASE outcome = "none" -> r
      [] outcome = "won" -> EndMatch(r)
      [] outcome = "tie" -> [r EXCEPT !.suddenDeath = TRUE]

EndRound(r, outcome) ==
    LET e == DoWincheckMatch([r EXCEPT !.pauseRequested = FALSE], outcome) IN
    IF e.state # END_MATCH /\ CanEnd(e)
    THEN [e EXCEPT !.state = END_ROUND, !.paused = TRUE,
                   !.timer = (TimerEnd \div 2) * TickSpeed]
    ELSE e

-----------------------------------------------------------------------------
(* Membership of the teams.                                                *)

\* The part of DoTeamChange before CheckReadyStates, for every player of to
\* that is not on the team to gives it yet.
SwitchTeams(r, to) ==
    LET ps == {p \in DOMAIN to : r.players[p].team # to[p]}
        leave(t) == {p \in ps : r.players[p].team = t}
        join(t) == {p \in ps : to[p] = t}
        k == KillCharacters(r, ps)
    IN  IF ps = {} THEN r
        ELSE [k EXCEPT
                !.size = [t \in Sides |->
                    r.size[t] - Cardinality(leave(t)) + Cardinality(join(t))],
                !.unbalanced = "check",
                !.players = [p \in Players |->
                    IF p \notin ps THEN k.players[p]
                    ELSE IF to[p] = TEAM_SPECTATORS
                    THEN [k.players[p] EXCEPT !.team = TEAM_SPECTATORS]
                    ELSE [k.players[p] EXCEPT
                            !.team = to[p], !.ready = ~IsPlayerReadyMode(r),
                            !.noRespawn = IF Survival
                                          THEN GetStartRespawnState(r) ELSE @]]]

\* DoTeamBalance called from ResetGame.  The game is running by then and the
\* number of active players does not change, so all that the DoTeamChange
\* calls do is SwitchTeams.  Only if the sizes are wrong, like -1 and 1, may
\* the last call find HasNoPlayers: its ResetMatch leaves the room where the
\* callers of ResetGame leave one without players anyway, but for the flags
\* of the moved players of a survival game.
Rebalance(r, movers) ==
    LET moved == SwitchTeams(r, [p \in movers |-> Other(BiggerSide(r))]) IN
    IF NeedsBalance(r)
    THEN [Respawn(moved, movers) EXCEPT !.unbalanced = "ok"]
    ELSE r

-----------------------------------------------------------------------------
(* Matches and rounds.                                                     *)

\* Mutant: the teams are balanced by the ticks alone.
ResetGameUnbalanced(r, movers) == ToRunning([r EXCEPT !.resetRequested = TRUE])
ResetGame(r, movers) ==
    Rebalance(ToRunning([r EXCEPT !.resetRequested = TRUE]), movers)

\* Mutant: the players are not counted.
StartMatchUncounted(r, movers) ==
    ToCountdown([ResetGame(r, movers) EXCEPT !.fresh = TRUE])
StartMatch(r, movers) ==
    LET reset == [ResetGame(r, movers) EXCEPT !.fresh = TRUE,
                                              !.suddenDeath = FALSE]
        new == [reset EXCEPT !.players = [p \in Players |->
                    [reset.players[p] EXCEPT !.pauses = 0]]]
    IN  IF IsWarmup(r) /\ ~HasEnoughPlayers(r) THEN WaitForPlayers(r)
        ELSE IF HasEnoughPlayers(new) THEN ToCountdown(new)
        ELSE ToWarmup(new, TIMER_INFINITE)

\* Mutant: the game is not reset, so the state is END_ROUND still.
StartRoundUnreset(r, movers) ==
    IF HasEnoughPlayers(r) THEN ToCountdown(r) ELSE WaitForPlayers(r)
StartRound(r, movers) ==
    LET reset == ResetGame(r, movers)
        new == [reset EXCEPT !.fresh = @ \/ Survival]   \* IsRoundTimer
    IN  IF IsWarmup(r) /\ ~HasEnoughPlayers(r) THEN WaitForPlayers(r)
        ELSE IF HasEnoughPlayers(new) THEN ToCountdown(new)
        ELSE WaitForPlayers(new)

\* SetGameState(IGS_WARMUP_USER, seconds)
DoWarmup(r, seconds, movers) ==
    IF seconds # 0 THEN ToWarmup(r, seconds)
    ELSE IF CanWarmup(r) THEN StartMatch(r, movers)
    ELSE r

\* TryStartWarmup of a room where somebody plays
TryWarmup(r, fallback, movers) ==
    IF r.state \notin Warmups \/ r.timer # TIMER_INFINITE THEN r
    ELSE IF ~HasEnoughPlayers(r)
    THEN IF fallback THEN WaitForPlayers(SetPlayersReadyState(r, TRUE)) ELSE r
    ELSE IF ~ReadyToStart(r) THEN DoWarmup(r, r.cfg.warmup, movers)
    ELSE IF r.state # WARMUP_USER THEN ToWarmup(r, TIMER_INFINITE)
    ELSE r

\* The match is WARMUP_GAME when its TryStartWarmup runs.
ResetMatch(r, movers) ==
    LET new == [ResetGame(r, movers) EXCEPT !.fresh = TRUE,
                                            !.suddenDeath = FALSE]
    IN  TryWarmup(WaitForPlayers(new), FALSE, movers)

\* Mutant: nobody looks whether anybody plays.
TryStartWarmupEmpty(r, fallback, movers) == TryWarmup(r, fallback, movers)
TryStartWarmup(r, fallback, movers) ==
    IF r.state # WARMUP_GAME /\ HasNoPlayers(r) THEN ResetMatch(r, movers)
    ELSE TryWarmup(r, fallback, movers)

\* Mutant: the player that leaves counts.
CheckReadyStatesOfAll(r, without, movers) ==
    IF r.cfg.readyMode = 0 \/ ~AllReady(r, {}) THEN r
    ELSE IF r.state = WARMUP_USER /\ r.timer = TIMER_INFINITE
    THEN DoWarmup(r, r.cfg.warmup, movers)
    ELSE IF r.state = GAME_PAUSED THEN ToPaused(r, 0)
    ELSE r
CheckReadyStates(r, without, movers) ==
    IF r.cfg.readyMode = 0 \/ ~AllReady(r, without) THEN r
    ELSE IF r.state = WARMUP_USER /\ r.timer = TIMER_INFINITE
    THEN DoWarmup(r, r.cfg.warmup, movers)
    ELSE IF r.state = GAME_PAUSED THEN ToPaused(r, 0)
    ELSE r

\* DoTeamChange of p to team t, a team it is not on
One(p, t) == [q \in {p} |-> t]
DoTeamChange(r, p, t, movers) ==
    LET moved == SwitchTeams(r, One(p, t)) IN
    IF r.players[p].team = t THEN r
    ELSE TryStartWarmup(CheckReadyStates(moved, {}, movers), TRUE, movers)

ClampTeam(t) == IF t \in Sides /\ ~Teamplay THEN TEAM_RED ELSE t

-----------------------------------------------------------------------------
(* Players come and go.                                                    *)

Idle == room.loop = "none"
Running == Idle /\ room.phase = "run"

\* sv_tournament_mode, and the lobby of sv_room 2, start with spectators.
GetStartTeam(r) ==
    IF r.size[TEAM_RED] + r.size[TEAM_BLUE] >= r.cfg.playerSlots
    THEN TEAM_SPECTATORS
    ELSE IF Teamplay THEN Other(BiggerSide(r)) ELSE TEAM_RED

\* OnInternalPlayerJoin
Join(p) ==
    /\ Idle /\ room.phase # "setup" /\ ~room.players[p].inRoom
    /\ \E t \in {GetStartTeam(room), TEAM_SPECTATORS} :
       LET new == [Absent EXCEPT !.inRoom = TRUE,
                                 !.ready = ~IsPlayerReadyMode(room),
                                 !.noRespawn = GetStartRespawnState(room)]
           entered == SwitchTeams([room EXCEPT !.players[p] = new], One(p, t))
       IN  \E movers \in Movers(entered) :
             room' = TryStartWarmup(Respawn(entered, {p}), FALSE, movers)
    /\ UNCHANGED loggedIn

\* Mutants: the team keeps its size; the balancer is not woken up.
LeaveTeamCounted(r, t) ==
    IF t = TEAM_SPECTATORS THEN r ELSE [r EXCEPT !.unbalanced = "check"]
LeaveTeamUnchecked(r, t) ==
    IF t = TEAM_SPECTATORS THEN r ELSE [r EXCEPT !.size[t] = @ - 1]
LeaveTeam(r, t) ==
    IF t = TEAM_SPECTATORS THEN r
    ELSE [r EXCEPT !.size[t] = @ - 1, !.unbalanced = "check"]

\* OnInternalPlayerLeave: the player still counts as in the room while it
\* runs, and is out of it when the caller has changed m_Core.
Leave(p) ==
    /\ Idle /\ room.phase # "setup" /\ room.players[p].inRoom
    /\ LET left == LeaveTeam(room, room.players[p].team)
       IN  \E movers \in Movers(left) :
             room' = [TryStartWarmup(CheckReadyStates(left, {p}, movers),
                                     TRUE, movers)
                        EXCEPT !.players[p] = Absent]
    /\ UNCHANGED loggedIn

\* CanJoinTeam: the player slots; a player who plays takes none
CanJoinTeam(p, t) ==
    t # TEAM_SPECTATORS =>
        room.size[TEAM_RED] + room.size[TEAM_BLUE]
          - (IF room.players[p].team = TEAM_SPECTATORS THEN 0 ELSE 1)
        < room.cfg.playerSlots

\* CanChangeTeam: the change may not leave the new team 2 players bigger
CanChangeTeam(p, t) ==
    LET plays == room.players[p].team # TEAM_SPECTATORS IN
    Teamplay /\ t # TEAM_SPECTATORS /\ room.cfg.balance =>
        room.size[t] + 1 - (room.size[Other(t)] - (IF plays THEN 1 ELSE 0)) < 2

DoTeamChanges(p, t) ==
    /\ room.players[p].inRoom /\ room.players[p].team # t
    /\ \E movers \in Movers(SwitchTeams(room, One(p, t))) :
          room' = DoTeamChange(room, p, t, movers)
    /\ UNCHANGED loggedIn

\* NETMSGTYPE_CL_SETTEAM
SetTeamMessage(p, t) ==
    /\ Running /\ ~room.paused /\ t = ClampTeam(t)
    /\ CanJoinTeam(p, t) /\ CanChangeTeam(p, t)
    /\ DoTeamChanges(p, t)

\* The console command set_team; DoActivityCheck for TEAM_SPECTATORS.
SetTeam(p, t) ==
    /\ Running /\ t = ClampTeam(t)
    /\ "set_team" \in Commands \/ t = TEAM_SPECTATORS
    /\ DoTeamChanges(p, t)

\* OnPlayerReadyChange of a ready player in a running game.  Without
\* pause_per_match nothing reads m_PauseCount.
RequestPause(p) ==
    LET q == room.players[p]
        limit == room.cfg.pausePerMatch
    IN  /\ Running /\ ReadyToPause(room) /\ room.state = GAME_RUNNING
        /\ p \in Active(room) /\ ~q.deadSpec /\ q.ready
        /\ ~room.pauseRequested
        /\ limit = 0 \/ q.pauses < limit
        /\ room' = [room EXCEPT
                      !.pauseRequested = TRUE,
                      !.players[p].pauses = IF limit = 0 THEN @ ELSE @ + 1]
        /\ UNCHANGED loggedIn

\* The other calls of OnPlayerReadyChange.
ToggleReady(p) ==
    /\ Running /\ IsPlayerReadyMode(room)
    /\ p \in Active(room) /\ ~room.players[p].deadSpec
    /\ \E movers \in Movers(room) :
         room' = CheckReadyStates([room EXCEPT !.players[p].ready = ~@],
                                  {}, movers)
    /\ UNCHANGED loggedIn

-----------------------------------------------------------------------------
(* Characters, in the survival game types.                                 *)

\* OnPredictedEarlyInput (fire) or CPlayer::Tick calls Respawn.
AskRespawn(p) ==
    LET q == room.players[p] IN
    /\ Survival /\ Idle /\ room.phase # "setup"
    /\ p \in Active(room) /\ ~q.alive
    /\ \/ ~room.paused
       \/ room.phase = "run" /\ ~IsGamePaused(room) /\ ~q.deadSpec
    /\ room' = Respawn(room, {p})
    /\ UNCHANGED loggedIn

\* TryRespawn of CPlayer::Tick and OnInternalCharacterSpawn
Spawn(p) ==
    LET q == room.players[p] IN
    /\ Survival /\ Running /\ ~IsGamePaused(room)
    /\ p \in Active(room) /\ ~q.alive /\ q.spawning
    /\ ~room.paused /\ ~room.resetRequested
    /\ room' = [room EXCEPT !.players[p] =
                  [q EXCEPT !.alive = TRUE, !.spawning = FALSE,
                            !.deadSpec = FALSE,
                            !.noRespawn = GetStartRespawnState(room)]]
    /\ UNCHANGED loggedIn

\* A death by another player's hand updates the dead players' modes.
Die(p) ==
    LET killed == KillCharacters(room, {p}) IN
    /\ Survival /\ Running /\ ~room.paused /\ room.players[p].alive
    /\ \/ room' = killed
       \/ room' = [killed EXCEPT !.players = [q \in Players |->
                    [killed.players[q] EXCEPT
                        !.deadSpec = @ /\ CanFollow(killed, q)]]]
    /\ UNCHANGED loggedIn

-----------------------------------------------------------------------------
(* The console.  A setting may also come from the room's creation.         *)

Console(command, phases) ==
    /\ command \in Commands /\ Idle /\ room.phase \in phases
    /\ UNCHANGED loggedIn

\* ConPause.  Without an argument it is called with 0 or TIMER_INFINITE.
Pause(seconds) ==
    /\ Console("pause", {"run"})
    /\ room' = ToPaused(room, seconds)

\* ConRestart: a negative argument calls AbortWarmup.
Restart(seconds) ==
    /\ Console("restart", {"run"})
    /\ IF seconds < 0
       THEN /\ room.state \in Warmups /\ room.timer # TIMER_INFINITE
            /\ room' = ToRunning(room)
       ELSE \E movers \in Movers(room) :
              room' = DoWarmup(room, seconds, movers)

\* Mutant: the setting is only stored.
StoreMinimumPlayers(n) ==
    /\ Console("minimum_players", {"setup", "run"})
    /\ room' = [room EXCEPT !.cfg.minimumPlayers = n]
SetMinimumPlayers(n) ==
    /\ Console("minimum_players", {"setup", "run"})
    /\ \E movers \in Movers(room) :
         room' = TryStartWarmup([room EXCEPT !.cfg.minimumPlayers = n],
                                TRUE, movers)

SetCountdown(seconds) ==
    /\ Console("countdown", {"setup", "run"})
    /\ LET set == [room EXCEPT !.cfg.countdown = seconds] IN
       room' = IF set.timer > seconds * TickSpeed THEN ToCountdown(set) ELSE set

SetPlayerReadyMode(mode) ==
    /\ Console("player_ready_mode", {"run"})
    /\ room' = [room EXCEPT !.cfg.readyMode = mode]

\* SwapTeams, ShuffleTeams, ConSetTeamAll: DoTeamChange for each player in
\* turn.  toTeam gives the players their targets; the loop is CommandStep.
MovePlayers(to) ==
    /\ DOMAIN to # {}
    /\ room' = [room EXCEPT !.loop = "command",
                  !.players = [p \in Players |->
                    [room.players[p] EXCEPT
                        !.toTeam = IF p \in DOMAIN to THEN to[p] ELSE NoTeam]]]

Swapped(r) == [p \in Active(r) |-> Other(r.players[p].team)]
Shuffled(r) ==
    LET n == Cardinality(Active(r)) IN
    {to \in [Active(r) -> Sides] :
        Cardinality({p \in Active(r) : to[p] = TEAM_RED})
            \in {n \div 2, (n + 1) \div 2}}

SwapTeams ==
    /\ Console("swap_teams", {"run"}) /\ Teamplay
    /\ MovePlayers([p \in Active(room) |-> OppositeTeam])

ShuffleTeams ==
    /\ Console("shuffle_teams", {"run"}) /\ Teamplay
    /\ \E to \in Shuffled(room) : MovePlayers(to)

SetTeamAll(t) ==
    /\ Console("set_team_all", {"run"})
    /\ MovePlayers([p \in InRoom(room) |-> ClampTeam(t)])

CommandStep ==
    LET pending == {p \in Players : room.players[p].toTeam # NoTeam} IN
    /\ room.loop = "command"
    /\ \E p \in pending :
       LET q == room.players[p]
           t == IF q.toTeam = OppositeTeam THEN Other(q.team) ELSE q.toTeam
       IN  \E movers \in Movers(SwitchTeams(room, One(p, t))) :
             room' = [DoTeamChange(room, p, t, movers) EXCEPT
                        !.players[p].toTeam = NoTeam,
                        !.loop = IF pending = {p} THEN "none" ELSE @]
    /\ UNCHANGED loggedIn

-----------------------------------------------------------------------------
(* Tick: IGameController::Tick, then the reset in CGameWorld::Tick.        *)

PauseIfRequested(r) ==
    IF r.pauseRequested
    THEN [ToPaused(r, TIMER_INFINITE) EXCEPT !.pauseRequested = FALSE]
    ELSE r

\* The teams SwapTeams or ShuffleTeams would give the players at the end of
\* a match; nothing else in their DoTeamChange has an effect in END_MATCH, if
\* the sizes are not wrong and add up to nothing (as for Rebalance).
Nobody == [p \in {} |-> TEAM_RED]
Rematches(r) ==
    IF r.state # END_MATCH \/ r.timer # 1 \/ ~Teamplay THEN {Nobody}
    ELSE CASE r.cfg.matchSwap = 0 -> {Nobody}
           [] r.cfg.matchSwap = 1 -> {Swapped(r)}
           [] r.cfg.matchSwap = 2 -> Shuffled(r)

TimerFires(r, teams, movers) ==
    LET switched == SwitchTeams(r, teams) IN
    CASE r.state = WARMUP_USER -> StartMatch(r, movers)
      [] r.state = START_COUNTDOWN -> ToRunning(r)
      [] r.state = GAME_PAUSED -> ToCountdown(r)
      [] r.state = END_ROUND -> StartRound(r, movers)
      [] r.state = END_MATCH -> IF r.cfg.resetOnMatchEnd
                                THEN ResetMatch(switched, movers)
                                ELSE StartMatch(switched, movers)
      [] OTHER -> r

\* While a frozen state lasts, m_GameStartTick moves on with the ticks.
Frozen == {START_COUNTDOWN, GAME_PAUSED, END_ROUND}
\* Mutant: TIMER_INFINITE counts down, too.
TimersOfInfinity(r, teams, movers) ==
    IF r.timer = 1 THEN TimerFires([r EXCEPT !.timer = 0], teams, movers)
    ELSE [r EXCEPT !.timer = @ - 1]
Timers(r, teams, movers) ==
    LET left == IF r.timer > 0 THEN r.timer - 1 ELSE r.timer
        next == [r EXCEPT !.timer = left,
                          !.fresh = @ /\ left # 0 /\ r.state \in Frozen]
    IN  IF left = 0 THEN TimerFires(next, teams, movers)
        ELSE IF /\ r.state = WARMUP_USER /\ left = TIMER_INFINITE
                /\ ~ReadyToStart(r)
        THEN DoWarmup(next, r.cfg.warmup, movers)
        ELSE next

Balances == Teamplay /\ ~Survival
CheckTeamBalance(r) ==
    IF Balances /\ r.unbalanced = "check"
    THEN [r EXCEPT !.unbalanced = IF NeedsBalance(r) THEN "since" ELSE "ok"]
    ELSE r

\* LTS and LMS DoWincheckRound: who may still play this round
Survivors(r) ==
    {p \in Active(r) : ~r.players[p].noRespawn \/ r.players[p].alive}
RoundDecided(r) ==
    IF Teamplay THEN \E t \in Sides : Survivors(r) \cap Side(r, t) = {}
    ELSE Cardinality(Survivors(r)) <= 1

\* Mutant: only the time limit ends a round.
WinCheckAtTimeLimit(r, timeUp, outcome) ==
    IF /\ r.state \in {GAME_RUNNING, GAME_PAUSED} /\ ~r.resetRequested
       /\ timeUp /\ ~r.suddenDeath
    THEN EndRound(r, outcome)
    ELSE r
WinCheck(r, timeUp, outcome) ==
    IF r.state \notin {GAME_RUNNING, GAME_PAUSED} \/ r.resetRequested THEN r
    ELSE IF ~Survival THEN DoWincheckMatch(r, outcome)
    ELSE IF RoundDecided(r) \/ (timeUp /\ ~r.suddenDeath)
    THEN EndRound(r, outcome)
    ELSE r

\* CGameWorld::Reset and OnReset
WorldTick(r) ==
    LET cleared == [r EXCEPT !.resetRequested = FALSE,
                     !.players = [p \in Players |->
                        [r.players[p] EXCEPT !.alive = FALSE,
                            !.noRespawn = @ /\ p \notin InRoom(r)]]]
    IN  IF r.resetRequested THEN Respawn(cleared, InRoom(r)) ELSE r

\* No score or time limit is met in the very tick that a match is resumed in.
EndTick(r) ==
    LET played == room.state \in {GAME_RUNNING, GAME_PAUSED} IN
    \E timeUp \in {FALSE, played} :
    \E outcome \in IF played \/ Survival THEN Outcomes ELSE {"none"} :
        room' = WorldTick(WinCheck(r, timeUp, outcome))

\* The room after the pause request and the timers of a tick
TimedRooms ==
    UNION {{Timers(PauseIfRequested(room), teams, movers) :
              movers \in Movers(SwitchTeams(room, teams))} :
             teams \in Rematches(room)}

BalanceDue(r) == Balances /\ r.unbalanced = "since" /\ NeedsBalance(r)

Tick ==
    /\ Running
    /\ \E r \in TimedRooms : EndTick(CheckTeamBalance(r))
    /\ UNCHANGED loggedIn

\* A tick that runs DoTeamBalance stops before its loop: BalanceStep.
TickBalances ==
    /\ Running
    /\ \E r \in TimedRooms :
         /\ BalanceDue(r)
         /\ room' = [r EXCEPT !.loop = "balance", !.bigger = BiggerSide(r),
                              !.numBalance = Difference(r) \div 2]
    /\ UNCHANGED loggedIn

\* One pass of the loop of DoTeamBalance, and after the last one what Tick
\* still has to do.
PassDone(r) ==
    IF room.numBalance > 1
    THEN room' = [r EXCEPT !.numBalance = room.numBalance - 1]
    ELSE EndTick([r EXCEPT !.loop = "none", !.numBalance = 0,
                           !.unbalanced = "ok"])

BalanceStep ==
    LET to == Other(room.bigger) IN
    /\ room.loop = "balance"
    /\ IF Side(room, room.bigger) = {} THEN PassDone(room)
       ELSE \E p \in Side(room, room.bigger) :
            \E movers \in Movers(SwitchTeams(room, One(p, to))) :
               PassDone(DoTeamChange(room, p, to, movers))
    /\ UNCHANGED loggedIn

-----------------------------------------------------------------------------
(* Creation and reloads: CGameTeams::OnTick.                               *)

\* The end of CreateGameInstance
FinishSetup ==
    /\ room.phase = "setup"
    /\ room' = [room EXCEPT !.phase = "load"]
    /\ UNCHANGED loggedIn

\* A reload by "map": a new world and InitController instead of a tick
SoftReload ==
    /\ "map" \in Commands /\ Running
    /\ LET killed == KillCharacters(room, InRoom(room)) IN
       room' = [killed EXCEPT !.phase = "load", !.paused = FALSE,
                   !.resetRequested = FALSE, !.pauseRequested = FALSE,
                   !.fresh = TRUE]
    /\ UNCHANGED loggedIn

\* A tick that does not finish creating the entities
LoadTick ==
    /\ room.phase = "load"
    /\ room' = [room EXCEPT !.fresh = FALSE]
    /\ UNCHANGED loggedIn

StartController ==
    /\ room.phase = "load"
    /\ LET started == [room EXCEPT !.phase = "run", !.suddenDeath = FALSE,
                                   !.fresh = TRUE]
       IN  \E movers \in Movers(room) :
             room' = TryStartWarmup(WaitForPlayers(started), FALSE, movers)
    /\ UNCHANGED loggedIn

-----------------------------------------------------------------------------
(* Logins.                                                                 *)

\* /timeout and /login ask the Axiom service on a thread of their own, which
\* waits for the answer and calls LoginAxiom.  Its SetTeam(0) writes m_Team
\* behind the controller's back: nobody counts, no warmup starts.  The thread
\* takes no lock, so it comes between any two steps, those of a loop, too.
Login(p) ==
    /\ p \in Accounts \ loggedIn /\ room.players[p].inRoom
    /\ room' = [KillCharacters(room, {p}) EXCEPT !.players[p].team = TEAM_RED]
    /\ loggedIn' = loggedIn \cup {p}

-----------------------------------------------------------------------------
PlayerAction(p) ==
    \/ Join(p)
    \/ Leave(p)
    \/ RequestPause(p)
    \/ ToggleReady(p)
    \/ AskRespawn(p)
    \/ Spawn(p)
    \/ Die(p)
    \/ Login(p)
    \/ \E t \in Teams : SetTeamMessage(p, t) \/ SetTeam(p, t)

ConsoleAction ==
    \/ \E s \in Args.seconds : Pause(s) \/ Restart(s)
    \/ \E n \in Args.minimumPlayers : SetMinimumPlayers(n)
    \/ \E s \in Args.countdown : SetCountdown(s)
    \/ \E m \in Args.readyMode : SetPlayerReadyMode(m)
    \/ SwapTeams
    \/ ShuffleTeams
    \/ \E t \in Teams : SetTeamAll(t)

ServerAction ==
    \/ CommandStep
    \/ Tick
    \/ TickBalances
    \/ BalanceStep
    \/ FinishSetup
    \/ SoftReload
    \/ LoadTick
    \/ StartController

Next == (\E p \in Players : PlayerAction(p)) \/ ConsoleAction \/ ServerAction

Spec == Init /\ [][Next]_vars

\* The main loop keeps ticking, whatever the clients and the console do.
ServerTick == Tick \/ TickBalances \/ BalanceStep \/ CommandStep
FairSpec == Spec /\ WF_room(FinishSetup) /\ WF_room(StartController)
                 /\ WF_room(ServerTick)

-----------------------------------------------------------------------------
(* Properties.  A login leaves wrong sizes and an unready player behind,    *)
(* so those that depend on the truth of either say what holds until the    *)
(* first login; the others hold with logins, too.                          *)

NoLogin == loggedIn = {}

\* Every field of the room keeps its type.
TypeOK == room \in Room /\ loggedIn \subseteq Accounts

\* The world stands still exactly in the states that freeze the game:
\* m_Paused is written far from m_GameState, by SetGameState's branches and
\* by the world's creation, and every entity and client reads it alone.
FreezingStates == {START_COUNTDOWN, GAME_PAUSED, END_MATCH, END_ROUND}
PauseCoherence == room.phase = "run" =>
                    (room.paused <=> room.state \in FreezingStates)

\* m_aTeamSize, which is counted up and down at six places, is the number of
\* players that are on the team, until a login changes a team without counting.
SizesMatch ==
    NoLogin => \A t \in Sides : room.size[t] = Cardinality(Side(room, t))

\* Whatever makes the last player counted stop playing sends the room back to
\* waiting for players: no match goes on in a room without counted players.
\* (With teams until the first login: balancing -1 and 1 counts nobody.)
EmptiedRoomWaits ==
    [][(Teamplay => NoLogin) /\ ~HasNoPlayers(room) /\ HasNoPlayers(room)'
          => room'.state = WARMUP_GAME]_room

\* A room never keeps waiting for players that it has counted already.
NoWaitWithEnoughPlayers ==
    Running /\ room.state = WARMUP_GAME => ~HasEnoughPlayers(room)

\* A match or a round starts only with the number of players that
\* minimum_players asks for, and, until somebody has logged in, with balanced
\* teams.
Starts == room.state \in Warmups \cup {END_MATCH, END_ROUND}
          /\ room'.state \in {START_COUNTDOWN, GAME_RUNNING}
StartsWithEnoughPlayers == [][Starts => HasEnoughPlayers(room)']_room
StartsBalanced == [][NoLogin /\ Starts => ~NeedsBalance(room)']_room

\* m_UnbalancedTick says TBALANCE_OK only of teams that are balanced, so the
\* balancer never sleeps while it is needed, as long as nobody has logged in: a
\* pass over a side that is counted but has no players moves nobody.
BalanceOk == NoLogin /\ Balances /\ room.unbalanced = "ok" /\ room.loop = "none"
                => ~NeedsBalance(room)

\* During a warmup nobody who plays is kept from respawning.
RespawnInWarmup ==
    room.state \in Warmups => \A p \in InRoom(room) : ~room.players[p].noRespawn

\* A warmup that waits for the players to be ready waits for one of them.
ReadyWaitHasUnready ==
    /\ NoLogin /\ Running /\ ReadyToStart(room) /\ Active(room) # {}
    /\ room.state = WARMUP_USER /\ room.timer = TIMER_INFINITE
    => \E p \in Active(room) : ~room.players[p].ready

\* In a running game every player counts as ready: pressing ready asks for a
\* pause and never only toggles the state back.  (A spectator who logs in
\* plays unready.)
RunningAllReady ==
    NoLogin /\ room.state = GAME_RUNNING =>
        \A p \in Active(room) : room.players[p].ready

\* Only a round's start, which resets the world, or a warmup brings back a
\* player who is out: who may not respawn does not spawn.
SpawnsAreAllowed ==
    [][\A p \in Players : ~room.players[p].alive /\ room'.players[p].alive
                            => ~room.players[p].noRespawn]_room

\* A survival round that nobody or only one side can win any more ends.
DecidedRoundEnds ==
    (Survival /\ room.state = GAME_RUNNING /\ RoundDecided(room))
        ~> (room.state # GAME_RUNNING \/ ~RoundDecided(room))

\* A reload or a creation ends in a warmup or in a match that has its players.
\* No run checks it: a match that starts while entities load may lose them.
StartControllerWaits ==
    [][room.phase = "load" /\ room'.phase = "run"
          => room'.state \in Warmups \/ HasEnoughPlayers(room)']_room

\* A room that keeps enough players and waits for nobody's readiness gets to
\* play again and again: no state of a match is a dead end.
GameGoesOn == <>[]HasEnoughPlayers(room) => []<>(room.state = GAME_RUNNING)

\* When nobody is in the room any more, the code knows that nobody plays.
EmptyRoomIsKnown == NoLogin /\ InRoom(room) = {} => HasNoPlayers(room)
=============================================================================
