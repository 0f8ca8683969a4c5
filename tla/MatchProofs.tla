---------------------------- MODULE MatchProofs ----------------------------
(***************************************************************************)
(* Proofs about Match, for every value of its constants.                   *)
(*                                                                         *)
(* An action of Match composes operators from room to room, so the proof   *)
(* follows the code's call graph: one lemma for each operator says that it *)
(* preserves GoodRoom and what it leaves of the teams and of the state,    *)
(* and the step proof of an action cites the lemmas of the operators it    *)
(* calls.                                                                  *)
(***************************************************************************)
EXTENDS Match, FiniteSetTheorems, TLAPS

\* The game waits for players without a time limit.
Patient(r) == r.state = WARMUP_GAME => r.timer = TIMER_INFINITE

\* The world stands still exactly in the freezing states.
Coherent(r) == r.paused <=> r.state \in FreezingStates

\* What every handler preserves, wherever it is called from.  Only a soft
\* reload breaks the coherence.
GoodRoom(r) == /\ r \in Room
               /\ Patient(r)
               /\ "map" \notin Commands => Coherent(r)

\* The room does not wait for players that it has.
NoWait(r) == r.state = WARMUP_GAME => ~HasEnoughPlayers(r)

\* The inductive invariant
Inv == GoodRoom(room) /\ NoWait(room)

\* Two rooms at the same place of the same loop over players, if at one; with
\* the same teams, too; and with the same game
SameLoop(r, s) == /\ s.phase = r.phase /\ s.loop = r.loop
                  /\ s.numBalance = r.numBalance /\ s.bigger = r.bigger
SameTeams(r, s) == /\ s.size = r.size /\ s.cfg = r.cfg
                   /\ s.unbalanced = r.unbalanced /\ SameLoop(r, s)
SameGame(r, s) == /\ SameTeams(r, s)
                  /\ s.state = r.state /\ s.timer = r.timer
                  /\ s.paused = r.paused

USE DEF TEAM_RED, TEAM_BLUE, TEAM_SPECTATORS, Sides, Teams, NoTeam,
        OppositeTeam, TIMER_INFINITE, SameLoop

-----------------------------------------------------------------------------
(* Updates of players.                                                     *)

LEMMA PlayersUpdate ==
    ASSUME NEW r \in Room, NEW f \in [Players -> Player]
    PROVE  LET s == [r EXCEPT !.players = f]
           IN  s \in Room /\ SameGame(r, s)
BY DEF Room, SameGame, SameTeams

LEMMA SameGameGood ==
    ASSUME NEW r, NEW s \in Room, GoodRoom(r), SameGame(r, s)
    PROVE  GoodRoom(s) /\ (NoWait(r) => NoWait(s))
BY DEF GoodRoom, SameGame, SameTeams, Patient, Coherent, NoWait,
       HasEnoughPlayers

LEMMA PlayerFields ==
    ASSUME NEW q \in Player, NEW b \in BOOLEAN
    PROVE  /\ [q EXCEPT !.alive = b] \in Player
           /\ [q EXCEPT !.ready = b] \in Player
           /\ [q EXCEPT !.noRespawn = b] \in Player
           /\ [q EXCEPT !.deadSpec = b] \in Player
           /\ [q EXCEPT !.spawning = b] \in Player
BY DEF Player

LEMMA PlayerType ==
    ASSUME NEW r \in Room, NEW p \in Players
    PROVE  /\ r.players[p] \in Player
           /\ r.players[p].team \in Teams
           /\ r.players[p].ready \in BOOLEAN
           /\ r.players[p].noRespawn \in BOOLEAN
           /\ r.players[p].deadSpec \in BOOLEAN
           /\ r.players[p].spawning \in BOOLEAN
           /\ r.players[p].alive \in BOOLEAN
BY DEF Room, Player

LEMMA KillCharactersSame ==
    ASSUME NEW r \in Room, NEW ps
    PROVE  LET s == KillCharacters(r, ps) IN s \in Room /\ SameGame(r, s)
<1> DEFINE b(p) == r.players[p].alive /\ p \notin ps
           f == [p \in Players |-> [r.players[p] EXCEPT !.alive = b(p)]]
<1>1. ASSUME NEW p \in Players PROVE b(p) \in BOOLEAN
  OBVIOUS
<1> HIDE DEF b
<1>2. f \in [Players -> Player]
  BY <1>1, PlayerType, PlayerFields
<1> HIDE DEF f
<1>3. KillCharacters(r, ps) = [r EXCEPT !.players = f]
  BY DEF KillCharacters, f, b
<1> QED BY <1>2, <1>3, PlayersUpdate

LEMMA SetPlayersReadyStateSame ==
    ASSUME NEW r \in Room, NEW b \in BOOLEAN
    PROVE  LET s == SetPlayersReadyState(r, b) IN s \in Room /\ SameGame(r, s)
<1> DEFINE c(p) == IF p \in Active(r) /\ (b \/ ~r.players[p].deadSpec)
                   THEN b ELSE r.players[p].ready
           f == [p \in Players |-> [r.players[p] EXCEPT !.ready = c(p)]]
<1>1. ASSUME NEW p \in Players PROVE c(p) \in BOOLEAN
  BY PlayerType
<1> HIDE DEF c
<1>2. f \in [Players -> Player]
  BY <1>1, PlayerType, PlayerFields
<1> HIDE DEF f
<1>3. SetPlayersReadyState(r, b) = [r EXCEPT !.players = f]
  BY DEF SetPlayersReadyState, f, c
<1> QED BY <1>2, <1>3, PlayersUpdate

LEMMA EnableRespawnSame ==
    ASSUME NEW r \in Room
    PROVE  LET s == EnableRespawn(r) IN s \in Room /\ SameGame(r, s)
<1> DEFINE b(p) == r.players[p].noRespawn /\ ~Survival
           f == [p \in Players |-> [r.players[p] EXCEPT !.noRespawn = b(p)]]
<1>1. ASSUME NEW p \in Players PROVE b(p) \in BOOLEAN
  OBVIOUS
<1> HIDE DEF b
<1>2. f \in [Players -> Player]
  BY <1>1, PlayerType, PlayerFields
<1> HIDE DEF f
<1>3. EnableRespawn(r) = [r EXCEPT !.players = f]
  BY DEF EnableRespawn, f, b
<1> QED BY <1>2, <1>3, PlayersUpdate

LEMMA RespawnSame ==
    ASSUME NEW r \in Room, NEW ps
    PROVE  LET s == Respawn(r, ps) IN s \in Room /\ SameGame(r, s)
<1> DEFINE c(p) == CanFollow(r, p)
           d(p) == r.players[p].spawning
                     \/ (Survival /\ r.players[p].team # TEAM_SPECTATORS)
           g(q, p) == IF p \notin ps THEN q
                      ELSE IF q.noRespawn /\ q.team # TEAM_SPECTATORS
                      THEN [q EXCEPT !.deadSpec = c(p), !.ready = TRUE]
                      ELSE [q EXCEPT !.deadSpec = FALSE, !.spawning = d(p)]
           f == [p \in Players |-> g(r.players[p], p)]
<1>1. ASSUME NEW p \in Players PROVE c(p) \in BOOLEAN /\ d(p) \in BOOLEAN
  BY DEF CanFollow
<1>2. Respawn(r, ps) = [r EXCEPT !.players = f]
  BY DEF Respawn
<1> HIDE DEF c, d
<1>3. ASSUME NEW p \in Players PROVE g(r.players[p], p) \in Player
  BY <1>1, PlayerType, PlayerFields
<1>4. f \in [Players -> Player]
  <2> HIDE DEF g
  <2> QED BY <1>3
<1> HIDE DEF f
<1> QED BY <1>2, <1>4, PlayersUpdate

-----------------------------------------------------------------------------
(* SetGameState.                                                           *)

USE DEF WARMUP_GAME, WARMUP_USER, START_COUNTDOWN, GAME_PAUSED, GAME_RUNNING,
        END_MATCH, END_ROUND

\* A product of naturals is a natural.
LEMMA TimesNat ==
    ASSUME NEW m \in Nat, NEW n \in Nat
    PROVE  m * n \in Nat
OBVIOUS

LEMMA GoodType ==
    ASSUME NEW r, GoodRoom(r)
    PROVE  /\ r \in Room
           /\ r.state \in GameStates /\ r.timer \in Seconds
           /\ r.paused \in BOOLEAN /\ r.pauseRequested \in BOOLEAN
           /\ r.suddenDeath \in BOOLEAN
           /\ r.cfg \in Config
BY DEF GoodRoom, Room

LEMMA ToRunningGood ==
    ASSUME NEW r, GoodRoom(r)
    PROVE  LET s == ToRunning(r)
           IN  GoodRoom(s) /\ SameTeams(r, s) /\ s.state = GAME_RUNNING
<1> DEFINE u == [r EXCEPT !.state = GAME_RUNNING, !.timer = TIMER_INFINITE,
                          !.paused = FALSE, !.pauseRequested = FALSE]
<1>1. GoodRoom(u) /\ SameTeams(r, u) /\ u.state = GAME_RUNNING
  BY DEF GoodRoom, Room, SameTeams, Patient, Coherent, FreezingStates,
         GameStates, Seconds
<1>2. ToRunning(r) = SetPlayersReadyState(u, TRUE)
  BY DEF ToRunning
<1> HIDE DEF u
<1>3. ToRunning(r) \in Room /\ SameGame(u, ToRunning(r))
  BY <1>1, <1>2, SetPlayersReadyStateSame, GoodType
<1> QED BY <1>1, <1>3, SameGameGood DEF SameGame, SameTeams

\* The countdown is refused, runs, or is over at once.
LEMMA ToCountdownGood ==
    ASSUME NEW r, GoodRoom(r)
    PROVE  LET s == ToCountdown(r)
           IN  /\ GoodRoom(s) /\ SameTeams(r, s)
               /\ IF r.state \in {GAME_RUNNING, GAME_PAUSED, START_COUNTDOWN}
                  THEN s.state \in {GAME_RUNNING, START_COUNTDOWN}
                  ELSE s = r
<1> DEFINE c == r.cfg.countdown
           t == Abs(c) * TickSpeed
           u == [r EXCEPT !.state = START_COUNTDOWN, !.timer = t,
                          !.paused = TRUE]
<1>1. CASE r.state \notin {GAME_RUNNING, GAME_PAUSED, START_COUNTDOWN}
  BY <1>1 DEF ToCountdown, SameTeams
<1>2. CASE /\ r.state \in {GAME_RUNNING, GAME_PAUSED, START_COUNTDOWN}
           /\ c > 0 \/ (c < 0 /\ Survival)
  <2>1. c \in Int
    BY GoodType DEF Config
  <2>2. Abs(c) \in Nat
    BY <2>1 DEF Abs
  <2>3. t \in Seconds
    BY <2>2, TimesNat, MatchAssumption DEF Seconds
  <2>4. ToCountdown(r) = u
    BY <1>2 DEF ToCountdown
  <2> HIDE DEF t
  <2>5. GoodRoom(u) /\ SameTeams(r, u) /\ u.state = START_COUNTDOWN
    BY <2>3 DEF GoodRoom, Room, SameTeams, Patient, Coherent, FreezingStates,
                GameStates
  <2> QED BY <2>4, <2>5, <1>2
<1>3. CASE /\ r.state \in {GAME_RUNNING, GAME_PAUSED, START_COUNTDOWN}
           /\ ~(c > 0 \/ (c < 0 /\ Survival))
  BY <1>3, ToRunningGood DEF ToCountdown
<1> QED BY <1>1, <1>2, <1>3

LEMMA ToPausedGood ==
    ASSUME NEW r, GoodRoom(r), NEW seconds \in Seconds
    PROVE  LET s == ToPaused(r, seconds)
           IN  /\ GoodRoom(s) /\ SameTeams(r, s)
               /\ s = r \/ s.state \in {GAME_RUNNING, START_COUNTDOWN,
                                        GAME_PAUSED}
<1> DEFINE t == IF seconds < 0 THEN TIMER_INFINITE ELSE seconds * TickSpeed
           u == [r EXCEPT !.state = GAME_PAUSED, !.paused = TRUE, !.timer = t]
<1>1. CASE r.state \notin {GAME_RUNNING, GAME_PAUSED, WARMUP_GAME}
  BY <1>1 DEF ToPaused, SameTeams
<1>2. CASE r.state \in {GAME_RUNNING, GAME_PAUSED, WARMUP_GAME} /\ seconds = 0
  BY <1>2, ToCountdownGood DEF ToPaused
<1>3. CASE r.state \in {GAME_RUNNING, GAME_PAUSED, WARMUP_GAME} /\ seconds # 0
  <2>1. t \in Seconds
    BY TimesNat, MatchAssumption DEF Seconds
  <2>2. ToPaused(r, seconds) = IF seconds < 0 THEN SetPlayersReadyState(u, FALSE)
                               ELSE u
    BY <1>3 DEF ToPaused
  <2> HIDE DEF t
  <2>3. GoodRoom(u) /\ SameTeams(r, u) /\ u.state = GAME_PAUSED
    BY <2>1 DEF GoodRoom, Room, SameTeams, Patient, Coherent, FreezingStates,
                GameStates
  <2> HIDE DEF u
  <2>4. CASE seconds < 0
    <3>1. ToPaused(r, seconds) \in Room /\ SameGame(u, ToPaused(r, seconds))
      BY <2>2, <2>3, <2>4, SetPlayersReadyStateSame, GoodType
    <3> QED BY <3>1, <2>3, SameGameGood DEF SameGame, SameTeams
  <2>5. CASE ~(seconds < 0)
    BY <2>2, <2>3, <2>5
  <2> QED BY <2>4, <2>5
<1> QED BY <1>1, <1>2, <1>3

LEMMA WaitForPlayersGood ==
    ASSUME NEW r, GoodRoom(r)
    PROVE  LET s == WaitForPlayers(r)
           IN  /\ GoodRoom(s) /\ SameTeams(r, s)
               /\ IF r.state \in {GAME_RUNNING} \cup Warmups
                  THEN s.state = WARMUP_GAME ELSE s = r
<1> DEFINE u == [r EXCEPT !.state = WARMUP_GAME, !.timer = TIMER_INFINITE,
                          !.suddenDeath = FALSE]
<1>1. CASE r.state \notin {GAME_RUNNING} \cup Warmups
  BY <1>1 DEF WaitForPlayers, SameTeams
<1>2. CASE r.state \in {GAME_RUNNING} \cup Warmups
  <2>1. GoodRoom(u) /\ SameTeams(r, u) /\ u.state = WARMUP_GAME
    BY <1>2 DEF GoodRoom, Room, SameTeams, Patient, Coherent, FreezingStates,
                GameStates, Seconds, Warmups
  <2>2. WaitForPlayers(r) = EnableRespawn(u)
    BY <1>2 DEF WaitForPlayers
  <2> HIDE DEF u
  <2>3. WaitForPlayers(r) \in Room /\ SameGame(u, WaitForPlayers(r))
    BY <2>1, <2>2, EnableRespawnSame, GoodType
  <2> QED BY <1>2, <2>1, <2>3, SameGameGood DEF SameGame, SameTeams
<1> QED BY <1>1, <1>2

LEMMA ToWarmupGood ==
    ASSUME NEW r, GoodRoom(r), NEW seconds \in Seconds
    PROVE  LET s == ToWarmup(r, seconds)
           IN  /\ GoodRoom(s) /\ SameTeams(r, s)
               /\ IF CanWarmup(r) THEN s.state = WARMUP_USER ELSE s = r
<1> DEFINE t == IF seconds < 0 THEN TIMER_INFINITE ELSE seconds * TickSpeed
           v == IF seconds > 0 THEN SetPlayersReadyState(r, TRUE)
                ELSE IF ReadyToStart(r) THEN SetPlayersReadyState(r, FALSE)
                ELSE r
           u == [v EXCEPT !.state = WARMUP_USER, !.paused = FALSE, !.timer = t,
                          !.pauseRequested = FALSE, !.suddenDeath = FALSE]
<1>1. CASE ~CanWarmup(r)
  BY <1>1 DEF ToWarmup, SameTeams
<1>2. CASE CanWarmup(r)
  <2>1. t \in Seconds
    BY TimesNat, MatchAssumption DEF Seconds
  <2>2. ToWarmup(r, seconds) = EnableRespawn(u)
    BY <1>2 DEF ToWarmup
  <2>3. v \in Room /\ SameGame(r, v)
    BY GoodType, SetPlayersReadyStateSame DEF SameGame, SameTeams
  <2>4. GoodRoom(v)
    BY <2>3, SameGameGood
  <2> HIDE DEF t, v
  <2>5. GoodRoom(u) /\ SameTeams(v, u) /\ u.state = WARMUP_USER
    BY ZenonT(60), <2>1, <2>4 DEF GoodRoom, Room, SameTeams, Patient, Coherent,
                      FreezingStates, GameStates
  <2> HIDE DEF u
  <2>6. ToWarmup(r, seconds) \in Room /\ SameGame(u, ToWarmup(r, seconds))
    BY <2>2, <2>5, EnableRespawnSame, GoodType
  <2> QED BY <1>2, <2>3, <2>5, <2>6, SameGameGood DEF SameGame, SameTeams
<1> QED BY <1>1, <1>2

\* A match ends, or the end is refused.
LEMMA EndMatchGood ==
    ASSUME NEW r, GoodRoom(r)
    PROVE  LET s == EndMatch(r)
           IN  /\ GoodRoom(s) /\ SameTeams(r, s)
               /\ s.state = r.state \/ s.state = END_MATCH
<1> DEFINE t == TimerEnd * TickSpeed
           e == [r EXCEPT !.pauseRequested = FALSE]
           u == [e EXCEPT !.state = END_MATCH, !.timer = t,
                          !.suddenDeath = FALSE, !.paused = TRUE]
<1>1. t \in Nat
  BY TimesNat, MatchAssumption
<1>2. EndMatch(r) = IF CanEnd(r) THEN u ELSE e
  BY DEF EndMatch
<1>3. GoodRoom(e) /\ SameTeams(r, e) /\ e.state = r.state
  BY DEF GoodRoom, Room, SameTeams, Patient, Coherent
<1> HIDE DEF t, e
<1>4. GoodRoom(u) /\ SameTeams(e, u) /\ u.state = END_MATCH
  BY ZenonT(60), <1>1, <1>3 DEF GoodRoom, Room, SameTeams, Patient, Coherent,
                    FreezingStates, GameStates, Seconds
<1> QED BY <1>2, <1>3, <1>4 DEF SameTeams

LEMMA DoWincheckMatchGood ==
    ASSUME NEW r, GoodRoom(r), NEW outcome \in Outcomes
    PROVE  LET s == DoWincheckMatch(r, outcome)
           IN  /\ GoodRoom(s) /\ SameTeams(r, s)
               /\ s.state = r.state \/ s.state = END_MATCH
<1>1. CASE outcome = "none"
  BY <1>1 DEF DoWincheckMatch, SameTeams
<1>2. CASE outcome = "won"
  BY <1>2, EndMatchGood DEF DoWincheckMatch
<1>3. CASE outcome = "tie"
  BY <1>3 DEF DoWincheckMatch, GoodRoom, Room, SameTeams, Patient, Coherent
<1> QED BY <1>1, <1>2, <1>3 DEF Outcomes

LEMMA EndRoundGood ==
    ASSUME NEW r, GoodRoom(r), NEW outcome \in Outcomes
    PROVE  LET s == EndRound(r, outcome)
           IN  /\ GoodRoom(s) /\ SameTeams(r, s)
               /\ s.state \in {r.state, END_MATCH, END_ROUND}
<1> DEFINE q == [r EXCEPT !.pauseRequested = FALSE]
           e == DoWincheckMatch(q, outcome)
           t == (TimerEnd \div 2) * TickSpeed
           u == [e EXCEPT !.state = END_ROUND, !.paused = TRUE, !.timer = t]
<1>1. GoodRoom(q) /\ SameTeams(r, q) /\ q.state = r.state
  BY DEF GoodRoom, Room, SameTeams, Patient, Coherent
<1>2. GoodRoom(e) /\ SameTeams(q, e) /\ e.state \in {r.state, END_MATCH}
  BY <1>1, DoWincheckMatchGood
<1>3. t \in Nat
  <2>1. TimerEnd \div 2 \in Nat
    BY MatchAssumption
  <2> QED BY <2>1, TimesNat, MatchAssumption
<1>4. EndRound(r, outcome) = IF e.state # END_MATCH /\ CanEnd(e) THEN u ELSE e
  BY DEF EndRound
<1> HIDE DEF q, e, t
<1>5. GoodRoom(u) /\ SameTeams(e, u) /\ u.state = END_ROUND
  BY <1>2, <1>3 DEF GoodRoom, Room, SameTeams, Patient, Coherent,
                    FreezingStates, GameStates, Seconds
<1> QED BY <1>1, <1>2, <1>4, <1>5 DEF SameTeams

-----------------------------------------------------------------------------
(* Membership of the teams.                                                *)

\* A team change touches the sizes, m_UnbalancedTick and the players.
SameState(r, s) == /\ s.state = r.state /\ s.timer = r.timer
                   /\ s.paused = r.paused /\ s.cfg = r.cfg
                   /\ SameLoop(r, s)

LEMMA SameStateGood ==
    ASSUME NEW r, NEW s \in Room, GoodRoom(r), SameState(r, s)
    PROVE  GoodRoom(s)
BY DEF GoodRoom, SameState, Patient, Coherent

LEMMA GetStartRespawnStateType ==
    ASSUME NEW r
    PROVE  /\ GetStartRespawnState(r) \in BOOLEAN
           /\ IsPlayerReadyMode(r) \in BOOLEAN
BY DEF GetStartRespawnState, IsPlayerReadyMode

LEMMA SubsetCardinality ==
    ASSUME NEW S \in SUBSET Players
    PROVE  Cardinality(S) \in Nat /\ IsFiniteSet(S)
BY FS_Subset, FS_CardinalityType, MatchAssumption

LEMMA SwitchTeamsSame ==
    ASSUME NEW r \in Room, NEW P \in SUBSET Players, NEW to \in [P -> Teams]
    PROVE  LET s == SwitchTeams(r, to) IN s \in Room /\ SameState(r, s)
<1> DEFINE ps == {p \in DOMAIN to : r.players[p].team # to[p]}
           leave(t) == {p \in ps : r.players[p].team = t}
           join(t) == {p \in ps : to[p] = t}
           k == KillCharacters(r, ps)
           ready == ~IsPlayerReadyMode(r)
           respawn == GetStartRespawnState(r)
           size == [t \in Sides |->
                      r.size[t] - Cardinality(leave(t)) + Cardinality(join(t))]
           g(p) == IF p \notin ps THEN k.players[p]
                   ELSE IF to[p] = TEAM_SPECTATORS
                   THEN [k.players[p] EXCEPT !.team = TEAM_SPECTATORS]
                   ELSE [k.players[p] EXCEPT
                           !.team = to[p], !.ready = ready,
                           !.noRespawn = IF Survival THEN respawn ELSE @]
           f == [p \in Players |-> g(p)]
<1>1. SwitchTeams(r, to) =
        IF ps = {} THEN r
        ELSE [k EXCEPT !.size = size, !.unbalanced = "check", !.players = f]
  BY DEF SwitchTeams
<1>2. k \in Room /\ SameGame(r, k)
  BY KillCharactersSame
<1>3. ready \in BOOLEAN /\ respawn \in BOOLEAN
  BY GetStartRespawnStateType
<1>4. \A t \in Sides : leave(t) \in SUBSET Players /\ join(t) \in SUBSET Players
  <2>1. ps \in SUBSET Players
    OBVIOUS
  <2> HIDE DEF ps
  <2> QED BY <2>1
<1> HIDE DEF leave, join
<1>5. size \in [Sides -> Int]
  BY <1>4, SubsetCardinality DEF Room
<1>6. ASSUME NEW p \in ps PROVE p \in P /\ to[p] \in Teams
  OBVIOUS
<1> HIDE DEF k, ready, respawn, ps, size
<1>7. ASSUME NEW p \in Players PROVE g(p) \in Player
  <2>1. k.players[p] \in Player
    BY <1>2, PlayerType
  <2>2. CASE p \notin ps
    BY <2>1, <2>2
  <2>3. CASE p \in ps /\ to[p] = TEAM_SPECTATORS
    BY <2>1, <2>3 DEF Player
  <2>4. CASE p \in ps /\ to[p] # TEAM_SPECTATORS
    BY ZenonT(60), <2>1, <2>4, <1>3, <1>6 DEF Player
  <2> QED BY <2>2, <2>3, <2>4
<1> HIDE DEF g
<1>8. f \in [Players -> Player]
  BY <1>7
<1> HIDE DEF f
<1>9. [k EXCEPT !.size = size, !.unbalanced = "check", !.players = f] \in Room
  BY <1>2, <1>5, <1>8 DEF Room
<1> QED BY <1>1, <1>2, <1>9 DEF SameState, SameGame, SameTeams, Room

LEMMA MoversType ==
    ASSUME NEW r, NEW m \in Movers(r)
    PROVE  m \in SUBSET Players
BY DEF Movers, Side, InRoom

LEMMA BiggerSideType ==
    ASSUME NEW r
    PROVE  BiggerSide(r) \in Sides /\ Other(BiggerSide(r)) \in Sides
BY DEF BiggerSide, Other

LEMMA RebalanceSame ==
    ASSUME NEW r \in Room, NEW m \in SUBSET Players
    PROVE  LET s == Rebalance(r, m) IN s \in Room /\ SameState(r, s)
<1> DEFINE to == [p \in m |-> Other(BiggerSide(r))]
           moved == SwitchTeams(r, to)
           back == Respawn(moved, m)
<1>1. to \in [m -> Teams]
  BY BiggerSideType
<1> HIDE DEF to
<1>2. moved \in Room /\ SameState(r, moved)
  BY <1>1, SwitchTeamsSame
<1>3. back \in Room /\ SameGame(moved, back)
  BY <1>2, RespawnSame
<1>4. Rebalance(r, m) = IF NeedsBalance(r)
                        THEN [back EXCEPT !.unbalanced = "ok"] ELSE r
  BY DEF Rebalance, to
<1> HIDE DEF moved, back
<1>5. [back EXCEPT !.unbalanced = "ok"] \in Room
  BY <1>3 DEF Room
<1> QED BY <1>2, <1>3, <1>4, <1>5 DEF SameState, SameGame, SameTeams, Room

-----------------------------------------------------------------------------
(* Matches and rounds.  Whatever starts or resets one leaves no room        *)
(* waiting for players that are there.                                      *)

LEMMA ResetGameGood ==
    ASSUME NEW r, GoodRoom(r), NEW m \in SUBSET Players
    PROVE  LET s == ResetGame(r, m) IN GoodRoom(s) /\ s.state = GAME_RUNNING
<1> DEFINE q == [r EXCEPT !.resetRequested = TRUE]
           u == ToRunning(q)
<1>1. GoodRoom(q)
  BY DEF GoodRoom, Room, Patient, Coherent
<1>2. GoodRoom(u) /\ u.state = GAME_RUNNING
  BY <1>1, ToRunningGood
<1>3. ResetGame(r, m) = Rebalance(u, m)
  BY DEF ResetGame
<1> HIDE DEF u
<1>4. Rebalance(u, m) \in Room /\ SameState(u, Rebalance(u, m))
  BY <1>2, GoodType, RebalanceSame
<1> QED BY <1>2, <1>3, <1>4, SameStateGood DEF SameState

LEMMA StartMatchGood ==
    ASSUME NEW r, GoodRoom(r), NEW m \in SUBSET Players
    PROVE  LET s == StartMatch(r, m) IN GoodRoom(s) /\ NoWait(s)
<1> DEFINE g == ResetGame(r, m)
           reset == [g EXCEPT !.fresh = TRUE, !.suddenDeath = FALSE]
           f == [p \in Players |-> [reset.players[p] EXCEPT !.pauses = 0]]
           new == [reset EXCEPT !.players = f]
<1>1. StartMatch(r, m) = IF IsWarmup(r) /\ ~HasEnoughPlayers(r)
                         THEN WaitForPlayers(r)
                         ELSE IF HasEnoughPlayers(new) THEN ToCountdown(new)
                         ELSE ToWarmup(new, TIMER_INFINITE)
  BY DEF StartMatch
<1>2. CASE IsWarmup(r) /\ ~HasEnoughPlayers(r)
  BY <1>1, <1>2, WaitForPlayersGood
     DEF NoWait, SameTeams, HasEnoughPlayers
<1>3. CASE ~(IsWarmup(r) /\ ~HasEnoughPlayers(r))
  <2>1. GoodRoom(g) /\ g.state = GAME_RUNNING
    BY ResetGameGood
  <2> HIDE DEF g
  <2>2. GoodRoom(reset) /\ reset.state = GAME_RUNNING
    BY <2>1 DEF GoodRoom, Room, Patient, Coherent
  <2> HIDE DEF reset
  <2>3. f \in [Players -> Player]
    BY <2>2, GoodType, PlayerType DEF Player
  <2> HIDE DEF f
  <2>4. new \in Room /\ SameGame(reset, new)
    BY <2>2, <2>3, GoodType, PlayersUpdate
  <2>5. GoodRoom(new) /\ new.state = GAME_RUNNING
    BY <2>2, <2>4, SameGameGood DEF SameGame
  <2> HIDE DEF new
  <2>6. CanWarmup(new) /\ TIMER_INFINITE \in Seconds
    BY <2>5 DEF CanWarmup, Seconds
  <2> QED BY <1>1, <1>3, <2>5, <2>6, ToCountdownGood, ToWarmupGood DEF NoWait
<1> QED BY <1>2, <1>3

LEMMA StartRoundGood ==
    ASSUME NEW r, GoodRoom(r), NEW m \in SUBSET Players
    PROVE  LET s == StartRound(r, m) IN GoodRoom(s) /\ NoWait(s)
<1> DEFINE reset == ResetGame(r, m)
           b == reset.fresh \/ Survival
           new == [reset EXCEPT !.fresh = b]
<1>1. StartRound(r, m) = IF IsWarmup(r) /\ ~HasEnoughPlayers(r)
                         THEN WaitForPlayers(r)
                         ELSE IF HasEnoughPlayers(new) THEN ToCountdown(new)
                         ELSE WaitForPlayers(new)
  BY DEF StartRound
<1>2. CASE IsWarmup(r) /\ ~HasEnoughPlayers(r)
  BY <1>1, <1>2, WaitForPlayersGood
     DEF NoWait, SameTeams, HasEnoughPlayers
<1>3. CASE ~(IsWarmup(r) /\ ~HasEnoughPlayers(r))
  <2>1. GoodRoom(reset) /\ reset.state = GAME_RUNNING
    BY ResetGameGood
  <2>2. b \in BOOLEAN
    OBVIOUS
  <2> HIDE DEF reset, b
  <2>3. GoodRoom(new) /\ new.state = GAME_RUNNING
    BY <2>1, <2>2 DEF GoodRoom, Room, Patient, Coherent
  <2> HIDE DEF new
  <2> QED BY <1>1, <1>3, <2>3, ToCountdownGood, WaitForPlayersGood
          DEF NoWait, SameTeams, HasEnoughPlayers
<1> QED BY <1>2, <1>3

LEMMA DoWarmupGood ==
    ASSUME NEW r, GoodRoom(r), NEW seconds \in Seconds, NEW m \in SUBSET Players
    PROVE  LET s == DoWarmup(r, seconds, m)
           IN  GoodRoom(s) /\ (NoWait(r) \/ CanWarmup(r) => NoWait(s))
<1>1. CASE seconds # 0
  BY <1>1, ToWarmupGood DEF DoWarmup, NoWait
<1>2. CASE seconds = 0 /\ CanWarmup(r)
  BY <1>2, StartMatchGood DEF DoWarmup
<1>3. CASE seconds = 0 /\ ~CanWarmup(r)
  BY <1>3 DEF DoWarmup
<1> QED BY <1>1, <1>2, <1>3

LEMMA TryWarmupGood ==
    ASSUME NEW r, GoodRoom(r), NEW fallback \in BOOLEAN, NEW m \in SUBSET Players
    PROVE  LET s == TryWarmup(r, fallback, m) IN GoodRoom(s) /\ NoWait(s)
<1> DEFINE q == SetPlayersReadyState(r, TRUE)
<1>1. CASE r.state \notin Warmups \/ r.timer # TIMER_INFINITE
  BY <1>1 DEF TryWarmup, NoWait, GoodRoom, Patient, Warmups
<1>2. CASE /\ r.state \in Warmups /\ r.timer = TIMER_INFINITE
           /\ ~HasEnoughPlayers(r)
  <2>1. GoodRoom(q) /\ SameGame(r, q)
    BY GoodType, SetPlayersReadyStateSame, SameGameGood
  <2>2. TryWarmup(r, fallback, m) = IF fallback THEN WaitForPlayers(q) ELSE r
    BY <1>2 DEF TryWarmup
  <2> HIDE DEF q
  <2> QED BY <1>2, <2>1, <2>2, WaitForPlayersGood
          DEF NoWait, SameGame, SameTeams, HasEnoughPlayers
<1>3. CASE /\ r.state \in Warmups /\ r.timer = TIMER_INFINITE
           /\ HasEnoughPlayers(r)
  <2>1. CanWarmup(r) /\ r.cfg.warmup \in Seconds /\ TIMER_INFINITE \in Seconds
    BY <1>3, GoodType DEF CanWarmup, Config, Seconds
  <2>2. CASE ~ReadyToStart(r)
    BY <1>3, <2>1, <2>2, DoWarmupGood DEF TryWarmup
  <2>3. CASE ReadyToStart(r)
    BY <1>3, <2>1, <2>3, ToWarmupGood DEF TryWarmup, NoWait
  <2> QED BY <2>2, <2>3
<1> QED BY <1>1, <1>2, <1>3

LEMMA ResetMatchGood ==
    ASSUME NEW r, GoodRoom(r), NEW m \in SUBSET Players
    PROVE  LET s == ResetMatch(r, m) IN GoodRoom(s) /\ NoWait(s)
<1> DEFINE g == ResetGame(r, m)
           new == [g EXCEPT !.fresh = TRUE, !.suddenDeath = FALSE]
<1>1. GoodRoom(g)
  BY ResetGameGood
<1>2. ResetMatch(r, m) = TryWarmup(WaitForPlayers(new), FALSE, m)
  BY DEF ResetMatch
<1> HIDE DEF g
<1>3. GoodRoom(new)
  BY <1>1 DEF GoodRoom, Room, Patient, Coherent
<1> HIDE DEF new
<1>4. GoodRoom(WaitForPlayers(new))
  BY <1>3, WaitForPlayersGood
<1> QED BY <1>2, <1>4, TryWarmupGood

LEMMA TryStartWarmupGood ==
    ASSUME NEW r, GoodRoom(r), NEW fallback \in BOOLEAN, NEW m \in SUBSET Players
    PROVE  LET s == TryStartWarmup(r, fallback, m) IN GoodRoom(s) /\ NoWait(s)
BY ResetMatchGood, TryWarmupGood DEF TryStartWarmup

LEMMA CheckReadyStatesGood ==
    ASSUME NEW r, GoodRoom(r), NEW without, NEW m \in SUBSET Players
    PROVE  LET s == CheckReadyStates(r, without, m)
           IN  GoodRoom(s) /\ (NoWait(r) => NoWait(s))
<1>1. r.cfg.warmup \in Seconds /\ 0 \in Seconds
  BY GoodType DEF Config, Seconds
<1>2. GoodRoom(DoWarmup(r, r.cfg.warmup, m))
      /\ (NoWait(r) => NoWait(DoWarmup(r, r.cfg.warmup, m)))
  BY <1>1, DoWarmupGood
<1>3. GoodRoom(ToPaused(r, 0)) /\ (NoWait(r) => NoWait(ToPaused(r, 0)))
  BY <1>1, ToPausedGood DEF NoWait
<1> QED BY <1>2, <1>3 DEF CheckReadyStates

LEMMA DoTeamChangeGood ==
    ASSUME NEW r, GoodRoom(r), NEW p \in Players, NEW t \in Teams,
           NEW m \in SUBSET Players
    PROVE  LET s == DoTeamChange(r, p, t, m)
           IN  GoodRoom(s) /\ (NoWait(r) => NoWait(s))
<1> DEFINE moved == SwitchTeams(r, One(p, t))
           checked == CheckReadyStates(moved, {}, m)
<1>1. One(p, t) \in [{p} -> Teams] /\ {p} \in SUBSET Players
  BY DEF One
<1>2. moved \in Room /\ SameState(r, moved)
  BY <1>1, GoodType, SwitchTeamsSame
<1>3. GoodRoom(moved)
  BY <1>2, SameStateGood
<1> HIDE DEF moved
<1>4. GoodRoom(checked)
  BY <1>3, CheckReadyStatesGood
<1> HIDE DEF checked
<1>5. GoodRoom(TryStartWarmup(checked, TRUE, m))
      /\ NoWait(TryStartWarmup(checked, TRUE, m))
  BY <1>4, TryStartWarmupGood
<1> QED BY <1>5 DEF DoTeamChange, moved, checked

-----------------------------------------------------------------------------
(* The actions of the players.                                             *)

\* Updates of the player p or of the fields that the invariant does not read
LEMMA OnePlayerUpdate ==
    ASSUME NEW r, GoodRoom(r), NEW p \in Players, NEW q \in Player
    PROVE  LET s == [r EXCEPT !.players[p] = q]
           IN  GoodRoom(s) /\ SameGame(r, s) /\ (NoWait(r) => NoWait(s))
<1>1. [r.players EXCEPT ![p] = q] \in [Players -> Player]
  BY DEF GoodRoom, Room
<1> DEFINE s == [r EXCEPT !.players[p] = q]
<1>2. s \in Room /\ SameGame(r, s)
  BY <1>1, PlayersUpdate DEF GoodRoom
<1> QED BY <1>2, SameGameGood

LEMMA AbsentType == Absent \in Player
BY DEF Absent, Player

LEMMA GetStartTeamType == GetStartTeam(room) \in Teams
BY DEF GetStartTeam, Other

LEMMA JoinInv ==
    ASSUME Inv, NEW p \in Players, Join(p)
    PROVE  Inv'
<1>1. PICK t \in Teams, m \in SUBSET Players :
        room' = TryStartWarmup(
                  Respawn(SwitchTeams([room EXCEPT !.players[p] =
                            [Absent EXCEPT !.inRoom = TRUE,
                               !.ready = ~IsPlayerReadyMode(room),
                               !.noRespawn = GetStartRespawnState(room)]],
                            One(p, t)), {p}), FALSE, m)
  BY GetStartTeamType, MoversType DEF Join
<1> DEFINE ready == ~IsPlayerReadyMode(room)
           respawn == GetStartRespawnState(room)
           new == [Absent EXCEPT !.inRoom = TRUE, !.ready = ready,
                                 !.noRespawn = respawn]
           in == [room EXCEPT !.players[p] = new]
           entered == SwitchTeams(in, One(p, t))
           back == Respawn(entered, {p})
<1>2. ready \in BOOLEAN /\ respawn \in BOOLEAN
  BY GetStartRespawnStateType
<1>3. room' = TryStartWarmup(back, FALSE, m)
  BY <1>1
<1> HIDE DEF ready, respawn
<1>4. new \in Player
  BY <1>2, AbsentType DEF Player
<1> HIDE DEF new
<1>5. GoodRoom(in)
  BY <1>4, OnePlayerUpdate DEF Inv
<1> HIDE DEF in
<1>6. One(p, t) \in [{p} -> Teams] /\ {p} \in SUBSET Players
  BY DEF One
<1>7. GoodRoom(entered)
  BY <1>5, <1>6, GoodType, SwitchTeamsSame, SameStateGood
<1> HIDE DEF entered
<1>8. GoodRoom(back)
  BY <1>7, GoodType, RespawnSame, SameGameGood
<1> HIDE DEF back
<1> QED BY <1>3, <1>8, TryStartWarmupGood DEF Inv

LEMMA LeaveInv ==
    ASSUME Inv, NEW p \in Players, Leave(p)
    PROVE  Inv'
<1> DEFINE left == LeaveTeam(room, room.players[p].team)
<1>1. PICK m \in SUBSET Players :
        room' = [TryStartWarmup(CheckReadyStates(left, {p}, m), TRUE, m)
                   EXCEPT !.players[p] = Absent]
  BY MoversType DEF Leave
<1>2. GoodRoom(left)
  <2> DEFINE t == room.players[p].team
             u == [room EXCEPT !.size = [room.size EXCEPT ![t] = @ - 1],
                               !.unbalanced = "check"]
  <2>1. GoodRoom(room) /\ t \in Teams
    BY PlayerType DEF Inv, GoodRoom
  <2>2. left = IF t = TEAM_SPECTATORS THEN room ELSE u
    BY DEF LeaveTeam
  <2> HIDE DEF t
  <2>3. CASE t \in Sides
    <3>1. [room.size EXCEPT ![t] = @ - 1] \in [Sides -> Int]
      BY <2>1, <2>3 DEF GoodRoom, Room
    <3>2. u \in Room /\ SameState(room, u)
      BY <2>1, <3>1 DEF GoodRoom, Room, SameState
    <3> QED BY <2>1, <2>2, <2>3, <3>2, SameStateGood
  <2> QED BY <2>1, <2>2, <2>3
<1> HIDE DEF left
<1> DEFINE s == TryStartWarmup(CheckReadyStates(left, {p}, m), TRUE, m)
<1>3. GoodRoom(CheckReadyStates(left, {p}, m))
  BY <1>2, CheckReadyStatesGood
<1>4. GoodRoom(s) /\ NoWait(s)
  BY <1>3, TryStartWarmupGood
<1>5. room' = [s EXCEPT !.players[p] = Absent]
  BY <1>1
<1> HIDE DEF s
<1> QED BY <1>4, <1>5, OnePlayerUpdate, AbsentType DEF Inv

LEMMA DoTeamChangesInv ==
    ASSUME Inv, NEW p \in Players, NEW t \in Teams, DoTeamChanges(p, t)
    PROVE  Inv'
<1>1. PICK m \in SUBSET Players : room' = DoTeamChange(room, p, t, m)
  BY MoversType DEF DoTeamChanges
<1> QED BY <1>1, DoTeamChangeGood DEF Inv

LEMMA RequestPauseInv ==
    ASSUME Inv, NEW p \in Players, RequestPause(p)
    PROVE  Inv'
<1> DEFINE q == room.players[p]
           n == IF room.cfg.pausePerMatch = 0 THEN q.pauses ELSE q.pauses + 1
           s == [room EXCEPT !.players[p] = [q EXCEPT !.pauses = n]]
<1>1. [q EXCEPT !.pauses = n] \in Player
  BY PlayerType DEF Inv, GoodRoom, Player
<1>2. GoodRoom(s) /\ NoWait(s)
  BY <1>1, OnePlayerUpdate DEF Inv
<1>3. room' = [s EXCEPT !.pauseRequested = TRUE]
  BY DEF RequestPause, Inv, GoodRoom, Room
<1> HIDE DEF s
<1> QED BY <1>2, <1>3 DEF Inv, GoodRoom, Room, Patient, Coherent, NoWait,
                          HasEnoughPlayers

LEMMA ToggleReadyInv ==
    ASSUME Inv, NEW p \in Players, ToggleReady(p)
    PROVE  Inv'
<1> DEFINE q == room.players[p]
           b == ~q.ready
           s == [room EXCEPT !.players[p] = [q EXCEPT !.ready = b]]
<1>1. PICK m \in SUBSET Players : room' = CheckReadyStates(s, {}, m)
  BY MoversType DEF ToggleReady, Inv, GoodRoom, Room
<1>2. b \in BOOLEAN
  OBVIOUS
<1>3. q \in Player
  BY PlayerType DEF Inv, GoodRoom
<1> HIDE DEF q, b
<1>4. [q EXCEPT !.ready = b] \in Player
  BY <1>2, <1>3, PlayerFields
<1>5. GoodRoom(s) /\ NoWait(s)
  BY <1>4, OnePlayerUpdate DEF Inv
<1> HIDE DEF s
<1> QED BY <1>1, <1>5, CheckReadyStatesGood DEF Inv

LEMMA AskRespawnInv ==
    ASSUME Inv, NEW p \in Players, AskRespawn(p)
    PROVE  Inv'
BY RespawnSame, SameGameGood DEF AskRespawn, Inv, GoodRoom

LEMMA SpawnInv ==
    ASSUME Inv, NEW p \in Players, Spawn(p)
    PROVE  Inv'
<1> DEFINE b == GetStartRespawnState(room)
           q == [room.players[p] EXCEPT !.alive = TRUE, !.spawning = FALSE,
                                        !.deadSpec = FALSE, !.noRespawn = b]
<1>1. room' = [room EXCEPT !.players[p] = q]
  BY DEF Spawn
<1>2. b \in BOOLEAN
  BY GetStartRespawnStateType
<1> HIDE DEF b
<1>3. room.players[p] \in Player
  BY PlayerType DEF Inv, GoodRoom
<1>4. q \in Player
  BY <1>2, <1>3 DEF Player
<1> HIDE DEF q
<1> QED BY <1>1, <1>4, OnePlayerUpdate DEF Inv

LEMMA DieInv ==
    ASSUME Inv, NEW p \in Players, Die(p)
    PROVE  Inv'
<1> DEFINE killed == KillCharacters(room, {p})
           b(x) == killed.players[x].deadSpec /\ CanFollow(killed, x)
           f == [x \in Players |-> [killed.players[x] EXCEPT !.deadSpec = b(x)]]
<1>1. GoodRoom(killed) /\ NoWait(killed)
  BY KillCharactersSame, SameGameGood DEF Inv, GoodRoom
<1>2. room' = killed \/ room' = [killed EXCEPT !.players = f]
  BY DEF Die
<1>3. ASSUME NEW x \in Players PROVE b(x) \in BOOLEAN
  OBVIOUS
<1> HIDE DEF killed, b
<1>4. f \in [Players -> Player]
  BY <1>1, <1>3, PlayerType, PlayerFields DEF GoodRoom
<1> HIDE DEF f
<1>5. LET s == [killed EXCEPT !.players = f] IN s \in Room /\ SameGame(killed, s)
  BY <1>1, <1>4, PlayersUpdate DEF GoodRoom
<1> QED BY <1>1, <1>2, <1>5, SameGameGood DEF Inv

-----------------------------------------------------------------------------
(* The console.                                                            *)

LEMMA ArgsType ==
    /\ Args.seconds \subseteq Seconds
    /\ Args.minimumPlayers \subseteq Nat
    /\ Args.countdown \subseteq Int
    /\ Args.readyMode \subseteq 0..3
BY MatchAssumption

LEMMA PauseInv ==
    ASSUME Inv, NEW seconds \in Args.seconds, Pause(seconds)
    PROVE  Inv'
BY ArgsType, ToPausedGood DEF Pause, Inv, NoWait

LEMMA RestartInv ==
    ASSUME Inv, NEW seconds \in Args.seconds, Restart(seconds)
    PROVE  Inv'
<1>1. CASE seconds < 0
  BY <1>1, ToRunningGood DEF Restart, Inv, NoWait
<1>2. CASE ~(seconds < 0)
  BY <1>2, ArgsType, MoversType, DoWarmupGood DEF Restart, Inv
<1> QED BY <1>1, <1>2

LEMMA ConfigUpdate ==
    ASSUME NEW r, GoodRoom(r), NEW c \in Config
    PROVE  GoodRoom([r EXCEPT !.cfg = c])
BY DEF GoodRoom, Room, Patient, Coherent

LEMMA SetMinimumPlayersInv ==
    ASSUME Inv, NEW n \in Args.minimumPlayers, SetMinimumPlayers(n)
    PROVE  Inv'
<1> DEFINE c == [room.cfg EXCEPT !.minimumPlayers = n]
           set == [room EXCEPT !.cfg = c]
<1>1. PICK m \in SUBSET Players : room' = TryStartWarmup(set, TRUE, m)
  BY MoversType DEF SetMinimumPlayers, Inv, GoodRoom, Room
<1>2. c \in Config
  BY ArgsType, GoodType DEF Inv, Config
<1>3. GoodRoom(set)
  BY <1>2, ConfigUpdate DEF Inv
<1> QED BY <1>1, <1>3, TryStartWarmupGood DEF Inv

LEMMA SetCountdownInv ==
    ASSUME Inv, NEW seconds \in Args.countdown, SetCountdown(seconds)
    PROVE  Inv'
<1> DEFINE c == [room.cfg EXCEPT !.countdown = seconds]
           set == [room EXCEPT !.cfg = c]
<1>1. room' = ToCountdown(set) \/ room' = set
  BY DEF SetCountdown
<1>2. c \in Config
  BY ArgsType, GoodType DEF Inv, Config
<1>3. GoodRoom(set)
  BY <1>2, ConfigUpdate DEF Inv
<1>4. NoWait(set)
  BY GoodType DEF Inv, NoWait, HasEnoughPlayers, GoodRoom, Room, Config
<1> HIDE DEF set
<1> QED BY <1>1, <1>3, <1>4, ToCountdownGood DEF Inv, NoWait

LEMMA SetPlayerReadyModeInv ==
    ASSUME Inv, NEW mode \in Args.readyMode, SetPlayerReadyMode(mode)
    PROVE  Inv'
<1> DEFINE c == [room.cfg EXCEPT !.readyMode = mode]
           set == [room EXCEPT !.cfg = c]
<1>1. room' = set
  BY DEF SetPlayerReadyMode
<1>2. c \in Config
  BY ArgsType, GoodType DEF Inv, Config
<1>3. GoodRoom(set)
  BY <1>2, ConfigUpdate DEF Inv
<1>4. NoWait(set)
  BY GoodType DEF Inv, NoWait, HasEnoughPlayers, GoodRoom, Room, Config
<1> QED BY <1>1, <1>3, <1>4 DEF Inv

LEMMA ClampTeamType ==
    ASSUME NEW t \in Teams
    PROVE  ClampTeam(t) \in Teams
BY DEF ClampTeam

LEMMA MovePlayersInv ==
    ASSUME Inv, NEW P \in SUBSET Players,
           NEW to \in [P -> Teams \cup {OppositeTeam}], MovePlayers(to)
    PROVE  Inv'
<1> DEFINE t(p) == IF p \in DOMAIN to THEN to[p] ELSE NoTeam
           f == [p \in Players |-> [room.players[p] EXCEPT !.toTeam = t(p)]]
           s == [room EXCEPT !.players = f]
<1>1. ASSUME NEW p \in Players PROVE t(p) \in Teams \cup {NoTeam, OppositeTeam}
  OBVIOUS
<1> HIDE DEF t
<1>2. ASSUME NEW p \in Players
      PROVE  [room.players[p] EXCEPT !.toTeam = t(p)] \in Player
  <2>1. room.players[p] \in Player
    BY PlayerType DEF Inv, GoodRoom
  <2> QED BY <1>1, <2>1 DEF Player
<1>3. f \in [Players -> Player]
  BY <1>2
<1>4. room' = [s EXCEPT !.loop = "command"]
  BY DEF MovePlayers, t, Inv, GoodRoom, Room
<1> HIDE DEF f
<1>5. s \in Room /\ SameGame(room, s)
  BY <1>3, PlayersUpdate DEF Inv, GoodRoom
<1>6. GoodRoom(s) /\ NoWait(s)
  BY <1>5, SameGameGood DEF Inv
<1> HIDE DEF s
<1> QED BY <1>4, <1>6 DEF Inv, GoodRoom, Room, Patient, Coherent, NoWait,
                          HasEnoughPlayers

LEMMA TeamCommandsInv ==
    ASSUME Inv,
           SwapTeams \/ ShuffleTeams \/ \E t \in Teams : SetTeamAll(t)
    PROVE  Inv'
<1>1. CASE SwapTeams
  <2> DEFINE to == [p \in Active(room) |-> OppositeTeam]
  <2>1. MovePlayers(to)
    BY <1>1 DEF SwapTeams
  <2>2. to \in [Active(room) -> Teams \cup {OppositeTeam}]
        /\ Active(room) \in SUBSET Players
    BY DEF Active, InRoom
  <2> HIDE DEF to
  <2> QED BY <2>1, <2>2, MovePlayersInv
<1>2. CASE ShuffleTeams
  <2>1. PICK to \in Shuffled(room) : MovePlayers(to)
    BY <1>2 DEF ShuffleTeams
  <2>2. to \in [Active(room) -> Teams \cup {OppositeTeam}]
        /\ Active(room) \in SUBSET Players
    BY DEF Shuffled, Active, InRoom
  <2> QED BY <2>1, <2>2, MovePlayersInv
<1>3. CASE \E t \in Teams : SetTeamAll(t)
  <2>1. PICK t \in Teams : SetTeamAll(t)
    BY <1>3
  <2> DEFINE to == [p \in InRoom(room) |-> ClampTeam(t)]
  <2>2. MovePlayers(to)
    BY <2>1 DEF SetTeamAll
  <2>3. to \in [InRoom(room) -> Teams \cup {OppositeTeam}]
        /\ InRoom(room) \in SUBSET Players
    BY ClampTeamType DEF InRoom
  <2> HIDE DEF to
  <2> QED BY <2>2, <2>3, MovePlayersInv
<1> QED BY <1>1, <1>2, <1>3

\* The bookkeeping of the loops
LEMMA LoopUpdate ==
    ASSUME NEW r, GoodRoom(r), NEW l \in {"none", "command", "balance"},
           NEW n \in Nat, NEW b \in Sides, NEW u \in {"ok", "check", "since"}
    PROVE  LET s == [r EXCEPT !.loop = l, !.numBalance = n, !.bigger = b,
                              !.unbalanced = u]
           IN  GoodRoom(s) /\ (NoWait(r) => NoWait(s))
BY ZenonT(60) DEF GoodRoom, Room, Patient, Coherent, NoWait, HasEnoughPlayers

LEMMA CommandStepInv ==
    ASSUME Inv, CommandStep
    PROVE  Inv'
<1> DEFINE pending == {p \in Players : room.players[p].toTeam # NoTeam}
           target(p) == IF room.players[p].toTeam = OppositeTeam
                        THEN Other(room.players[p].team)
                        ELSE room.players[p].toTeam
<1>1. PICK p \in pending, m \in SUBSET Players :
        room' = [DoTeamChange(room, p, target(p), m) EXCEPT
                   !.players[p].toTeam = NoTeam,
                   !.loop = IF pending = {p} THEN "none" ELSE @]
  BY ZenonT(60), MoversType DEF CommandStep
<1> DEFINE d == DoTeamChange(room, p, target(p), m)
           q == [d.players[p] EXCEPT !.toTeam = NoTeam]
           e == [d EXCEPT !.players[p] = q]
           l == IF pending = {p} THEN "none" ELSE d.loop
<1>2. p \in Players /\ room.players[p] \in Player
  BY PlayerType DEF Inv, GoodRoom
<1>3. target(p) \in Teams
  BY <1>2 DEF Player, Other
<1> HIDE DEF target
<1>4. GoodRoom(d) /\ NoWait(d)
  BY <1>2, <1>3, DoTeamChangeGood DEF Inv
<1> HIDE DEF d
<1>5. d.players[p] \in Player
  BY <1>2, <1>4, PlayerType DEF GoodRoom
<1>6. q \in Player
  BY <1>5 DEF Player
<1>7. GoodRoom(e) /\ NoWait(e)
  BY <1>2, <1>4, <1>6, OnePlayerUpdate
<1>8. l \in {"none", "command", "balance"}
  BY <1>4 DEF GoodRoom, Room
<1>9. room' = [e EXCEPT !.loop = l]
  BY <1>1, <1>4 DEF d, GoodRoom, Room
<1> HIDE DEF e, l
<1> QED BY <1>7, <1>8, <1>9 DEF Inv, GoodRoom, Room, Patient, Coherent, NoWait,
                                HasEnoughPlayers

-----------------------------------------------------------------------------
(* Ticks.                                                                  *)

LEMMA PauseIfRequestedGood ==
    ASSUME NEW r, GoodRoom(r), NoWait(r)
    PROVE  LET s == PauseIfRequested(r) IN GoodRoom(s) /\ NoWait(s)
<1> DEFINE u == ToPaused(r, TIMER_INFINITE)
<1>1. TIMER_INFINITE \in Seconds
  BY DEF Seconds
<1>2. GoodRoom(u) /\ NoWait(u)
  BY <1>1, ToPausedGood DEF NoWait
<1> DEFINE v == [u EXCEPT !.pauseRequested = FALSE]
<1>3. PauseIfRequested(r) = IF r.pauseRequested THEN v ELSE r
  BY DEF PauseIfRequested
<1> HIDE DEF u
<1>4. GoodRoom(v) /\ NoWait(v)
  BY ZenonT(60), <1>2 DEF GoodRoom, Room, Patient, Coherent, NoWait, HasEnoughPlayers
<1> QED BY <1>3, <1>4

LEMMA RematchesType ==
    ASSUME NEW r \in Room, NEW teams \in Rematches(r)
    PROVE  /\ DOMAIN teams \in SUBSET Players
           /\ teams \in [DOMAIN teams -> Teams]
           /\ r.state # END_MATCH => teams = Nobody
<1>1. /\ DOMAIN Nobody \in SUBSET Players
      /\ Nobody \in [DOMAIN Nobody -> Teams]
  BY DEF Nobody
<1>2. /\ DOMAIN Swapped(r) \in SUBSET Players
      /\ Swapped(r) \in [DOMAIN Swapped(r) -> Teams]
  BY DEF Swapped, Active, InRoom, Other
<1>3. ASSUME NEW to \in Shuffled(r)
      PROVE  /\ DOMAIN to \in SUBSET Players
             /\ to \in [DOMAIN to -> Teams]
  BY DEF Shuffled, Active, InRoom
<1>4. r.cfg.matchSwap \in 0..2
  BY DEF Room, Config
<1> QED BY <1>1, <1>2, <1>3, <1>4 DEF Rematches

LEMMA TimerFiresGood ==
    ASSUME NEW r, GoodRoom(r), NoWait(r), NEW m \in SUBSET Players,
           NEW P \in SUBSET Players, NEW teams \in [P -> Teams]
    PROVE  LET s == TimerFires(r, teams, m) IN GoodRoom(s) /\ NoWait(s)
<1> DEFINE switched == SwitchTeams(r, teams)
<1>1. GoodRoom(switched)
  BY GoodType, SwitchTeamsSame, SameStateGood
<1> HIDE DEF switched
<1>2. CASE r.state = END_MATCH
  BY <1>1, <1>2, ResetMatchGood, StartMatchGood DEF TimerFires, switched
<1>3. CASE r.state # END_MATCH
  BY <1>3, StartMatchGood, ToRunningGood, ToCountdownGood, StartRoundGood
     DEF TimerFires, NoWait
<1> QED BY <1>2, <1>3

LEMMA TimersGood ==
    ASSUME NEW r, GoodRoom(r), NoWait(r), NEW m \in SUBSET Players,
           NEW P \in SUBSET Players, NEW teams \in [P -> Teams]
    PROVE  LET s == Timers(r, teams, m) IN GoodRoom(s) /\ NoWait(s)
<1> DEFINE left == IF r.timer > 0 THEN r.timer - 1 ELSE r.timer
           b == r.fresh /\ left # 0 /\ r.state \in Frozen
           next == [r EXCEPT !.timer = left, !.fresh = b]
<1>1. left \in Seconds /\ (r.timer = TIMER_INFINITE => left = TIMER_INFINITE)
  BY GoodType DEF Seconds
<1>2. Timers(r, teams, m) =
        IF left = 0 THEN TimerFires(next, teams, m)
        ELSE IF /\ r.state = WARMUP_USER /\ left = TIMER_INFINITE
                /\ ~ReadyToStart(r)
        THEN DoWarmup(next, r.cfg.warmup, m)
        ELSE next
  BY DEF Timers
<1>3. b \in BOOLEAN
  OBVIOUS
<1> HIDE DEF left, b
<1>4. GoodRoom(next) /\ NoWait(next)
  BY <1>1, <1>3 DEF GoodRoom, Room, Patient, Coherent, NoWait, HasEnoughPlayers
<1> HIDE DEF next
<1>5. r.cfg.warmup \in Seconds
  BY GoodType DEF Config, Seconds
<1> QED BY <1>2, <1>4, <1>5, TimerFiresGood, DoWarmupGood

LEMMA TimedRoomsGood ==
    ASSUME Inv, NEW r \in TimedRooms
    PROVE  GoodRoom(r) /\ NoWait(r)
<1>1. PICK teams \in Rematches(room) :
      \E m \in Movers(SwitchTeams(room, teams)) :
        r = Timers(PauseIfRequested(room), teams, m)
  BY DEF TimedRooms
<1>2. PICK m \in SUBSET Players : r = Timers(PauseIfRequested(room), teams, m)
  BY <1>1, MoversType
<1>3. /\ DOMAIN teams \in SUBSET Players
      /\ teams \in [DOMAIN teams -> Teams]
  BY RematchesType DEF Inv, GoodRoom
<1> QED BY <1>2, <1>3, PauseIfRequestedGood, TimersGood DEF Inv

LEMMA CheckTeamBalanceGood ==
    ASSUME NEW r, GoodRoom(r), NoWait(r)
    PROVE  LET s == CheckTeamBalance(r) IN GoodRoom(s) /\ NoWait(s)
<1> DEFINE u == IF NeedsBalance(r) THEN "since" ELSE "ok"
<1>1. CheckTeamBalance(r) = r \/ CheckTeamBalance(r) = [r EXCEPT !.unbalanced = u]
  BY DEF CheckTeamBalance
<1>2. u \in {"ok", "check", "since"}
  OBVIOUS
<1> HIDE DEF u
<1> QED BY <1>1, <1>2 DEF GoodRoom, Room, Patient, Coherent, NoWait,
                          HasEnoughPlayers

LEMMA WinCheckGood ==
    ASSUME NEW r, GoodRoom(r), NoWait(r), NEW timeUp, NEW outcome \in Outcomes
    PROVE  LET s == WinCheck(r, timeUp, outcome) IN GoodRoom(s) /\ NoWait(s)
BY DoWincheckMatchGood, EndRoundGood
   DEF WinCheck, NoWait, SameTeams, HasEnoughPlayers

LEMMA WorldTickGood ==
    ASSUME NEW r, GoodRoom(r), NoWait(r)
    PROVE  LET s == WorldTick(r) IN GoodRoom(s) /\ NoWait(s)
<1> DEFINE b(p) == r.players[p].noRespawn /\ p \notin InRoom(r)
           f == [p \in Players |-> [r.players[p] EXCEPT !.alive = FALSE,
                                                        !.noRespawn = b(p)]]
           s == [r EXCEPT !.players = f]
           cleared == [r EXCEPT !.resetRequested = FALSE, !.players = f]
<1>1. WorldTick(r) = IF r.resetRequested THEN Respawn(cleared, InRoom(r)) ELSE r
  BY DEF WorldTick
<1>2. ASSUME NEW p \in Players PROVE b(p) \in BOOLEAN
  OBVIOUS
<1> HIDE DEF b
<1>3. ASSUME NEW p \in Players
      PROVE  [r.players[p] EXCEPT !.alive = FALSE, !.noRespawn = b(p)] \in Player
  <2>1. r.players[p] \in Player
    BY PlayerType DEF GoodRoom
  <2> QED BY <1>2, <2>1 DEF Player
<1>4. f \in [Players -> Player]
  BY <1>3
<1> HIDE DEF f
<1>5. cleared \in Room /\ SameGame(r, cleared)
  BY <1>4 DEF GoodRoom, Room, SameGame, SameTeams
<1>6. GoodRoom(cleared) /\ NoWait(cleared)
  BY <1>5, SameGameGood
<1> HIDE DEF cleared
<1>7. Respawn(cleared, InRoom(r)) \in Room
      /\ SameGame(cleared, Respawn(cleared, InRoom(r)))
  BY <1>5, RespawnSame
<1> QED BY <1>1, <1>6, <1>7, SameGameGood

LEMMA EndTickInv ==
    ASSUME NEW r, GoodRoom(r), NoWait(r), EndTick(r)
    PROVE  Inv'
<1>1. PICK outcome \in Outcomes :
        \E timeUp : room' = WorldTick(WinCheck(r, timeUp, outcome))
  BY DEF EndTick, Outcomes
<1> QED BY <1>1, WinCheckGood, WorldTickGood DEF Inv

LEMMA TickInv ==
    ASSUME Inv, Tick
    PROVE  Inv'
<1>1. PICK r \in TimedRooms : EndTick(CheckTeamBalance(r))
  BY DEF Tick
<1> QED BY <1>1, TimedRoomsGood, CheckTeamBalanceGood, EndTickInv

LEMMA TickBalancesInv ==
    ASSUME Inv, TickBalances
    PROVE  Inv'
<1>1. PICK r \in TimedRooms :
        room' = [r EXCEPT !.loop = "balance", !.bigger = BiggerSide(r),
                          !.numBalance = Difference(r) \div 2]
        /\ BalanceDue(r)
  BY DEF TickBalances
<1>2. GoodRoom(r) /\ NoWait(r)
  BY <1>1, TimedRoomsGood
<1> DEFINE n == Difference(r) \div 2
           b == BiggerSide(r)
<1>3. n \in Nat
  <2>1. Difference(r) \in Int /\ Difference(r) >= 2
    BY <1>1, <1>2 DEF BalanceDue, NeedsBalance, Difference, BiggerSide, Other,
                      GoodRoom, Room
  <2> QED BY <2>1
<1>4. b \in Sides
  BY BiggerSideType
<1>5. r.unbalanced \in {"ok", "check", "since"}
  BY <1>2 DEF GoodRoom, Room
<1> HIDE DEF n, b
<1>6. room' = [r EXCEPT !.loop = "balance", !.numBalance = n, !.bigger = b,
                        !.unbalanced = r.unbalanced]
  BY <1>1, <1>2 DEF n, b, GoodRoom, Room
<1> QED BY <1>2, <1>3, <1>4, <1>5, <1>6, LoopUpdate DEF Inv

LEMMA PassDoneInv ==
    ASSUME Inv, NEW r, GoodRoom(r), NoWait(r), PassDone(r)
    PROVE  Inv'
<1> DEFINE n == room.numBalance - 1
           u == [r EXCEPT !.numBalance = n]
           v == [r EXCEPT !.loop = "none", !.numBalance = 0, !.unbalanced = "ok"]
<1>1. CASE room.numBalance > 1
  <2>1. n \in Nat
    BY <1>1 DEF Inv, GoodRoom, Room
  <2>2. room' = u
    BY <1>1 DEF PassDone
  <2> HIDE DEF n
  <2>3. GoodRoom(u) /\ NoWait(u)
    BY <2>1 DEF GoodRoom, Room, Patient, Coherent, NoWait, HasEnoughPlayers
  <2> QED BY <2>2, <2>3 DEF Inv
<1>2. CASE ~(room.numBalance > 1)
  <2>1. EndTick(v)
    BY <1>2 DEF PassDone
  <2>2. GoodRoom(v) /\ NoWait(v)
    BY DEF GoodRoom, Room, Patient, Coherent, NoWait, HasEnoughPlayers
  <2> HIDE DEF v
  <2> QED BY <2>1, <2>2, EndTickInv
<1> QED BY <1>1, <1>2

LEMMA BalanceStepInv ==
    ASSUME Inv, BalanceStep
    PROVE  Inv'
<1>1. CASE PassDone(room)
  BY <1>1, PassDoneInv DEF Inv
<1>2. CASE ~PassDone(room)
  <2> DEFINE to == Other(room.bigger)
  <2>1. PICK p \in Players, m \in SUBSET Players :
          PassDone(DoTeamChange(room, p, to, m))
    BY <1>2, MoversType DEF BalanceStep, Side, InRoom
  <2>2. to \in Teams
    BY DEF Other
  <2> HIDE DEF to
  <2> QED BY <2>1, <2>2, DoTeamChangeGood, PassDoneInv DEF Inv
<1> QED BY <1>1, <1>2

-----------------------------------------------------------------------------
(* Creation and reloads.                                                   *)

LEMMA FinishSetupInv ==
    ASSUME Inv, FinishSetup
    PROVE  Inv'
BY DEF FinishSetup, Inv, GoodRoom, Room, Patient, Coherent, NoWait,
       HasEnoughPlayers

LEMMA LoadTickInv ==
    ASSUME Inv, LoadTick
    PROVE  Inv'
BY DEF LoadTick, Inv, GoodRoom, Room, Patient, Coherent, NoWait,
       HasEnoughPlayers

\* Only here the coherence needs "map" \notin Commands.
LEMMA SoftReloadInv ==
    ASSUME Inv, SoftReload
    PROVE  Inv'
<1> DEFINE killed == KillCharacters(room, InRoom(room))
<1>1. GoodRoom(killed) /\ NoWait(killed)
  BY KillCharactersSame, SameGameGood DEF Inv, GoodRoom
<1>2. /\ "map" \in Commands
      /\ room' = [killed EXCEPT !.phase = "load", !.paused = FALSE,
                     !.resetRequested = FALSE, !.pauseRequested = FALSE,
                     !.fresh = TRUE]
  BY DEF SoftReload
<1> HIDE DEF killed
<1> QED BY ZenonT(60), <1>1, <1>2 DEF Inv, GoodRoom, Room, Patient, NoWait, HasEnoughPlayers

LEMMA StartControllerInv ==
    ASSUME Inv, StartController
    PROVE  Inv'
<1> DEFINE started == [room EXCEPT !.phase = "run", !.suddenDeath = FALSE,
                                   !.fresh = TRUE]
<1>1. PICK m \in SUBSET Players :
        room' = TryStartWarmup(WaitForPlayers(started), FALSE, m)
  BY MoversType DEF StartController
<1>2. GoodRoom(started)
  BY DEF Inv, GoodRoom, Room, Patient, Coherent
<1> HIDE DEF started
<1>3. GoodRoom(WaitForPlayers(started))
  BY <1>2, WaitForPlayersGood
<1> QED BY <1>1, <1>3, TryStartWarmupGood DEF Inv

-----------------------------------------------------------------------------
(* The theorems.                                                           *)

LEMMA InitInv == Init => Inv
<1> SUFFICES ASSUME Init PROVE Inv
  OBVIOUS
<1> DEFINE players == [p \in Players |-> Absent]
           size == [t \in Sides |-> 0]
<1>1. PICK c \in Configs, s \in {GAME_RUNNING, WARMUP_GAME} :
        room = [phase |-> "setup", cfg |-> c, state |-> s,
                timer |-> TIMER_INFINITE, paused |-> FALSE,
                resetRequested |-> s = WARMUP_GAME, pauseRequested |-> FALSE,
                suddenDeath |-> FALSE, fresh |-> TRUE, size |-> size,
                unbalanced |-> "ok", players |-> players,
                loop |-> "none", numBalance |-> 0, bigger |-> TEAM_RED]
  BY DEF Init
<1>2. players \in [Players -> Player] /\ size \in [Sides -> Int]
  BY AbsentType
<1>3. c \in Config /\ c.minimumPlayers \in Nat
  BY MatchAssumption DEF Config
<1>4. size[TEAM_RED] = 0 /\ size[TEAM_BLUE] = 0
  OBVIOUS
<1> HIDE DEF players, size
<1>5. room \in Room
  BY <1>1, <1>2, <1>3 DEF Room, GameStates, Seconds
<1>6. Patient(room) /\ Coherent(room)
  BY <1>1 DEF Patient, Coherent, FreezingStates
<1>7. ~HasEnoughPlayers(room)
  BY <1>1, <1>3, <1>4 DEF HasEnoughPlayers
<1> QED BY <1>5, <1>6, <1>7 DEF Inv, GoodRoom, NoWait

LEMMA LoginInv ==
    ASSUME Inv, NEW p \in Players, Login(p)
    PROVE  Inv'
<1> DEFINE k == KillCharacters(room, {p})
           f == [k.players EXCEPT ![p].team = TEAM_RED]
<1>1. GoodRoom(room) /\ room \in Room
  BY GoodType DEF Inv
<1>2. k \in Room /\ SameGame(room, k)
  BY <1>1, KillCharactersSame
<1>3. f \in [Players -> Player]
  <2>1. k.players \in [Players -> Player]
    BY <1>2 DEF Room
  <2> HIDE DEF k
  <2> QED BY <2>1 DEF Player
<1>4. room' = [k EXCEPT !.players = f]
  BY <1>2 DEF Login, Room
<1> HIDE DEF k, f
<1>5. room' \in Room /\ SameGame(k, room')
  BY <1>2, <1>3, <1>4, PlayersUpdate
<1>6. SameGame(room, room')
  BY <1>2, <1>5 DEF SameGame, SameTeams
<1> QED BY <1>1, <1>5, <1>6, SameGameGood DEF Inv

LEMMA NextInv == Inv /\ [Next]_vars => Inv'
<1> SUFFICES ASSUME Inv, [Next]_vars PROVE Inv'
  OBVIOUS
<1>1. ASSUME NEW p \in Players, PlayerAction(p) PROVE Inv'
  <2>1. CASE Join(p)
    BY <2>1, JoinInv
  <2>2. CASE Leave(p)
    BY <2>2, LeaveInv
  <2>3. CASE RequestPause(p)
    BY <2>3, RequestPauseInv
  <2>4. CASE ToggleReady(p)
    BY <2>4, ToggleReadyInv
  <2>5. CASE AskRespawn(p)
    BY <2>5, AskRespawnInv
  <2>6. CASE Spawn(p)
    BY <2>6, SpawnInv
  <2>7. CASE Die(p)
    BY <2>7, DieInv
  <2>8. CASE \E t \in Teams : SetTeamMessage(p, t) \/ SetTeam(p, t)
    BY <2>8, DoTeamChangesInv DEF SetTeamMessage, SetTeam
  <2>9. CASE Login(p)
    BY <2>9, LoginInv
  <2> QED BY <1>1, <2>1, <2>2, <2>3, <2>4, <2>5, <2>6, <2>7, <2>8, <2>9
          DEF PlayerAction
<1>2. CASE ConsoleAction
  <2>1. CASE \E s \in Args.seconds : Pause(s) \/ Restart(s)
    BY <2>1, PauseInv, RestartInv
  <2>2. CASE \E n \in Args.minimumPlayers : SetMinimumPlayers(n)
    BY <2>2, SetMinimumPlayersInv
  <2>3. CASE \E s \in Args.countdown : SetCountdown(s)
    BY <2>3, SetCountdownInv
  <2>4. CASE \E mode \in Args.readyMode : SetPlayerReadyMode(mode)
    BY <2>4, SetPlayerReadyModeInv
  <2>5. CASE SwapTeams \/ ShuffleTeams \/ \E t \in Teams : SetTeamAll(t)
    BY <2>5, TeamCommandsInv
  <2> QED BY <1>2, <2>1, <2>2, <2>3, <2>4, <2>5 DEF ConsoleAction
<1>3. CASE ServerAction
  BY <1>3, CommandStepInv, TickInv, TickBalancesInv, BalanceStepInv,
     FinishSetupInv, SoftReloadInv, LoadTickInv, StartControllerInv
     DEF ServerAction
<1>4. CASE UNCHANGED vars
  BY <1>4 DEF Inv, vars
<1> QED BY <1>1, <1>2, <1>3, <1>4 DEF Next

\* Only a login is remembered, and for good.
LEMMA NextLogins ==
    ASSUME [Next]_vars
    PROVE  UNCHANGED loggedIn \/ \E p \in Players : Login(p)
<1>1. ASSUME NEW p \in Players, PlayerAction(p)
      PROVE  UNCHANGED loggedIn \/ Login(p)
  BY <1>1 DEF PlayerAction, Join, Leave, RequestPause, ToggleReady, AskRespawn,
              Spawn, Die, SetTeamMessage, SetTeam, DoTeamChanges
<1>2. CASE ConsoleAction
  BY <1>2 DEF ConsoleAction, Pause, Restart, SetMinimumPlayers, SetCountdown,
              SetPlayerReadyMode, SwapTeams, ShuffleTeams, SetTeamAll, Console
<1>3. CASE ServerAction
  BY <1>3 DEF ServerAction, CommandStep, Tick, TickBalances, BalanceStep,
              FinishSetup, SoftReload, LoadTick, StartController
<1>4. CASE UNCHANGED vars
  BY <1>4 DEF vars
<1> QED BY <1>1, <1>2, <1>3, <1>4 DEF Next

THEOREM Invariance == Spec => []Inv
<1>1. Init => Inv
  BY InitInv
<1>2. Inv /\ [Next]_vars => Inv'
  BY NextInv
<1> QED BY <1>1, <1>2, PTL DEF Spec

\* Every handler keeps the types of the room, however many players, settings
\* and commands there are.
THEOREM TypeCorrectness == Spec => []TypeOK
<1> DEFINE L == loggedIn \subseteq Accounts
<1>1. Init => L
  BY DEF Init
<1>2. L /\ [Next]_vars => L'
  BY NextLogins DEF Login
<1>3. Inv /\ L => TypeOK
  BY DEF Inv, GoodRoom, TypeOK
<1> QED BY <1>1, <1>2, <1>3, Invariance, PTL DEF Spec

\* No sequence of joins, leaves, settings, team changes, commands and reloads
\* makes a room wait for players that are there: every path that changes a
\* team's size or minimum_players ends in TryStartWarmup.
THEOREM WaitingRoomLacksPlayers == Spec => []NoWaitWithEnoughPlayers
<1>1. Inv => NoWaitWithEnoughPlayers
  BY DEF Inv, NoWait, NoWaitWithEnoughPlayers
<1> QED BY <1>1, Invariance, PTL

\* As long as nobody reloads the room, the world stands still exactly in the
\* states that freeze the game.  With reloads it is false: the
\* new world of a soft reload is not paused.
THEOREM WorldFollowsGameState ==
    ASSUME "map" \notin Commands
    PROVE  Spec => []PauseCoherence
<1>1. Inv => PauseCoherence
  BY DEF Inv, GoodRoom, Coherent, PauseCoherence
<1> QED BY <1>1, Invariance, PTL
=============================================================================
