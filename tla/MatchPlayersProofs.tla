------------------------- MODULE MatchPlayersProofs -------------------------
(***************************************************************************)
(* What Match does to the players of a room, for every value of its        *)
(* constants: who is ready, who may respawn, that the team sizes are true, *)
(* and who a match or a round starts with.                                 *)
(*                                                                         *)
(* MatchProofs follows the call graph for the state of the game; this      *)
(* module follows it again for the players, on top of those lemmas.        *)
(***************************************************************************)
EXTENDS MatchProofs

-----------------------------------------------------------------------------
(* What is kept.                                                           *)

\* Nobody moves: most operators touch neither the teams nor the settings.
SamePlaces(r, s) ==
    /\ SameTeams(r, s)
    /\ \A p \in Players : /\ s.players[p].inRoom = r.players[p].inRoom
                          /\ s.players[p].team = r.players[p].team
                          /\ s.players[p].toTeam = r.players[p].toTeam

\* In a warmup, and where nobody is ever kept from it, everybody may respawn.
RespawnOk(r) ==
    r.state \in Warmups \/ ~Survival
        => \A p \in Players : ~r.players[p].noRespawn

\* In a running game everybody who plays is ready.
ReadyOk(r) ==
    NoLogin /\ r.state = GAME_RUNNING
        => \A p \in Players :
              r.players[p].inRoom /\ r.players[p].team # TEAM_SPECTATORS
                 => r.players[p].ready

\* Dead players watch only in the survival game types.
WatchersOk(r) == ~Survival => \A p \in Players : ~r.players[p].deadSpec

PlayersOk(r) == RespawnOk(r) /\ ReadyOk(r) /\ WatchersOk(r)

\* m_UnbalancedTick says TBALANCE_OK only of balanced teams.
Watchful(r) == r.unbalanced = "ok" => ~NeedsBalance(r)

USE DEF TEAM_RED, TEAM_BLUE, TEAM_SPECTATORS, Sides, Teams, NoTeam,
        OppositeTeam, TIMER_INFINITE, SameTeams, SameLoop

LEMMA SamePlacesReads ==
    ASSUME NEW r, NEW s, SamePlaces(r, s)
    PROVE  /\ InRoom(s) = InRoom(r) /\ Active(s) = Active(r)
           /\ \A t : Side(s, t) = Side(r, t)
           /\ NeedsBalance(s) <=> NeedsBalance(r)
           /\ BiggerSide(s) = BiggerSide(r)
           /\ Movers(s) = Movers(r)
           /\ Watchful(s) <=> Watchful(r)
           /\ HasEnoughPlayers(s) <=> HasEnoughPlayers(r)
           /\ HasNoPlayers(s) <=> HasNoPlayers(r)
           /\ ReadyToStart(s) <=> ReadyToStart(r)
<1>1. InRoom(s) = InRoom(r)
  BY DEF SamePlaces, InRoom
<1>2. Active(s) = Active(r)
  BY <1>1 DEF SamePlaces, Active, InRoom
<1>3. \A t : Side(s, t) = Side(r, t)
  BY <1>1 DEF SamePlaces, Side, InRoom
<1>4. /\ BiggerSide(s) = BiggerSide(r)
      /\ Difference(s) = Difference(r)
      /\ NeedsBalance(s) <=> NeedsBalance(r)
  BY DEF SamePlaces, BiggerSide, Difference, NeedsBalance
<1>5. Movers(s) = Movers(r)
  BY <1>3, <1>4 DEF Movers
<1> QED BY <1>1, <1>2, <1>3, <1>4, <1>5
        DEF SamePlaces, HasEnoughPlayers, HasNoPlayers, ReadyToStart, Watchful

LEMMA SamePlacesTrans ==
    ASSUME NEW r, NEW s, NEW u, SamePlaces(r, s), SamePlaces(s, u)
    PROVE  SamePlaces(r, u)
BY DEF SamePlaces

LEMMA SamePlacesRefl ==
    ASSUME NEW r
    PROVE  SamePlaces(r, r)
BY DEF SamePlaces

-----------------------------------------------------------------------------
(* Updates of players, field by field.                                     *)

LEMMA KillCharactersFields ==
    ASSUME NEW r \in Room, NEW ps, NEW p \in Players
    PROVE  LET x == KillCharacters(r, ps).players[p] IN
           /\ x.inRoom = r.players[p].inRoom /\ x.team = r.players[p].team
           /\ x.toTeam = r.players[p].toTeam /\ x.ready = r.players[p].ready
           /\ x.noRespawn = r.players[p].noRespawn
           /\ x.deadSpec = r.players[p].deadSpec
<1>1. r.players[p] \in Player
  BY PlayerType
<1>2. KillCharacters(r, ps).players[p] =
        [r.players[p] EXCEPT !.alive = @ /\ p \notin ps]
  BY DEF KillCharacters, Room
<1> QED BY <1>1, <1>2 DEF Player

LEMMA SetReadyFields ==
    ASSUME NEW r \in Room, NEW b \in BOOLEAN, NEW p \in Players
    PROVE  LET x == SetPlayersReadyState(r, b).players[p] IN
           /\ x.inRoom = r.players[p].inRoom /\ x.team = r.players[p].team
           /\ x.toTeam = r.players[p].toTeam
           /\ x.noRespawn = r.players[p].noRespawn
           /\ x.deadSpec = r.players[p].deadSpec
           /\ x.ready = IF p \in Active(r) /\ (b \/ ~r.players[p].deadSpec)
                        THEN b ELSE r.players[p].ready
<1>1. r.players[p] \in Player
  BY PlayerType
<1> DEFINE c == IF p \in Active(r) /\ (b \/ ~r.players[p].deadSpec)
                THEN b ELSE r.players[p].ready
<1>2. SetPlayersReadyState(r, b).players[p] = [r.players[p] EXCEPT !.ready = c]
  BY DEF SetPlayersReadyState, Room
<1> HIDE DEF c
<1>3. LET x == [r.players[p] EXCEPT !.ready = c] IN
      /\ x.inRoom = r.players[p].inRoom /\ x.team = r.players[p].team
      /\ x.toTeam = r.players[p].toTeam
      /\ x.noRespawn = r.players[p].noRespawn
      /\ x.deadSpec = r.players[p].deadSpec
      /\ x.ready = c
  BY <1>1 DEF Player
<1> QED BY <1>2, <1>3 DEF c

LEMMA EnableRespawnFields ==
    ASSUME NEW r \in Room, NEW p \in Players
    PROVE  LET x == EnableRespawn(r).players[p] IN
           /\ x.inRoom = r.players[p].inRoom /\ x.team = r.players[p].team
           /\ x.toTeam = r.players[p].toTeam /\ x.ready = r.players[p].ready
           /\ x.deadSpec = r.players[p].deadSpec
           /\ x.noRespawn = (r.players[p].noRespawn /\ ~Survival)
<1>1. r.players[p] \in Player
  BY PlayerType
<1>2. EnableRespawn(r).players[p] =
        [r.players[p] EXCEPT !.noRespawn = @ /\ ~Survival]
  BY DEF EnableRespawn, Room
<1> QED BY <1>1, <1>2 DEF Player

\* Only who may not respawn becomes ready or a watcher.
LEMMA RespawnFields ==
    ASSUME NEW r \in Room, NEW ps, NEW p \in Players
    PROVE  LET x == Respawn(r, ps).players[p] IN
           /\ x.inRoom = r.players[p].inRoom /\ x.team = r.players[p].team
           /\ x.toTeam = r.players[p].toTeam
           /\ x.noRespawn = r.players[p].noRespawn
           /\ x.ready \in {r.players[p].ready, TRUE}
           /\ ~r.players[p].noRespawn => x.ready = r.players[p].ready
           /\ ~r.players[p].noRespawn /\ ~r.players[p].deadSpec => ~x.deadSpec
<1> DEFINE q == r.players[p]
           c == CanFollow(r, p)
           d == q.spawning \/ (Survival /\ q.team # TEAM_SPECTATORS)
           x == Respawn(r, ps).players[p]
<1>1. q \in Player
  BY PlayerType
<1>2. x = IF p \notin ps THEN q
          ELSE IF q.noRespawn /\ q.team # TEAM_SPECTATORS
          THEN [q EXCEPT !.deadSpec = c, !.ready = TRUE]
          ELSE [q EXCEPT !.deadSpec = FALSE, !.spawning = d]
  BY DEF Respawn, Room
<1> HIDE DEF q, c, d, x
<1>3. /\ x.inRoom = q.inRoom /\ x.team = q.team
      /\ x.toTeam = q.toTeam /\ x.noRespawn = q.noRespawn
      /\ x.ready \in {q.ready, TRUE}
      /\ ~q.noRespawn => x.ready = q.ready
      /\ ~q.noRespawn /\ ~q.deadSpec => ~x.deadSpec
  <2>1. CASE p \notin ps
    BY <1>2, <2>1
  <2>2. CASE p \in ps /\ q.noRespawn /\ q.team # TEAM_SPECTATORS
    BY <1>1, <1>2, <2>2 DEF Player
  <2>3. CASE p \in ps /\ ~(q.noRespawn /\ q.team # TEAM_SPECTATORS)
    BY <1>1, <1>2, <2>3 DEF Player
  <2> QED BY <2>1, <2>2, <2>3
<1> QED BY <1>3 DEF q, x

-----------------------------------------------------------------------------
(* SetGameState.                                                           *)

USE DEF WARMUP_GAME, WARMUP_USER, START_COUNTDOWN, GAME_PAUSED, GAME_RUNNING,
        END_MATCH, END_ROUND

\* A room whose players are those of r, in a state that asks no more of them
LEMMA SamePlayersKeep ==
    ASSUME NEW r, NEW s, s.players = r.players, SameTeams(r, s)
    PROVE  /\ SamePlaces(r, s)
           /\ /\ PlayersOk(r)
              /\ s.state = r.state \/ s.state \notin Warmups \cup {GAME_RUNNING}
              => PlayersOk(s)
BY DEF SamePlaces, PlayersOk, RespawnOk, ReadyOk, WatchersOk

LEMMA SetReadySame ==
    ASSUME NEW r \in Room, NEW b \in BOOLEAN
    PROVE  LET s == SetPlayersReadyState(r, b) IN
           /\ SamePlaces(r, s) /\ s.state = r.state
           /\ RespawnOk(r) => RespawnOk(s)
           /\ WatchersOk(r) => WatchersOk(s)
           /\ b \/ r.state # GAME_RUNNING => (ReadyOk(r) => ReadyOk(s))
           /\ b => ReadyOk(s)
<1> DEFINE s == SetPlayersReadyState(r, b)
<1>1. s \in Room /\ SameGame(r, s)
  BY SetPlayersReadyStateSame
<1>2. ASSUME NEW p \in Players
      PROVE  LET x == s.players[p] IN
             /\ x.inRoom = r.players[p].inRoom /\ x.team = r.players[p].team
             /\ x.toTeam = r.players[p].toTeam
             /\ x.noRespawn = r.players[p].noRespawn
             /\ x.deadSpec = r.players[p].deadSpec
             /\ x.ready = IF p \in Active(r) /\ (b \/ ~r.players[p].deadSpec)
                          THEN b ELSE r.players[p].ready
  BY SetReadyFields
<1> HIDE DEF s
<1>3. SamePlaces(r, s) /\ s.state = r.state
  BY <1>1, <1>2 DEF SamePlaces, SameGame, SameTeams
<1>4. RespawnOk(r) => RespawnOk(s)
  BY <1>2, <1>3 DEF RespawnOk
<1>5. WatchersOk(r) => WatchersOk(s)
  BY <1>2 DEF WatchersOk
<1>6. b => ReadyOk(s)
  BY <1>2 DEF ReadyOk, Active, InRoom
<1>7. r.state # GAME_RUNNING => ReadyOk(s)
  BY <1>3 DEF ReadyOk
<1> QED BY <1>3, <1>4, <1>5, <1>6, <1>7 DEF s

LEMMA ToRunningKeeps ==
    ASSUME NEW r, GoodRoom(r)
    PROVE  LET s == ToRunning(r)
           IN  SamePlaces(r, s) /\ (PlayersOk(r) => PlayersOk(s))
<1> r \in Room
  BY GoodType
<1> DEFINE u == [r EXCEPT !.state = GAME_RUNNING, !.timer = TIMER_INFINITE,
                          !.paused = FALSE, !.pauseRequested = FALSE]
<1>1. /\ u \in Room /\ u.players = r.players /\ SameTeams(r, u)
      /\ u.state = GAME_RUNNING
  BY DEF Room, GameStates, Seconds
<1>2. ToRunning(r) = SetPlayersReadyState(u, TRUE)
  BY DEF ToRunning
<1> HIDE DEF u
<1>3. SamePlaces(r, u)
  BY <1>1, SamePlayersKeep
<1>4. PlayersOk(r) => RespawnOk(u) /\ WatchersOk(u)
  BY <1>1 DEF PlayersOk, RespawnOk, WatchersOk, Warmups
<1>5. LET s == ToRunning(r) IN
      /\ SamePlaces(u, s)
      /\ RespawnOk(u) => RespawnOk(s)
      /\ WatchersOk(u) => WatchersOk(s)
      /\ ReadyOk(s)
  BY <1>1, <1>2, SetReadySame
<1> QED BY <1>3, <1>4, <1>5, SamePlacesTrans DEF PlayersOk

LEMMA ToCountdownKeeps ==
    ASSUME NEW r, GoodRoom(r)
    PROVE  LET s == ToCountdown(r)
           IN  SamePlaces(r, s) /\ (PlayersOk(r) => PlayersOk(s))
<1> DEFINE c == r.cfg.countdown
           t == Abs(c) * TickSpeed
           u == [r EXCEPT !.state = START_COUNTDOWN, !.timer = t,
                          !.paused = TRUE]
<1>1. ToCountdown(r) \in {r, u, ToRunning(r)}
  BY DEF ToCountdown
<1> HIDE DEF t
<1>2. SamePlaces(r, u) /\ (PlayersOk(r) => PlayersOk(u))
  <2>1. /\ u.players = r.players /\ SameTeams(r, u)
        /\ u.state = START_COUNTDOWN
    BY GoodType DEF Room
  <2> HIDE DEF u
  <2> QED BY <2>1, SamePlayersKeep DEF Warmups
<1> HIDE DEF u
<1> QED BY <1>1, <1>2, ToRunningKeeps, SamePlacesRefl

LEMMA ToPausedKeeps ==
    ASSUME NEW r, GoodRoom(r), NEW seconds \in Seconds
    PROVE  LET s == ToPaused(r, seconds)
           IN  SamePlaces(r, s) /\ (PlayersOk(r) => PlayersOk(s))
<1> r \in Room
  BY GoodType
<1> DEFINE t == IF seconds < 0 THEN TIMER_INFINITE ELSE seconds * TickSpeed
           u == [r EXCEPT !.state = GAME_PAUSED, !.paused = TRUE, !.timer = t]
           v == SetPlayersReadyState(u, FALSE)
<1>1. ToPaused(r, seconds) \in {r, u, v, ToCountdown(r)}
  BY DEF ToPaused
<1>2. t \in Seconds
  BY TimesNat, MatchAssumption DEF Seconds
<1> HIDE DEF t
<1>3. /\ u \in Room /\ u.players = r.players /\ SameTeams(r, u)
      /\ u.state = GAME_PAUSED
  BY <1>2 DEF Room, GameStates
<1> HIDE DEF u
<1>4. SamePlaces(r, u) /\ (PlayersOk(r) => PlayersOk(u))
  BY <1>3, SamePlayersKeep DEF Warmups
<1>5. SamePlaces(u, v) /\ (PlayersOk(u) => PlayersOk(v))
  BY <1>3, SetReadySame DEF PlayersOk
<1> HIDE DEF v
<1> QED BY <1>1, <1>4, <1>5, ToCountdownKeeps, SamePlacesRefl, SamePlacesTrans

LEMMA EnableRespawnKeeps ==
    ASSUME NEW r \in Room, r.state # GAME_RUNNING
    PROVE  LET s == EnableRespawn(r) IN
           /\ SamePlaces(r, s) /\ s.state = r.state
           /\ (~Survival => RespawnOk(r)) /\ WatchersOk(r) => PlayersOk(s)
           /\ \A p \in Players : s.players[p].ready = r.players[p].ready
<1> DEFINE s == EnableRespawn(r)
<1>1. s \in Room /\ SameGame(r, s)
  BY EnableRespawnSame
<1>2. ASSUME NEW p \in Players
      PROVE  LET x == s.players[p] IN
             /\ x.inRoom = r.players[p].inRoom /\ x.team = r.players[p].team
             /\ x.toTeam = r.players[p].toTeam
             /\ x.ready = r.players[p].ready
             /\ x.deadSpec = r.players[p].deadSpec
             /\ x.noRespawn = (r.players[p].noRespawn /\ ~Survival)
  BY EnableRespawnFields
<1> HIDE DEF s
<1>3. SamePlaces(r, s) /\ s.state = r.state
  BY <1>1, <1>2 DEF SamePlaces, SameGame, SameTeams
<1>4. (~Survival => RespawnOk(r)) => RespawnOk(s)
  BY <1>2 DEF RespawnOk
<1>5. WatchersOk(r) => WatchersOk(s)
  BY <1>2 DEF WatchersOk
<1>6. ReadyOk(s)
  BY <1>3 DEF ReadyOk
<1> QED BY <1>2, <1>3, <1>4, <1>5, <1>6 DEF PlayersOk, s

LEMMA WaitForPlayersKeeps ==
    ASSUME NEW r, GoodRoom(r)
    PROVE  LET s == WaitForPlayers(r)
           IN  SamePlaces(r, s) /\ (PlayersOk(r) => PlayersOk(s))
<1> r \in Room
  BY GoodType
<1> DEFINE u == [r EXCEPT !.state = WARMUP_GAME, !.timer = TIMER_INFINITE,
                          !.suddenDeath = FALSE]
<1>1. /\ u \in Room /\ u.players = r.players /\ SameTeams(r, u)
      /\ u.state = WARMUP_GAME
  BY DEF Room, GameStates, Seconds
<1>2. WaitForPlayers(r) \in {r, EnableRespawn(u)}
  BY DEF WaitForPlayers
<1> HIDE DEF u
<1>3. SamePlaces(r, u)
  BY <1>1, SamePlayersKeep
<1>4. PlayersOk(r) => (~Survival => RespawnOk(u)) /\ WatchersOk(u)
  BY <1>1 DEF PlayersOk, RespawnOk, WatchersOk
<1>5. LET s == EnableRespawn(u) IN
      /\ SamePlaces(u, s)
      /\ (~Survival => RespawnOk(u)) /\ WatchersOk(u) => PlayersOk(s)
  BY <1>1, EnableRespawnKeeps
<1> QED BY <1>2, <1>3, <1>4, <1>5, SamePlacesTrans, SamePlacesRefl

\* A warmup that waits for the players' readiness has reset all of it.
AsksAll(r) ==
    /\ ~Survival /\ ReadyToStart(r)
    /\ r.state = WARMUP_USER /\ r.timer = TIMER_INFINITE
    => \A p \in Active(r) : ~r.players[p].ready

LEMMA ToWarmupKeeps ==
    ASSUME NEW r, GoodRoom(r), NEW seconds \in Seconds
    PROVE  LET s == ToWarmup(r, seconds) IN
           /\ SamePlaces(r, s) /\ (PlayersOk(r) => PlayersOk(s))
           /\ PlayersOk(r) /\ CanWarmup(r) => AsksAll(s)
           /\ CanWarmup(r) /\ seconds >= 0 => s.timer # TIMER_INFINITE
<1> DEFINE t == IF seconds < 0 THEN TIMER_INFINITE ELSE seconds * TickSpeed
           v == IF seconds > 0 THEN SetPlayersReadyState(r, TRUE)
                ELSE IF ReadyToStart(r) THEN SetPlayersReadyState(r, FALSE)
                ELSE r
           u == [v EXCEPT !.state = WARMUP_USER, !.paused = FALSE, !.timer = t,
                          !.pauseRequested = FALSE, !.suddenDeath = FALSE]
           s == EnableRespawn(u)
<1> r \in Room
  BY GoodType
<1>1. CASE ~CanWarmup(r)
  BY <1>1, SamePlacesRefl DEF ToWarmup
<1>2. CASE CanWarmup(r)
  <2>1. ToWarmup(r, seconds) = s
    BY <1>2 DEF ToWarmup
  <2>2. t \in Seconds /\ (seconds >= 0 => t # TIMER_INFINITE)
    BY TimesNat, MatchAssumption DEF Seconds
  <2>3. v \in Room /\ SamePlaces(r, v)
    BY SetPlayersReadyStateSame, SetReadySame, SamePlacesRefl
  <2>4. PlayersOk(r) => (~Survival => RespawnOk(v)) /\ WatchersOk(v)
    BY SetReadySame DEF PlayersOk
  <2>5. /\ PlayersOk(r) /\ ~Survival /\ ReadyToStart(r) /\ seconds < 0
        => \A p \in Active(r) : ~v.players[p].ready
    <3> SUFFICES ASSUME PlayersOk(r), ~Survival, ReadyToStart(r), seconds < 0,
                        NEW p \in Active(r)
                 PROVE  ~v.players[p].ready
      OBVIOUS
    <3>1. p \in Players /\ ~r.players[p].deadSpec
      BY DEF PlayersOk, WatchersOk, Active, InRoom
    <3>2. ~(seconds > 0)
      BY DEF Seconds
    <3>3. v = SetPlayersReadyState(r, FALSE)
      BY <3>2
    <3> QED BY <3>1, <3>3, SetReadyFields
  <2> HIDE DEF t, v
  <2>6. /\ u \in Room /\ u.players = v.players /\ SameTeams(v, u)
        /\ u.state = WARMUP_USER /\ u.timer = t
    BY <2>2, <2>3 DEF Room, GameStates
  <2> HIDE DEF u
  <2>7. SamePlaces(v, u) /\ (RespawnOk(v) /\ ~Survival => RespawnOk(u))
        /\ (WatchersOk(v) => WatchersOk(u))
    BY <2>6, SamePlayersKeep DEF RespawnOk, WatchersOk
  <2>8. /\ SamePlaces(u, s)
        /\ (~Survival => RespawnOk(u)) /\ WatchersOk(u) => PlayersOk(s)
        /\ \A p \in Players : s.players[p].ready = u.players[p].ready
    BY <2>6, EnableRespawnKeeps
  <2>9. s.timer = t
    BY <2>6, EnableRespawnSame DEF SameGame
  <2> HIDE DEF s
  <2>10. SamePlaces(r, s)
    BY <2>3, <2>7, <2>8, SamePlacesTrans
  <2>11. PlayersOk(r) => PlayersOk(s)
    BY <2>4, <2>7, <2>8
  <2>12. PlayersOk(r) => AsksAll(s)
    <3> SUFFICES ASSUME PlayersOk(r), ~Survival, ReadyToStart(s),
                        s.timer = TIMER_INFINITE, NEW p \in Active(s)
                 PROVE  ~s.players[p].ready
      BY DEF AsksAll
    <3>1. p \in Active(r) /\ ReadyToStart(r) /\ p \in Players
      BY <2>10, SamePlacesReads DEF Active, InRoom
    <3>2. seconds < 0
      BY <2>2, <2>9 DEF Seconds
    <3> QED BY <3>1, <3>2, <2>5, <2>6, <2>8
  <2> QED BY <2>1, <2>2, <2>9, <2>10, <2>11, <2>12
<1> QED BY <1>1, <1>2

LEMMA EndMatchKeeps ==
    ASSUME NEW r, GoodRoom(r)
    PROVE  LET s == EndMatch(r)
           IN  SamePlaces(r, s) /\ (PlayersOk(r) => PlayersOk(s))
<1> DEFINE t == TimerEnd * TickSpeed
           e == [r EXCEPT !.pauseRequested = FALSE]
           u == [e EXCEPT !.state = END_MATCH, !.timer = t,
                          !.suddenDeath = FALSE, !.paused = TRUE]
<1> r \in Room
  BY GoodType
<1>1. EndMatch(r) = IF CanEnd(r) THEN u ELSE e
  BY DEF EndMatch
<1> HIDE DEF t
<1>2. /\ e.players = r.players /\ SameTeams(r, e)
      /\ e.state = r.state
  BY DEF Room
<1>3. /\ u.players = r.players /\ SameTeams(r, u)
      /\ u.state = END_MATCH
  BY DEF Room
<1> HIDE DEF e, u
<1> QED BY <1>1, <1>2, <1>3, SamePlayersKeep DEF Warmups

LEMMA DoWincheckMatchKeeps ==
    ASSUME NEW r, GoodRoom(r), NEW outcome \in Outcomes
    PROVE  LET s == DoWincheckMatch(r, outcome)
           IN  SamePlaces(r, s) /\ (PlayersOk(r) => PlayersOk(s))
<1> DEFINE u == [r EXCEPT !.suddenDeath = TRUE]
<1>1. DoWincheckMatch(r, outcome) \in {r, EndMatch(r), u}
  BY DEF DoWincheckMatch, Outcomes
<1>2. /\ u.players = r.players /\ SameTeams(r, u)
      /\ u.state = r.state
  BY GoodType DEF Room
<1> HIDE DEF u
<1>3. SamePlaces(r, u) /\ (PlayersOk(r) => PlayersOk(u))
  BY <1>2, SamePlayersKeep
<1> QED BY <1>1, <1>3, EndMatchKeeps, SamePlacesRefl

LEMMA EndRoundKeeps ==
    ASSUME NEW r, GoodRoom(r), NEW outcome \in Outcomes
    PROVE  LET s == EndRound(r, outcome)
           IN  SamePlaces(r, s) /\ (PlayersOk(r) => PlayersOk(s))
<1> DEFINE q == [r EXCEPT !.pauseRequested = FALSE]
           e == DoWincheckMatch(q, outcome)
           t == (TimerEnd \div 2) * TickSpeed
           u == [e EXCEPT !.state = END_ROUND, !.paused = TRUE, !.timer = t]
<1> r \in Room
  BY GoodType
<1>1. EndRound(r, outcome) \in {e, u}
  BY DEF EndRound
<1> HIDE DEF t
<1>2. /\ q \in Room /\ q.players = r.players /\ SameTeams(r, q)
      /\ q.state = r.state
  BY DEF Room
<1>3. GoodRoom(q)
  BY DEF GoodRoom, Room, Patient, Coherent
<1> HIDE DEF q
<1>4. SamePlaces(r, q) /\ (PlayersOk(r) => PlayersOk(q))
  BY <1>2, SamePlayersKeep
<1>5. SamePlaces(q, e) /\ (PlayersOk(q) => PlayersOk(e)) /\ e \in Room
  BY <1>3, DoWincheckMatchKeeps, DoWincheckMatchGood, GoodType
<1> HIDE DEF e
<1>6. /\ u.players = e.players /\ SameTeams(e, u)
      /\ u.state = END_ROUND
  BY <1>5 DEF Room
<1> HIDE DEF u
<1>7. SamePlaces(e, u) /\ (PlayersOk(e) => PlayersOk(u))
  BY <1>6, SamePlayersKeep DEF Warmups
<1> QED BY <1>1, <1>4, <1>5, <1>7, SamePlacesTrans

-----------------------------------------------------------------------------
(* Membership of the teams.                                                *)

\* The sizes that the code counts are those of the teams.
SizesTrue(r) == \A t \in Sides : r.size[t] = Cardinality(Side(r, t))

LEMMA SwitchTeamsFields ==
    ASSUME NEW r \in Room, NEW P \in SUBSET Players, NEW to \in [P -> Teams],
           NEW p \in Players
    PROVE  LET x == SwitchTeams(r, to).players[p]
               q == r.players[p]
               plays == p \in P /\ q.team # to[p] /\ to[p] # TEAM_SPECTATORS
           IN  /\ x.inRoom = q.inRoom /\ x.toTeam = q.toTeam
               /\ x.deadSpec = q.deadSpec
               /\ x.team = IF p \in P THEN to[p] ELSE q.team
               /\ x.ready = IF plays THEN ~IsPlayerReadyMode(r) ELSE q.ready
               /\ x.noRespawn = IF plays /\ Survival
                                THEN GetStartRespawnState(r) ELSE q.noRespawn
<1> DEFINE ps == {y \in DOMAIN to : r.players[y].team # to[y]}
           k == KillCharacters(r, ps)
           ready == ~IsPlayerReadyMode(r)
           respawn == GetStartRespawnState(r)
           q == r.players[p]
           kq == k.players[p]
           x == SwitchTeams(r, to).players[p]
<1>1. q \in Player /\ kq \in Player
  BY KillCharactersSame, PlayerType
<1>2. /\ kq.inRoom = q.inRoom /\ kq.team = q.team /\ kq.toTeam = q.toTeam
      /\ kq.ready = q.ready /\ kq.noRespawn = q.noRespawn
      /\ kq.deadSpec = q.deadSpec
  BY KillCharactersFields
<1>3. p \in ps <=> p \in P /\ q.team # to[p]
  OBVIOUS
<1>4. ps = {} => x = q
  BY DEF SwitchTeams
<1>5. ps # {} => x = IF p \notin ps THEN kq
                     ELSE IF to[p] = TEAM_SPECTATORS
                     THEN [kq EXCEPT !.team = TEAM_SPECTATORS]
                     ELSE [kq EXCEPT !.team = to[p], !.ready = ready,
                             !.noRespawn = IF Survival THEN respawn ELSE @]
  <2>1. k \in Room
    BY KillCharactersSame
  <2> HIDE DEF k, ready, respawn
  <2> QED BY <2>1 DEF SwitchTeams, k, ready, respawn, Room
<1> HIDE DEF ps, k, ready, respawn, q, kq, x
<1>6. CASE p \notin ps
  BY <1>2, <1>3, <1>4, <1>5, <1>6 DEF x, q
<1>7. CASE p \in ps /\ to[p] = TEAM_SPECTATORS
  BY <1>1, <1>2, <1>3, <1>5, <1>7 DEF x, q, Player
<1>8. CASE p \in ps /\ to[p] # TEAM_SPECTATORS
  <2> DEFINE z == IF Survival THEN respawn ELSE kq.noRespawn
  <2>1. x = [kq EXCEPT !.team = to[p], !.ready = ready, !.noRespawn = z]
    BY <1>5, <1>8
  <2> HIDE DEF z
  <2>2. /\ x.inRoom = kq.inRoom /\ x.toTeam = kq.toTeam
        /\ x.deadSpec = kq.deadSpec /\ x.team = to[p] /\ x.ready = ready
        /\ x.noRespawn = z
    BY <1>1, <2>1 DEF Player
  <2> QED BY <1>2, <1>3, <1>8, <2>2 DEF x, q, ready, respawn, z
<1> QED BY <1>6, <1>7, <1>8

LEMMA SwitchTeamsKeeps ==
    ASSUME NEW r \in Room, NEW P \in SUBSET Players, NEW to \in [P -> Teams]
    PROVE  LET s == SwitchTeams(r, to)
           IN  s.cfg = r.cfg /\ (PlayersOk(r) => PlayersOk(s))
<1> DEFINE s == SwitchTeams(r, to)
           plays(p) == /\ p \in P /\ r.players[p].team # to[p]
                       /\ to[p] # TEAM_SPECTATORS
<1>1. s \in Room /\ SameState(r, s)
  BY SwitchTeamsSame
<1>2. ASSUME NEW p \in Players
      PROVE  LET x == s.players[p]
                 q == r.players[p]
             IN  /\ x.inRoom = q.inRoom
                 /\ x.deadSpec = q.deadSpec
                 /\ x.team = IF p \in P THEN to[p] ELSE q.team
                 /\ x.ready = IF plays(p) THEN ~IsPlayerReadyMode(r)
                              ELSE q.ready
                 /\ x.noRespawn = IF plays(p) /\ Survival
                                  THEN GetStartRespawnState(r)
                                  ELSE q.noRespawn
  BY SwitchTeamsFields
<1> HIDE DEF s, plays
<1>3. PlayersOk(r) => RespawnOk(s)
  BY <1>1, <1>2 DEF PlayersOk, RespawnOk, SameState, GetStartRespawnState
<1>4. PlayersOk(r) => WatchersOk(s)
  BY <1>2 DEF PlayersOk, WatchersOk
<1>5. PlayersOk(r) => ReadyOk(s)
  <2> SUFFICES ASSUME PlayersOk(r), NoLogin, s.state = GAME_RUNNING,
                      NEW p \in Players, s.players[p].inRoom,
                      s.players[p].team # TEAM_SPECTATORS
               PROVE  s.players[p].ready
    BY DEF ReadyOk
  <2>1. r.state = GAME_RUNNING
    BY <1>1 DEF SameState
  <2>2. CASE plays(p)
    BY <1>2, <2>1, <2>2 DEF IsPlayerReadyMode
  <2>3. CASE ~plays(p)
    BY <1>2, <2>1, <2>3 DEF PlayersOk, ReadyOk, plays
  <2> QED BY <2>2, <2>3
<1> QED BY <1>1, <1>3, <1>4, <1>5 DEF PlayersOk, SameState, s

\* Who leaves a finite set is not counted any more.
LEMMA RemovedCardinality ==
    ASSUME NEW S, NEW T \in SUBSET S, IsFiniteSet(S)
    PROVE  Cardinality(S \ T) = Cardinality(S) - Cardinality(T)
<1>1. S \cap T = T
  OBVIOUS
<1> QED BY <1>1, FS_Difference

\* A change of teams counts whoever is in the room right.
LEMMA SwitchTeamsSizes ==
    ASSUME NEW r \in Room, NEW P \in SUBSET InRoom(r), NEW to \in [P -> Teams],
           SizesTrue(r)
    PROVE  SizesTrue(SwitchTeams(r, to))
<1> DEFINE s == SwitchTeams(r, to)
           ps == {p \in DOMAIN to : r.players[p].team # to[p]}
           leave(t) == {p \in ps : r.players[p].team = t}
           join(t) == {p \in ps : to[p] = t}
<1>1. P \in SUBSET Players
  BY DEF InRoom
<1>2. s \in Room
  BY <1>1, SwitchTeamsSame
<1>3. ASSUME NEW p \in Players
      PROVE  /\ s.players[p].inRoom = r.players[p].inRoom
             /\ s.players[p].team = IF p \in P THEN to[p] ELSE r.players[p].team
  BY <1>1, SwitchTeamsFields
<1> SUFFICES ASSUME NEW t \in Sides
             PROVE  s.size[t] = Cardinality(Side(s, t))
  BY DEF SizesTrue
<1>4. s.size[t] = r.size[t] - Cardinality(leave(t)) + Cardinality(join(t))
  <2>1. CASE ps = {}
    <3>1. leave(t) = {} /\ join(t) = {} /\ s = r
      BY <2>1 DEF SwitchTeams
    <3>2. r.size[t] \in Int
      BY DEF Room
    <3> HIDE DEF s, ps, leave, join
    <3> QED BY <3>1, <3>2, FS_EmptySet
  <2>2. CASE ps # {}
    <3>1. KillCharacters(r, ps) \in Room
      BY KillCharactersSame
    <3> QED BY <2>2, <3>1 DEF SwitchTeams, Room
  <2> QED BY <2>1, <2>2
<1>5. /\ leave(t) \subseteq Side(r, t)
      /\ join(t) \cap (Side(r, t) \ leave(t)) = {}
  BY DEF Side, InRoom
<1>6. Side(s, t) = (Side(r, t) \ leave(t)) \cup join(t)
  <2> HIDE DEF s
  <2> QED BY <1>1, <1>3 DEF Side, InRoom
<1> HIDE DEF s, leave, join
<1> DEFINE A == Side(r, t)
           B == A \ leave(t)
<1>7. IsFiniteSet(A) /\ Cardinality(A) \in Nat
  BY SubsetCardinality DEF Side, InRoom
<1>8. join(t) \in SUBSET Players
  BY <1>1 DEF join
<1>9. /\ IsFiniteSet(leave(t)) /\ IsFiniteSet(join(t)) /\ IsFiniteSet(B)
      /\ Cardinality(leave(t)) \in Nat /\ Cardinality(join(t)) \in Nat
      /\ Cardinality(B) \in Nat
  BY <1>5, <1>7, <1>8, SubsetCardinality, FS_Subset, FS_CardinalityType
<1>10. Cardinality(B) = Cardinality(A) - Cardinality(leave(t))
  <2>1. leave(t) \in SUBSET A
    BY <1>5
  <2> HIDE DEF A
  <2> QED BY <1>7, <2>1, RemovedCardinality
<1>11. Cardinality(B \cup join(t)) = Cardinality(B) + Cardinality(join(t))
  <2>1. B \cap join(t) = {}
    BY <1>5
  <2>2. Cardinality(B \cup join(t))
          = Cardinality(B) + Cardinality(join(t)) - Cardinality(B \cap join(t))
    BY <1>9, FS_Union
  <2> HIDE DEF B
  <2> QED BY <1>9, <2>1, <2>2, FS_EmptySet
<1>12. r.size[t] = Cardinality(A)
  BY DEF SizesTrue
<1> HIDE DEF A, B
<1> QED BY <1>4, <1>6, <1>7, <1>9, <1>10, <1>11, <1>12 DEF A, B

\* The same players are in the room, and the same of them play.
SameRoster(r, s) ==
    /\ s.cfg = r.cfg
    /\ \A p \in Players :
          /\ s.players[p].inRoom = r.players[p].inRoom
          /\ s.players[p].toTeam = r.players[p].toTeam
          /\ s.players[p].team = TEAM_SPECTATORS
               <=> r.players[p].team = TEAM_SPECTATORS

LEMMA SameRosterReads ==
    ASSUME NEW r, NEW s, SameRoster(r, s)
    PROVE  /\ InRoom(s) = InRoom(r) /\ Active(s) = Active(r)
           /\ ReadyToStart(s) <=> ReadyToStart(r)
BY DEF SameRoster, InRoom, Active, ReadyToStart

\* The players in m are those that a balancing of r would move.
CanBalance(r, m) == NeedsBalance(r) => m \in Movers(r)

\* What everything that may balance the teams with the players m keeps.
Keeps(r, s, m) ==
    /\ PlayersOk(r) => PlayersOk(s)
    /\ SameRoster(r, s)
    /\ SizesTrue(r) => SizesTrue(s)
    /\ ~NeedsBalance(r) => SamePlaces(r, s)
    /\ SizesTrue(r) /\ CanBalance(r, m) => CanBalance(s, m)
    /\ SameLoop(r, s)
    /\ SizesTrue(r) /\ CanBalance(r, m) /\ Watchful(r) => Watchful(s)

LEMMA MoversPlay ==
    ASSUME NEW r, NEW m \in Movers(r)
    PROVE  m \in SUBSET Active(r) /\ CanBalance(r, m)
<1>1. \A t \in Sides : Side(r, t) \subseteq Active(r)
  BY DEF Side, Active
<1>2. BiggerSide(r) \in Sides
  BY BiggerSideType
<1> QED BY <1>1, <1>2 DEF Movers, CanBalance

LEMMA ActiveType ==
    ASSUME NEW r
    PROVE  InRoom(r) \in SUBSET Players /\ Active(r) \in SUBSET InRoom(r)
BY DEF Active, InRoom

LEMMA SamePlacesKeeps ==
    ASSUME NEW r, NEW s, NEW m, SamePlaces(r, s), PlayersOk(r) => PlayersOk(s)
    PROVE  Keeps(r, s, m)
<1>1. SameRoster(r, s)
  BY DEF SamePlaces, SameRoster
<1>2. SizesTrue(r) => SizesTrue(s)
  BY SamePlacesReads DEF SizesTrue, SamePlaces
<1>3. CanBalance(r, m) => CanBalance(s, m)
  BY SamePlacesReads DEF CanBalance
<1>4. SameLoop(r, s) /\ (Watchful(r) => Watchful(s))
  BY SamePlacesReads DEF SamePlaces
<1> QED BY <1>1, <1>2, <1>3, <1>4 DEF Keeps

LEMMA KeepsTrans ==
    ASSUME NEW r, NEW s, NEW u, NEW m, Keeps(r, s, m), Keeps(s, u, m)
    PROVE  Keeps(r, u, m)
<1>1. SameRoster(r, u)
  BY DEF Keeps, SameRoster
<1>2. ~NeedsBalance(r) => SamePlaces(r, u)
  BY SamePlacesReads, SamePlacesTrans DEF Keeps
<1>3. SameLoop(r, u)
  BY DEF Keeps
<1>4. SizesTrue(r) /\ CanBalance(r, m) /\ Watchful(r) => Watchful(u)
  BY DEF Keeps
<1> HIDE DEF SameLoop
<1> QED BY <1>1, <1>2, <1>3, <1>4 DEF Keeps

\* DoTeamBalance moves half of the difference, which leaves at most one.
LEMMA HalfIsMoved ==
    ASSUME NEW r \in Room, SizesTrue(r), NeedsBalance(r), NEW m \in Movers(r)
    PROVE  /\ m \in SUBSET Side(r, BiggerSide(r))
           /\ Cardinality(m) = Difference(r) \div 2
<1> DEFINE b == BiggerSide(r)
           bigger == Side(r, b)
           n == Difference(r) \div 2
<1>1. \A t \in Sides : r.size[t] \in Nat
  <2>1. ASSUME NEW t \in Sides PROVE Side(r, t) \in SUBSET Players
    BY DEF Side, InRoom
  <2> QED BY <2>1, SubsetCardinality DEF SizesTrue
<1>2. b \in Sides /\ Other(b) \in Sides
  BY BiggerSideType
<1>3. /\ Difference(r) = r.size[b] - r.size[Other(b)] /\ Difference(r) >= 2
      /\ Cardinality(bigger) = r.size[b]
  BY <1>2 DEF Difference, NeedsBalance, SizesTrue
<1>4. m \in IF Cardinality(bigger) <= n THEN {bigger}
            ELSE {x \in SUBSET bigger : Cardinality(x) = n}
  BY DEF Movers
<1> HIDE DEF b, bigger
<1>5. ~(Cardinality(bigger) <= n)
  BY <1>1, <1>2, <1>3
<1> QED BY <1>4, <1>5 DEF b, bigger

LEMMA RebalanceKeeps ==
    ASSUME NEW r \in Room, NEW m \in SUBSET Active(r)
    PROVE  LET s == Rebalance(r, m) IN
           /\ Keeps(r, s, m)
           /\ SizesTrue(r) /\ CanBalance(r, m) => ~NeedsBalance(s)
<1> DEFINE b == BiggerSide(r)
           to == [p \in m |-> Other(b)]
           moved == SwitchTeams(r, to)
           back == Respawn(moved, m)
           u == [back EXCEPT !.unbalanced = "ok"]
<1>0. m \in SUBSET InRoom(r) /\ m \in SUBSET Players
  BY ActiveType
<1>1. Rebalance(r, m) = IF NeedsBalance(r) THEN u ELSE r
  BY DEF Rebalance
<1>2. CASE ~NeedsBalance(r)
  BY <1>1, <1>2, SamePlacesRefl, SamePlacesKeeps
<1>3. CASE NeedsBalance(r)
  <2>1. to \in [m -> Teams] /\ b \in Sides /\ Other(b) \in Sides
    BY BiggerSideType
  <2>2. \A p \in m : to[p] = Other(b)
    OBVIOUS
  <2> HIDE DEF to
  <2>3. moved \in Room
    BY <1>0, <2>1, SwitchTeamsSame
  <2>4. moved.cfg = r.cfg /\ (PlayersOk(r) => PlayersOk(moved))
    BY <1>0, <2>1, SwitchTeamsKeeps
  <2>5. SizesTrue(r) => SizesTrue(moved)
    BY <1>0, <2>1, SwitchTeamsSizes
  <2>6. ASSUME NEW p \in Players
        PROVE  /\ moved.players[p].inRoom = r.players[p].inRoom
               /\ moved.players[p].toTeam = r.players[p].toTeam
               /\ moved.players[p].team =
                    IF p \in m THEN Other(b) ELSE r.players[p].team
    BY <1>0, <2>1, <2>2, SwitchTeamsFields
  <2>7. ASSUME NEW p \in Players
        PROVE  LET x == back.players[p]
                   y == moved.players[p]
               IN  /\ x.inRoom = y.inRoom /\ x.team = y.team
                   /\ x.toTeam = y.toTeam /\ x.noRespawn = y.noRespawn
                   /\ x.ready \in {y.ready, TRUE}
                   /\ ~y.noRespawn /\ ~y.deadSpec => ~x.deadSpec
    <3> HIDE DEF moved
    <3> QED BY <2>3, RespawnFields, Zenon
  <2>8. back \in Room /\ SameGame(moved, back)
    BY <2>3, RespawnSame
  <2>9. SizesTrue(r) /\ CanBalance(r, m) => ~NeedsBalance(moved)
    <3> SUFFICES ASSUME SizesTrue(r), m \in Movers(r)
                 PROVE  ~NeedsBalance(moved)
      BY <1>3 DEF CanBalance
    <3>1. /\ m \in SUBSET Side(r, b)
          /\ Cardinality(m) = Difference(r) \div 2
      BY <1>3, HalfIsMoved
    <3>2. \A p \in m : r.players[p].team = b
      BY <3>1 DEF Side
    <3>3. b # Other(b) /\ Sides = {b, Other(b)}
      BY <2>1 DEF Other
    <3> DEFINE ps == {p \in DOMAIN to : r.players[p].team # to[p]}
               leave(t) == {p \in ps : r.players[p].team = t}
               join(t) == {p \in ps : to[p] = t}
    <3>4. ps = m
      BY <2>1, <2>2, <3>2, <3>3
    <3>5. /\ leave(b) = m /\ join(b) = {}
          /\ leave(Other(b)) = {} /\ join(Other(b)) = m
      <4> HIDE DEF ps, b
      <4> QED BY <2>2, <3>2, <3>3, <3>4
    <3>6. \A t \in Sides :
            moved.size[t] = r.size[t] - Cardinality(leave(t))
                                      + Cardinality(join(t))
      <4>1. m # {}
        <5>1. Difference(r) \div 2 # 0
          BY <1>3 DEF NeedsBalance, Difference, BiggerSide, Other, Room
        <5> QED BY <3>1, <5>1, FS_EmptySet
      <4>2. KillCharacters(r, ps) \in Room
        BY KillCharactersSame
      <4> QED BY <3>4, <4>1, <4>2 DEF SwitchTeams, Room
    <3> DEFINE n == Cardinality(m)
               x == r.size[b]
               y == r.size[Other(b)]
    <3> HIDE DEF ps, leave, join
    <3>7. n \in Nat /\ x \in Int /\ y \in Int
      BY <1>0, <2>1, SubsetCardinality DEF Room
    <3>8. moved.size[b] = x - n /\ moved.size[Other(b)] = y + n
      <4> HIDE DEF b, moved
      <4>1. /\ Cardinality(leave(b)) = n /\ Cardinality(join(b)) = 0
            /\ Cardinality(leave(Other(b))) = 0
            /\ Cardinality(join(Other(b))) = n
        BY <3>5, FS_EmptySet
      <4> HIDE DEF n
      <4> QED BY <2>1, <3>6, <3>7, <4>1
    <3>9. n = (x - y) \div 2 /\ x - y >= 2
      BY <1>3, <3>1 DEF Difference, NeedsBalance
    <3> HIDE DEF n, x, y
    <3>10. (x - n) - (y + n) \in {0, 1}
      BY <3>7, <3>9
    <3>11. Difference(moved) < 2
      <4> HIDE DEF moved, b
      <4> QED BY <2>1, <3>7, <3>8, <3>10 DEF Difference, BiggerSide, Other
    <3>12. Difference(moved) \in Int
      BY <2>3 DEF Difference, BiggerSide, Other, Room
    <3> QED BY <3>11, <3>12 DEF NeedsBalance
  <2> HIDE DEF b, moved
  <2>10. /\ u.players = back.players /\ u.size = moved.size
         /\ u.cfg = r.cfg /\ u.state = moved.state
    BY <2>4, <2>8 DEF Room, SameGame
  <2> HIDE DEF back, u
  <2>11. /\ SizesTrue(moved) => SizesTrue(u)
         /\ NeedsBalance(u) <=> NeedsBalance(moved)
         /\ SameRoster(moved, u)
    <3>1. ASSUME NEW p \in Players
          PROVE  LET x == u.players[p]
                     y == moved.players[p]
                 IN  /\ x.inRoom = y.inRoom /\ x.team = y.team
                     /\ x.toTeam = y.toTeam
      BY <2>7, <2>10
    <3>2. \A t : Side(u, t) = Side(moved, t)
      BY <3>1 DEF Side, InRoom
    <3>3. SizesTrue(moved) => SizesTrue(u)
      BY <2>10, <3>2 DEF SizesTrue
    <3>4. NeedsBalance(u) <=> NeedsBalance(moved)
      BY <2>4, <2>10 DEF NeedsBalance, Difference, BiggerSide
    <3> QED BY <2>4, <2>10, <3>1, <3>3, <3>4 DEF SameRoster
  <2>12. PlayersOk(moved) => PlayersOk(u)
    <3>1. RespawnOk(moved) => RespawnOk(u)
      <4>1. \A p \in Players :
              u.players[p].noRespawn = moved.players[p].noRespawn
        BY <2>7, <2>10
      <4> QED BY <2>10, <4>1 DEF RespawnOk
    <3>2. ReadyOk(moved) => ReadyOk(u)
      BY <2>7, <2>10 DEF ReadyOk
    <3>3. RespawnOk(moved) /\ WatchersOk(moved) => WatchersOk(u)
      BY <2>7, <2>10 DEF RespawnOk, WatchersOk
    <3> QED BY <3>1, <3>2, <3>3 DEF PlayersOk
  <2>13. SameRoster(r, moved)
    <3>1. \A p \in m : r.players[p].team # TEAM_SPECTATORS
      BY DEF Active
    <3> QED BY <2>1, <2>4, <2>6, <3>1 DEF SameRoster
  <2>14. SizesTrue(r) /\ CanBalance(r, m)
           => ~NeedsBalance(u) /\ CanBalance(u, m) /\ Watchful(u)
    BY <2>9, <2>11 DEF CanBalance, Watchful
  <2>15. SameRoster(r, u)
    BY <2>11, <2>13 DEF SameRoster
  <2>16. SameLoop(r, u)
    BY <1>0, <1>1, <1>3, RebalanceSame DEF SameState
  <2> QED BY <1>1, <1>3, <2>4, <2>5, <2>11, <2>12, <2>14, <2>15, <2>16
          DEF Keeps
<1> QED BY <1>2, <1>3

-----------------------------------------------------------------------------
(* Matches and rounds.                                                     *)

\* A match or a round that starts has enough players and balanced teams.
StartsWell(r, s, m) ==
    r.state \in Warmups \cup {END_MATCH, END_ROUND} =>
        /\ s.state # GAME_PAUSED
        /\ s.state \in {START_COUNTDOWN, GAME_RUNNING} =>
             /\ HasEnoughPlayers(s)
             /\ SizesTrue(r) /\ CanBalance(r, m) => ~NeedsBalance(s)

\* A warmup without end that waits for nobody's readiness waits for players.
Lacks(r) == /\ r.state \in Warmups /\ r.timer = TIMER_INFINITE
            /\ ~ReadyToStart(r)
            => ~HasEnoughPlayers(r)

\* What the operators that may start a match do, with the players m to balance
Begins(r, s, m) == /\ Keeps(r, s, m) /\ StartsWell(r, s, m)
                   /\ PlayersOk(r) => AsksAll(s)
                   /\ Lacks(s)

LEMMA KeepsBegins ==
    ASSUME NEW r, NEW s, NEW u, NEW m, Keeps(r, s, m), Begins(s, u, m),
           s.state \in Warmups \cup {END_MATCH, END_ROUND}
             \/ r.state \notin Warmups \cup {END_MATCH, END_ROUND}
    PROVE  Begins(r, u, m)
<1>1. Keeps(r, u, m)
  BY KeepsTrans DEF Begins
<1>2. StartsWell(r, u, m)
  BY DEF Begins, StartsWell, Keeps
<1> QED BY <1>1, <1>2 DEF Begins, Keeps

LEMMA ResetGameKeeps ==
    ASSUME NEW r, GoodRoom(r), NEW m \in SUBSET Active(r)
    PROVE  LET s == ResetGame(r, m) IN
           /\ Keeps(r, s, m)
           /\ SizesTrue(r) /\ CanBalance(r, m) => ~NeedsBalance(s)
<1> DEFINE q == [r EXCEPT !.resetRequested = TRUE]
           u == ToRunning(q)
<1> r \in Room
  BY GoodType
<1>1. GoodRoom(q)
  BY DEF GoodRoom, Room, Patient, Coherent
<1>2. q.players = r.players /\ SameTeams(r, q)
      /\ q.state = r.state
  BY DEF Room
<1> HIDE DEF q
<1>3. Keeps(r, q, m)
  BY <1>2, SamePlayersKeep, SamePlacesKeeps
<1>4. Keeps(q, u, m) /\ u \in Room
  BY <1>1, ToRunningKeeps, ToRunningGood, SamePlacesKeeps, GoodType
<1>5. ResetGame(r, m) = Rebalance(u, m)
  BY DEF ResetGame, q
<1> HIDE DEF u
<1>6. Keeps(r, u, m)
  BY <1>3, <1>4, KeepsTrans
<1>7. m \in SUBSET Active(u)
  BY <1>6, SameRosterReads DEF Keeps
<1>8. /\ Keeps(u, Rebalance(u, m), m)
      /\ SizesTrue(u) /\ CanBalance(u, m) => ~NeedsBalance(Rebalance(u, m))
  BY <1>4, <1>7, RebalanceKeeps
<1> QED BY <1>5, <1>6, <1>8, KeepsTrans DEF Keeps

LEMMA WaitForPlayersBegins ==
    ASSUME NEW r, GoodRoom(r), NEW m,
           HasEnoughPlayers(r) => r.state \notin {GAME_RUNNING} \cup Warmups
    PROVE  Begins(r, WaitForPlayers(r), m)
<1> DEFINE s == WaitForPlayers(r)
<1>1. Keeps(r, s, m) /\ SamePlaces(r, s)
  BY WaitForPlayersKeeps, SamePlacesKeeps
<1>2. /\ GoodRoom(s)
      /\ IF r.state \in {GAME_RUNNING} \cup Warmups
         THEN s.state = WARMUP_GAME ELSE s = r
  BY WaitForPlayersGood
<1> HIDE DEF s
<1>3. StartsWell(r, s, m)
  BY <1>2 DEF StartsWell, Warmups
<1>4. AsksAll(s)
  BY <1>2 DEF AsksAll, Warmups
<1>5. Lacks(s)
  BY <1>1, <1>2, SamePlacesReads DEF Lacks, Warmups
<1> QED BY <1>1, <1>3, <1>4, <1>5 DEF Begins, s

LEMMA ToCountdownBegins ==
    ASSUME NEW r, GoodRoom(r), NEW m, r.state = GAME_RUNNING
    PROVE  Begins(r, ToCountdown(r), m)
<1> DEFINE s == ToCountdown(r)
<1>1. Keeps(r, s, m)
  BY ToCountdownKeeps, SamePlacesKeeps
<1>2. s.state \in {GAME_RUNNING, START_COUNTDOWN}
  BY ToCountdownGood
<1> HIDE DEF s
<1> QED BY <1>1, <1>2 DEF Begins, StartsWell, AsksAll, Lacks, Warmups, s

LEMMA StartMatchBegins ==
    ASSUME NEW r, GoodRoom(r), NEW m \in SUBSET Active(r)
    PROVE  Begins(r, StartMatch(r, m), m)
<1> DEFINE g == ResetGame(r, m)
           reset == [g EXCEPT !.fresh = TRUE, !.suddenDeath = FALSE]
           f == [p \in Players |-> [reset.players[p] EXCEPT !.pauses = 0]]
           new == [reset EXCEPT !.players = f]
           s == StartMatch(r, m)
<1>1. s = IF IsWarmup(r) /\ ~HasEnoughPlayers(r) THEN WaitForPlayers(r)
          ELSE IF HasEnoughPlayers(new) THEN ToCountdown(new)
          ELSE ToWarmup(new, TIMER_INFINITE)
  BY DEF StartMatch
<1>2. CASE IsWarmup(r) /\ ~HasEnoughPlayers(r)
  BY <1>1, <1>2, WaitForPlayersBegins
<1>3. CASE ~(IsWarmup(r) /\ ~HasEnoughPlayers(r))
  <2>1. GoodRoom(g) /\ g.state = GAME_RUNNING /\ g \in Room
    BY ActiveType, ResetGameGood, GoodType
  <2>2. /\ Keeps(r, g, m)
        /\ SizesTrue(r) /\ CanBalance(r, m) => ~NeedsBalance(g)
    BY ResetGameKeeps
  <2> HIDE DEF g
  <2>3. /\ GoodRoom(reset) /\ reset.players = g.players /\ SameTeams(g, reset)
        /\ reset.state = GAME_RUNNING /\ reset \in Room
    BY <2>1 DEF GoodRoom, Room, Patient, Coherent
  <2> HIDE DEF reset
  <2>4. SamePlaces(g, reset) /\ (PlayersOk(g) => PlayersOk(reset))
    BY <2>1, <2>3, SamePlayersKeep
  <2>5. ASSUME NEW p \in Players
        PROVE  LET x == f[p]
                   y == reset.players[p]
               IN  /\ x \in Player
                   /\ x.inRoom = y.inRoom /\ x.team = y.team
                   /\ x.toTeam = y.toTeam /\ x.ready = y.ready
                   /\ x.noRespawn = y.noRespawn /\ x.deadSpec = y.deadSpec
    <3>1. reset.players[p] \in Player
      BY <2>3, PlayerType
    <3> QED BY <3>1 DEF Player
  <2>6. f \in [Players -> Player]
    BY <2>5
  <2> HIDE DEF f
  <2>7. /\ new \in Room /\ SameGame(reset, new) /\ new.players = f
    BY <2>3, <2>6, PlayersUpdate DEF Room
  <2>8. GoodRoom(new) /\ new.state = GAME_RUNNING
    BY <2>3, <2>7, SameGameGood DEF SameGame
  <2> HIDE DEF new
  <2>9. SamePlaces(reset, new) /\ (PlayersOk(reset) => PlayersOk(new))
    BY <2>5, <2>7 DEF SamePlaces, SameGame, SameTeams, PlayersOk, RespawnOk,
                      ReadyOk, WatchersOk
  <2>10. SamePlaces(g, new) /\ Keeps(g, new, m)
    BY <2>4, <2>9, SamePlacesTrans, SamePlacesKeeps
  <2>11. Keeps(r, new, m)
    BY <2>2, <2>10, KeepsTrans
  <2>12. SizesTrue(r) /\ CanBalance(r, m) => ~NeedsBalance(new)
    BY <2>2, <2>10, SamePlacesReads
  <2>13. CASE HasEnoughPlayers(new)
    <3>1. s = ToCountdown(new)
      BY <1>1, <1>3, <2>13
    <3>2. Begins(new, s, m) /\ SamePlaces(new, s)
      BY <2>8, <3>1, ToCountdownBegins, ToCountdownKeeps
    <3>3. s.state \in {GAME_RUNNING, START_COUNTDOWN}
      BY <2>8, <3>1, ToCountdownGood
    <3> HIDE DEF s
    <3>4. StartsWell(r, s, m)
      BY <2>12, <2>13, <3>2, <3>3, SamePlacesReads DEF StartsWell
    <3> QED BY <2>11, <3>2, <3>4, KeepsTrans DEF Begins, Keeps, s
  <2>14. CASE ~HasEnoughPlayers(new)
    <3>1. s = ToWarmup(new, TIMER_INFINITE) /\ TIMER_INFINITE \in Seconds
      BY <1>1, <1>3, <2>14 DEF Seconds
    <3>2. CanWarmup(new)
      BY <2>8 DEF CanWarmup
    <3>3. /\ SamePlaces(new, s) /\ (PlayersOk(new) => PlayersOk(s))
          /\ PlayersOk(new) => AsksAll(s)
      BY <2>8, <3>1, <3>2, ToWarmupKeeps
    <3>4. s.state = WARMUP_USER
      BY <2>8, <3>1, <3>2, ToWarmupGood
    <3> HIDE DEF s
    <3>5. Keeps(r, s, m)
      BY <2>11, <3>3, SamePlacesKeeps, KeepsTrans
    <3>6. StartsWell(r, s, m) /\ Lacks(s)
      BY <2>14, <3>3, <3>4, SamePlacesReads DEF StartsWell, Lacks
    <3> QED BY <2>11, <3>3, <3>5, <3>6 DEF Begins, Keeps, s
  <2> QED BY <2>13, <2>14
<1> QED BY <1>2, <1>3

LEMMA StartRoundBegins ==
    ASSUME NEW r, GoodRoom(r), NEW m \in SUBSET Active(r)
    PROVE  Begins(r, StartRound(r, m), m)
<1> DEFINE reset == ResetGame(r, m)
           b == reset.fresh \/ Survival
           new == [reset EXCEPT !.fresh = b]
           s == StartRound(r, m)
<1>1. s = IF IsWarmup(r) /\ ~HasEnoughPlayers(r) THEN WaitForPlayers(r)
          ELSE IF HasEnoughPlayers(new) THEN ToCountdown(new)
          ELSE WaitForPlayers(new)
  BY DEF StartRound
<1>2. CASE IsWarmup(r) /\ ~HasEnoughPlayers(r)
  BY <1>1, <1>2, WaitForPlayersBegins
<1>3. CASE ~(IsWarmup(r) /\ ~HasEnoughPlayers(r))
  <2>1. GoodRoom(reset) /\ reset.state = GAME_RUNNING /\ b \in BOOLEAN
    BY ActiveType, ResetGameGood
  <2>2. /\ Keeps(r, reset, m)
        /\ SizesTrue(r) /\ CanBalance(r, m) => ~NeedsBalance(reset)
    BY ResetGameKeeps
  <2> HIDE DEF reset, b
  <2>3. /\ GoodRoom(new) /\ new.players = reset.players
        /\ SameTeams(reset, new)
        /\ new.state = reset.state
    BY <2>1 DEF GoodRoom, Room, Patient, Coherent
  <2> HIDE DEF new
  <2>4. SamePlaces(reset, new) /\ (PlayersOk(reset) => PlayersOk(new))
    BY <2>3, SamePlayersKeep
  <2>5. Keeps(r, new, m)
    BY <2>2, <2>4, SamePlacesKeeps, KeepsTrans
  <2>6. SizesTrue(r) /\ CanBalance(r, m) => ~NeedsBalance(new)
    BY <2>2, <2>4, SamePlacesReads
  <2>7. CASE HasEnoughPlayers(new)
    <3>1. s = ToCountdown(new)
      BY <1>1, <1>3, <2>7
    <3>2. Begins(new, s, m) /\ SamePlaces(new, s)
      BY <2>1, <2>3, <3>1, ToCountdownBegins, ToCountdownKeeps
    <3>3. s.state \in {GAME_RUNNING, START_COUNTDOWN}
      BY <2>1, <2>3, <3>1, ToCountdownGood
    <3> HIDE DEF s
    <3>4. StartsWell(r, s, m)
      BY <2>6, <2>7, <3>2, <3>3, SamePlacesReads DEF StartsWell
    <3> QED BY <2>5, <3>2, <3>4, KeepsTrans DEF Begins, Keeps, s
  <2>8. CASE ~HasEnoughPlayers(new)
    <3>1. s = WaitForPlayers(new)
      BY <1>1, <1>3, <2>8
    <3>2. Begins(new, s, m)
      BY <2>3, <2>8, <3>1, WaitForPlayersBegins
    <3>3. s.state = WARMUP_GAME
      BY <2>1, <2>3, <3>1, WaitForPlayersGood
    <3> HIDE DEF s
    <3>4. StartsWell(r, s, m)
      BY <3>3 DEF StartsWell
    <3> QED BY <2>5, <3>2, <3>4, KeepsTrans DEF Begins, Keeps, s
  <2> QED BY <2>7, <2>8
<1> QED BY <1>2, <1>3

LEMMA DoWarmupBegins ==
    ASSUME NEW r, GoodRoom(r), NEW seconds \in Nat, NEW m \in SUBSET Active(r)
    PROVE  Begins(r, DoWarmup(r, seconds, m), m)
<1> DEFINE s == ToWarmup(r, seconds)
<1>1. CASE seconds # 0
  <2>1. DoWarmup(r, seconds, m) = s /\ seconds \in Seconds
    BY <1>1 DEF DoWarmup, Seconds
  <2>2. /\ SamePlaces(r, s) /\ (PlayersOk(r) => PlayersOk(s))
        /\ PlayersOk(r) /\ CanWarmup(r) => AsksAll(s)
        /\ CanWarmup(r) => s.timer # TIMER_INFINITE
        /\ IF CanWarmup(r) THEN s.state = WARMUP_USER ELSE s = r
    BY <2>1, ToWarmupKeeps, ToWarmupGood
  <2> HIDE DEF s
  <2>3. Keeps(r, s, m)
    BY <2>2, SamePlacesKeeps
  <2>4. ~CanWarmup(r) => r.state \notin Warmups \cup {GAME_RUNNING}
    BY DEF CanWarmup
  <2>5. /\ StartsWell(r, s, m) /\ Lacks(s)
        /\ PlayersOk(r) => AsksAll(s)
    BY <2>2, <2>4 DEF StartsWell, Lacks, AsksAll, Warmups
  <2> QED BY <2>1, <2>3, <2>5 DEF Begins
<1>2. CASE seconds = 0 /\ CanWarmup(r)
  BY <1>2, StartMatchBegins DEF DoWarmup
<1>3. CASE seconds = 0 /\ ~CanWarmup(r)
  <2>1. DoWarmup(r, seconds, m) = r
    BY <1>3 DEF DoWarmup
  <2>2. r.state \notin Warmups \cup {GAME_RUNNING}
    BY <1>3 DEF CanWarmup
  <2>3. Keeps(r, r, m)
    BY SamePlacesRefl, SamePlacesKeeps
  <2>4. StartsWell(r, r, m) /\ Lacks(r) /\ AsksAll(r)
    BY <2>2 DEF StartsWell, Lacks, AsksAll, Warmups
  <2> QED BY <2>1, <2>3, <2>4 DEF Begins
<1> QED BY <1>1, <1>2, <1>3

\* An attempt to start a match: it changes nothing or does what Begins says.
Tries(r, s, m) == /\ Keeps(r, s, m) /\ StartsWell(r, s, m)
                  /\ s = r \/ (PlayersOk(r) => AsksAll(s))
                  /\ Lacks(s)

LEMMA TriesNothing ==
    ASSUME NEW r, NEW m, Lacks(r)
    PROVE  Tries(r, r, m)
<1>1. Keeps(r, r, m)
  BY SamePlacesRefl, SamePlacesKeeps
<1>2. StartsWell(r, r, m)
  BY DEF StartsWell, Warmups
<1> QED BY <1>1, <1>2 DEF Tries

LEMMA TryWarmupTries ==
    ASSUME NEW r, GoodRoom(r), NEW fallback \in BOOLEAN,
           NEW m \in SUBSET Active(r)
    PROVE  Tries(r, TryWarmup(r, fallback, m), m)
<1> DEFINE q == SetPlayersReadyState(r, TRUE)
           s == TryWarmup(r, fallback, m)
<1>1. CASE r.state \notin Warmups \/ r.timer # TIMER_INFINITE
  BY <1>1, TriesNothing DEF TryWarmup, Lacks
<1>2. CASE /\ r.state \in Warmups /\ r.timer = TIMER_INFINITE
           /\ ~HasEnoughPlayers(r)
  <2>1. CASE ~fallback
    BY <1>2, <2>1, TriesNothing DEF TryWarmup, Lacks
  <2>2. CASE fallback
    <3>1. s = WaitForPlayers(q)
      BY <1>2, <2>2 DEF TryWarmup
    <3>2. GoodRoom(q) /\ q.state = r.state
      BY GoodType, SetPlayersReadyStateSame, SameGameGood DEF SameGame
    <3>3. SamePlaces(r, q) /\ (PlayersOk(r) => PlayersOk(q))
      BY GoodType, SetReadySame DEF PlayersOk
    <3>4. Keeps(r, q, m) /\ ~HasEnoughPlayers(q)
      BY <1>2, <3>3, SamePlacesReads, SamePlacesKeeps
    <3>5. Begins(q, s, m)
      BY <3>1, <3>2, <3>4, WaitForPlayersBegins
    <3> HIDE DEF q, s
    <3>6. Begins(r, s, m)
      BY <1>2, <3>2, <3>4, <3>5, KeepsBegins
    <3> QED BY <3>6 DEF Begins, Tries, s
  <2> QED BY <2>1, <2>2
<1>3. CASE /\ r.state \in Warmups /\ r.timer = TIMER_INFINITE
           /\ HasEnoughPlayers(r)
  <2>1. CanWarmup(r) /\ r.cfg.warmup \in Nat /\ TIMER_INFINITE \in Seconds
    BY <1>3, GoodType DEF CanWarmup, Config, Seconds
  <2>2. CASE ~ReadyToStart(r)
    <3>1. s = DoWarmup(r, r.cfg.warmup, m)
      BY <1>3, <2>2 DEF TryWarmup
    <3> QED BY <2>1, <3>1, DoWarmupBegins DEF Begins, Tries
  <2>3. CASE ReadyToStart(r) /\ r.state = WARMUP_USER
    BY <1>3, <2>3, TriesNothing DEF TryWarmup, Lacks
  <2>4. CASE ReadyToStart(r) /\ r.state # WARMUP_USER
    <3>1. s = ToWarmup(r, TIMER_INFINITE)
      BY <1>3, <2>4 DEF TryWarmup
    <3>2. /\ SamePlaces(r, s) /\ (PlayersOk(r) => PlayersOk(s))
          /\ PlayersOk(r) => AsksAll(s)
          /\ s.state = WARMUP_USER
      BY <2>1, <3>1, ToWarmupKeeps, ToWarmupGood
    <3> HIDE DEF s
    <3>3. Keeps(r, s, m) /\ ReadyToStart(s)
      BY <2>4, <3>2, SamePlacesReads, SamePlacesKeeps
    <3>4. StartsWell(r, s, m) /\ Lacks(s)
      BY <3>2, <3>3 DEF StartsWell, Lacks
    <3> QED BY <3>2, <3>3, <3>4 DEF Tries, s
  <2> QED BY <2>2, <2>3, <2>4
<1> QED BY <1>1, <1>2, <1>3

LEMMA EmptyIsBalanced ==
    ASSUME NEW r \in Room, HasNoPlayers(r)
    PROVE  ~NeedsBalance(r)
BY DEF HasNoPlayers, NeedsBalance, Difference, BiggerSide, Other, Room

LEMMA EmptyLacksPlayers ==
    ASSUME NEW r \in Room, HasNoPlayers(r)
    PROVE  ~HasEnoughPlayers(r)
BY DEF HasNoPlayers, HasEnoughPlayers, Room, Config

\* The game is reset, and waits for players before anything else.
LEMMA ResetMatchTries ==
    ASSUME NEW r, GoodRoom(r), NEW m \in SUBSET Active(r)
    PROVE  LET s == ResetMatch(r, m) IN
           /\ Begins(r, s, m)
           /\ HasNoPlayers(r) => s.state = WARMUP_GAME
<1> DEFINE g == ResetGame(r, m)
           new == [g EXCEPT !.fresh = TRUE, !.suddenDeath = FALSE]
           w == WaitForPlayers(new)
           s == ResetMatch(r, m)
<1>1. GoodRoom(g) /\ g.state = GAME_RUNNING
  BY ActiveType, ResetGameGood
<1>2. Keeps(r, g, m)
  BY ResetGameKeeps
<1>3. s = TryWarmup(w, FALSE, m)
  BY DEF ResetMatch
<1> HIDE DEF g, s
<1>4. /\ GoodRoom(new) /\ new.players = g.players /\ SameTeams(g, new)
      /\ new.state = GAME_RUNNING
  BY <1>1 DEF GoodRoom, Room, Patient, Coherent
<1> HIDE DEF new
<1>5. Keeps(g, new, m)
  BY <1>1, <1>4, SamePlayersKeep, SamePlacesKeeps
<1>6. Keeps(new, w, m) /\ GoodRoom(w) /\ w.state = WARMUP_GAME
  BY <1>4, WaitForPlayersKeeps, WaitForPlayersGood, SamePlacesKeeps
<1> HIDE DEF w
<1>7. Keeps(r, w, m)
  BY <1>2, <1>5, <1>6, KeepsTrans
<1>8. m \in SUBSET Active(w)
  BY <1>7, SameRosterReads DEF Keeps
<1>9. Tries(w, s, m)
  BY <1>3, <1>6, <1>8, TryWarmupTries
<1>10. s = w \/ Begins(w, s, m)
  BY <1>9 DEF Tries, Begins
<1>11. Begins(w, s, m)
  <2>1. AsksAll(w)
    BY <1>6 DEF AsksAll
  <2> QED BY <1>9, <1>10, <2>1 DEF Tries, Begins
<1>12. Begins(r, s, m)
  BY <1>6, <1>7, <1>11, KeepsBegins DEF Warmups
<1>13. HasNoPlayers(r) => s.state = WARMUP_GAME
  <2> SUFFICES ASSUME HasNoPlayers(r) PROVE s.state = WARMUP_GAME
    OBVIOUS
  <2>1. SamePlaces(r, w)
    BY <1>7, EmptyIsBalanced, GoodType DEF Keeps
  <2>2. ~HasEnoughPlayers(w)
    BY <2>1, EmptyLacksPlayers, GoodType, SamePlacesReads
  <2>3. s = w
    BY <1>3, <2>2 DEF TryWarmup
  <2> QED BY <1>6, <2>3
<1> QED BY <1>12, <1>13 DEF s

\* An empty room waits for players afterwards.
LEMMA TryStartWarmupTries ==
    ASSUME NEW r, GoodRoom(r), NEW fallback \in BOOLEAN,
           NEW m \in SUBSET Active(r)
    PROVE  LET s == TryStartWarmup(r, fallback, m) IN
           /\ Tries(r, s, m)
           /\ HasNoPlayers(r) => s.state = WARMUP_GAME
<1> DEFINE s == TryStartWarmup(r, fallback, m)
<1>1. CASE r.state # WARMUP_GAME /\ HasNoPlayers(r)
  <2>1. s = ResetMatch(r, m)
    BY <1>1 DEF TryStartWarmup
  <2> QED BY <1>1, <2>1, ResetMatchTries DEF Begins, Tries
<1>2. CASE ~(r.state # WARMUP_GAME /\ HasNoPlayers(r))
  <2>1. s = TryWarmup(r, fallback, m)
    BY <1>2 DEF TryStartWarmup
  <2>2. Tries(r, s, m)
    BY <2>1, TryWarmupTries
  <2>3. ASSUME HasNoPlayers(r) PROVE s.state = WARMUP_GAME
    <3> DEFINE q == SetPlayersReadyState(r, TRUE)
    <3>1. ~HasEnoughPlayers(r) /\ r.state = WARMUP_GAME
      BY <1>2, <2>3, GoodType, EmptyLacksPlayers
    <3>2. s \in {r, WaitForPlayers(q)}
      BY <2>1, <3>1 DEF TryWarmup
    <3>3. GoodRoom(q) /\ q.state = WARMUP_GAME
      BY <3>1, GoodType, SetPlayersReadyStateSame, SameGameGood DEF SameGame
    <3> HIDE DEF q, s
    <3>4. WaitForPlayers(q).state = WARMUP_GAME
      BY <3>3, WaitForPlayersGood DEF Warmups
    <3> QED BY <3>1, <3>2, <3>4
  <2> QED BY <2>2, <2>3
<1> QED BY <1>1, <1>2

-----------------------------------------------------------------------------
(* The ready states.                                                       *)

\* The readiness of all that play is asked for and somebody's is missing.
Unready(r, ps) == \E p \in Active(r) \ ps : ~r.players[p].ready
WaitOk(r) ==
    /\ ~Survival /\ ReadyToStart(r)
    /\ r.state = WARMUP_USER /\ r.timer = TIMER_INFINITE
    /\ Active(r) # {}
    => Unready(r, {})

LEMMA AsksAllWaits ==
    ASSUME NEW r, AsksAll(r)
    PROVE  WaitOk(r)
BY DEF AsksAll, WaitOk, Unready

LEMMA CheckReadyStatesKeeps ==
    ASSUME NEW r, GoodRoom(r), NEW ps, NEW m \in SUBSET Active(r)
    PROVE  LET s == CheckReadyStates(r, ps, m) IN
           /\ Keeps(r, s, m) /\ StartsWell(r, s, m)
           /\ Lacks(r) => Lacks(s)
           /\ PlayersOk(r) => AsksAll(s) \/ (s = r /\ Unready(r, ps))
<1> DEFINE s == CheckReadyStates(r, ps, m)
<1>1. Keeps(r, r, m) /\ StartsWell(r, r, m)
  BY SamePlacesRefl, SamePlacesKeeps DEF StartsWell, Warmups
<1>2. CASE s = r /\ (AsksAll(r) \/ Unready(r, ps))
  BY <1>1, <1>2
<1>3. CASE r.cfg.readyMode = 0
  BY <1>2, <1>3 DEF CheckReadyStates, AsksAll, ReadyToStart
<1>4. CASE ~AllReady(r, ps)
  BY <1>2, <1>4 DEF CheckReadyStates, AllReady, Unready
<1>5. CASE r.cfg.readyMode # 0 /\ AllReady(r, ps)
  <2>1. CASE r.state = WARMUP_USER /\ r.timer = TIMER_INFINITE
    <3>1. s = DoWarmup(r, r.cfg.warmup, m) /\ r.cfg.warmup \in Nat
      BY <1>5, <2>1, GoodType DEF CheckReadyStates, Config
    <3> QED BY <3>1, DoWarmupBegins DEF Begins
  <2>2. CASE r.state = GAME_PAUSED
    <3>1. s = ToPaused(r, 0) /\ 0 \in Seconds
      BY <1>5, <2>2 DEF CheckReadyStates, Seconds
    <3>2. SamePlaces(r, s) /\ (PlayersOk(r) => PlayersOk(s))
      BY <3>1, ToPausedKeeps
    <3>3. s.state \notin Warmups
      BY <2>2, <3>1, ToPausedGood DEF Warmups
    <3> HIDE DEF s
    <3>4. Keeps(r, s, m) /\ StartsWell(r, s, m)
      BY <2>2, <3>2, SamePlacesKeeps DEF StartsWell, Warmups
    <3>5. AsksAll(s) /\ Lacks(s)
      BY <3>3 DEF AsksAll, Lacks, Warmups
    <3> QED BY <3>4, <3>5 DEF s
  <2>3. CASE /\ ~(r.state = WARMUP_USER /\ r.timer = TIMER_INFINITE)
             /\ r.state # GAME_PAUSED
    BY <1>2, <1>5, <2>3 DEF CheckReadyStates, AsksAll
  <2> QED BY <2>1, <2>2, <2>3
<1> QED BY <1>3, <1>4, <1>5

\* What OnInternalPlayerLeave and DoTeamChange do after they moved a player
Rally(r, ps, m) == TryStartWarmup(CheckReadyStates(r, ps, m), TRUE, m)

LEMMA RallyTries ==
    ASSUME NEW r, GoodRoom(r), NEW ps, NEW m \in SUBSET Active(r)
    PROVE  LET s == Rally(r, ps, m) IN
           /\ GoodRoom(s) /\ Keeps(r, s, m) /\ StartsWell(r, s, m) /\ Lacks(s)
           /\ PlayersOk(r) => AsksAll(s) \/ (s = r /\ Unready(r, ps))
           /\ HasNoPlayers(r) => s.state = WARMUP_GAME
<1> DEFINE a == CheckReadyStates(r, ps, m)
           s == Rally(r, ps, m)
<1>0. m \in SUBSET Players
  BY ActiveType
<1>1. /\ Keeps(r, a, m) /\ StartsWell(r, a, m)
      /\ PlayersOk(r) => AsksAll(a) \/ (a = r /\ Unready(r, ps))
      /\ GoodRoom(a)
  BY <1>0, CheckReadyStatesKeeps, CheckReadyStatesGood
<1>2. s = TryStartWarmup(a, TRUE, m)
  BY DEF Rally
<1> HIDE DEF a, s
<1>3. m \in SUBSET Active(a)
  BY <1>1, SameRosterReads DEF Keeps
<1>4. Tries(a, s, m) /\ (HasNoPlayers(a) => s.state = WARMUP_GAME) /\ GoodRoom(s)
  BY <1>0, <1>1, <1>2, <1>3, TryStartWarmupTries, TryStartWarmupGood
<1>5. Keeps(r, s, m)
  BY <1>1, <1>4, KeepsTrans DEF Tries
<1>6. HasNoPlayers(r) => s.state = WARMUP_GAME
  <2> SUFFICES ASSUME HasNoPlayers(r) PROVE HasNoPlayers(a)
    BY <1>4
  <2> QED BY <1>1, GoodType, EmptyIsBalanced, SamePlacesReads DEF Keeps
<1>7. PlayersOk(r) => AsksAll(s) \/ (s = r /\ Unready(r, ps))
  BY <1>1, <1>4 DEF Tries, Keeps
<1>8. StartsWell(r, s, m)
  <2> SUFFICES ASSUME r.state \in Warmups \cup {END_MATCH, END_ROUND}
               PROVE  StartsWell(r, s, m)
    BY DEF StartsWell
  <2>1. CASE a.state \in {START_COUNTDOWN, GAME_RUNNING}
    <3>1. HasEnoughPlayers(a)
      BY <1>1, <2>1 DEF StartsWell
    <3>2. ~HasNoPlayers(a)
      BY <1>1, <3>1, GoodType, EmptyLacksPlayers
    <3>3. s = a
      BY <1>2, <2>1, <3>2 DEF TryStartWarmup, TryWarmup, Warmups
    <3> QED BY <1>1, <3>3
  <2>2. CASE a.state \notin {START_COUNTDOWN, GAME_RUNNING}
    <3>1. a.state \in Warmups \cup {END_MATCH, END_ROUND}
      <4>1. a.state # GAME_PAUSED /\ a.state \in GameStates
        BY <1>1, GoodType DEF StartsWell, Room
      <4> QED BY <2>2, <4>1 DEF GameStates, Warmups
    <3> QED BY <1>1, <1>4, <3>1 DEF StartsWell, Tries, Keeps
  <2> QED BY <2>1, <2>2
<1> QED BY <1>4, <1>5, <1>6, <1>7, <1>8 DEF Tries, s

-----------------------------------------------------------------------------
(* Steps.                                                                  *)

Starting(r) == r.state \in Warmups \cup {END_MATCH, END_ROUND}
Started(r) == r.state \in {START_COUNTDOWN, GAME_RUNNING}

\* Only who is in the room is moved by a command.
PendingOk(r) ==
    \A p \in Players : r.players[p].toTeam # NoTeam => r.players[p].inRoom

\* The settings that decide whether leaving may balance the teams
SamePlan(r, s) == /\ s.cfg.balance = r.cfg.balance
                  /\ s.cfg.readyMode = r.cfg.readyMode

\* What every step from room r to room s does, but for those that change the
\* ready mode, abort a warmup or let a player leave.
Goes(r, s) ==
    /\ PlayersOk(r) => PlayersOk(s)
    /\ PlayersOk(r) /\ WaitOk(r) => WaitOk(s)
    /\ Lacks(r) => Lacks(s)
    /\ SamePlan(r, s)
    /\ PendingOk(r) => PendingOk(s)
    /\ SizesTrue(r) => SizesTrue(s)
    /\ (Teamplay => SizesTrue(r)) /\ ~HasNoPlayers(r) /\ HasNoPlayers(s)
         => s.state = WARMUP_GAME
    /\ Starting(r) /\ Started(s) =>
         HasEnoughPlayers(s) /\ (SizesTrue(r) => ~NeedsBalance(s))

\* Nobody moves, comes or leaves, and minimum_players is the same.
Stays(r, s) ==
    /\ s.size = r.size /\ SamePlan(r, s)
    /\ s.cfg.minimumPlayers = r.cfg.minimumPlayers
    /\ \A p \in Players : /\ s.players[p].inRoom = r.players[p].inRoom
                          /\ s.players[p].team = r.players[p].team
    /\ PendingOk(r) => PendingOk(s)
    /\ PlayersOk(r) => PlayersOk(s)
    /\ PlayersOk(r) /\ WaitOk(r) => WaitOk(s)

\* Nor does the game go on, or it ends.
Settles(r, s) ==
    /\ Stays(r, s)
    /\ \/ s.state = r.state /\ (r.state \in Warmups => s.timer = r.timer)
       \/ /\ r.state \in {GAME_RUNNING, GAME_PAUSED}
          /\ s.state \in {END_MATCH, END_ROUND}

LEMMA StaysReads ==
    ASSUME NEW r, NEW s, Stays(r, s)
    PROVE  /\ InRoom(s) = InRoom(r) /\ Active(s) = Active(r)
           /\ SizesTrue(s) <=> SizesTrue(r)
           /\ NeedsBalance(s) <=> NeedsBalance(r)
           /\ HasEnoughPlayers(s) <=> HasEnoughPlayers(r)
           /\ HasNoPlayers(s) <=> HasNoPlayers(r)
           /\ ReadyToStart(s) <=> ReadyToStart(r)
<1>1. InRoom(s) = InRoom(r)
  BY DEF Stays, InRoom
<1>2. Active(s) = Active(r)
  BY <1>1 DEF Stays, Active, InRoom
<1>3. \A t : Side(s, t) = Side(r, t)
  BY <1>1 DEF Stays, Side, InRoom
<1>4. SizesTrue(s) <=> SizesTrue(r)
  BY <1>3 DEF Stays, SizesTrue
<1>5. NeedsBalance(s) <=> NeedsBalance(r)
  BY DEF Stays, SamePlan, BiggerSide, Difference, NeedsBalance
<1> QED BY <1>1, <1>2, <1>4, <1>5
        DEF Stays, SamePlan, HasEnoughPlayers, HasNoPlayers, ReadyToStart

LEMMA SamePlacesStays ==
    ASSUME NEW r, NEW s, SamePlaces(r, s), PlayersOk(r) => PlayersOk(s),
           PlayersOk(r) /\ WaitOk(r) => WaitOk(s)
    PROVE  Stays(r, s)
BY DEF SamePlaces, Stays, SamePlan, PendingOk

\* Who is ready decides about nothing but a warmup that waits for it.
LEMMA SamePlacesMove ==
    ASSUME NEW r, NEW s, SamePlaces(r, s), PlayersOk(r) => PlayersOk(s),
           s.state # WARMUP_USER
    PROVE  Stays(r, s)
BY SamePlacesStays DEF WaitOk

LEMMA StaysGoes ==
    ASSUME NEW r, NEW s, Stays(r, s),
           \/ s.state = r.state /\ s.timer = r.timer
           \/ s.state \notin Warmups /\ (Started(s) => ~Starting(r))
    PROVE  Goes(r, s)
<1>1. Lacks(r) => Lacks(s)
  BY StaysReads DEF Lacks
<1>2. ~(Starting(r) /\ Started(s))
  BY DEF Starting, Started, Warmups
<1> QED BY <1>1, <1>2, StaysReads DEF Goes, Stays

LEMMA SettlesGoes ==
    ASSUME NEW r, NEW s, Settles(r, s)
    PROVE  Goes(r, s)
BY StaysGoes DEF Settles, Starting, Started, Warmups

LEMMA GoesSettles ==
    ASSUME NEW r, NEW s, NEW u, Goes(r, s), Settles(s, u)
    PROVE  Goes(r, u)
<1>1. Stays(s, u)
  BY DEF Settles
<1>2. Lacks(s) => Lacks(u)
  BY <1>1, SettlesGoes DEF Goes
<1>3. HasNoPlayers(u) /\ s.state = WARMUP_GAME => u.state = WARMUP_GAME
  BY DEF Settles
<1>4. Started(u) => Started(s)
  BY DEF Settles, Started
<1>5. SamePlan(r, u)
  BY <1>1 DEF Goes, Stays, SamePlan
<1> QED BY <1>1, <1>2, <1>3, <1>4, <1>5, StaysReads DEF Goes, Stays

LEMMA SettlesTrans ==
    ASSUME NEW r, NEW s, NEW u, Settles(r, s), Settles(s, u)
    PROVE  Settles(r, u)
<1>1. Stays(r, u)
  BY DEF Settles, Stays, SamePlan
<1> QED BY <1>1 DEF Settles

\* What the balancer needs of a step from room r to room s that no loop takes:
\* it is woken up when the teams need it, and its loop is left alone.
Watches(r, s) == /\ SizesTrue(r) /\ Watchful(r) => Watchful(s)
                 /\ SameLoop(r, s)
                 /\ s.cfg.warmup = r.cfg.warmup

\* The loop of DoTeamBalance starts with half of the difference left to move,
\* and every pass of it moves one player.
LoopOk(r) ==
    r.loop = "balance" =>
        LET b == r.bigger
            n == r.numBalance
        IN  /\ r.phase = "run" /\ n >= 1
            /\ r.size[b] - r.size[Other(b)] \in {2 * n, 2 * n + 1}

\* The same of a step that may enter a loop
Minds(r, s) == /\ r.loop # "balance" /\ SizesTrue(r) /\ Watchful(r)
                    => LoopOk(s) /\ Watchful(s)
               /\ s.cfg.warmup = r.cfg.warmup

LEMMA WatchesMinds ==
    ASSUME NEW r, NEW s, Watches(r, s)
    PROVE  Minds(r, s)
BY DEF Watches, Minds, LoopOk

LEMMA SameTeamsWatch ==
    ASSUME NEW r, NEW s, SameTeams(r, s)
    PROVE  Watches(r, s)
BY DEF Watches, Watchful, NeedsBalance, Difference, BiggerSide

LEMMA WatchesTrans ==
    ASSUME NEW r, NEW s, NEW u, Watches(r, s), Watches(s, u),
           SizesTrue(r) => SizesTrue(s)
    PROVE  Watches(r, u)
BY DEF Watches

LEMMA KeepsWatch ==
    ASSUME NEW r, NEW e, NEW s, NEW m, Watches(r, e), Keeps(e, s, m),
           CanBalance(e, m), SizesTrue(r) => SizesTrue(e)
    PROVE  Watches(r, s)
BY DEF Watches, Keeps, SameRoster

\* Who changes teams wakes the balancer up.
LEMMA SwitchTeamsWatch ==
    ASSUME NEW r \in Room, NEW P \in SUBSET Players, NEW to \in [P -> Teams]
    PROVE  Watches(r, SwitchTeams(r, to))
<1> DEFINE ps == {p \in DOMAIN to : r.players[p].team # to[p]}
           s == SwitchTeams(r, to)
<1>1. SameState(r, s) /\ s.cfg = r.cfg
  BY SwitchTeamsSame, SwitchTeamsKeeps
<1>2. CASE ps = {}
  <2>1. s = r
    BY <1>2 DEF SwitchTeams
  <2> QED BY <1>1, <2>1 DEF Watches, SameState
<1>3. CASE ps # {}
  <2>1. KillCharacters(r, ps) \in Room
    BY KillCharactersSame
  <2>2. s.unbalanced = "check"
    <3> HIDE DEF ps
    <3> QED BY <1>3, <2>1 DEF SwitchTeams, Room, ps
  <2> HIDE DEF s
  <2>3. Watches(r, s)
    BY <1>1, <2>2 DEF Watches, Watchful, SameState
  <2> QED BY <2>3 DEF s
<1> QED BY <1>2, <1>3

LEMMA EmptyIsInactive ==
    ASSUME NEW r \in Room, SizesTrue(r)
    PROVE  HasNoPlayers(r) <=> Active(r) = {}
<1>1. \A t \in Sides : Side(r, t) \in SUBSET Players
  BY DEF Side, InRoom
<1>2. \A t \in Sides : r.size[t] = 0 <=> Side(r, t) = {}
  BY <1>1, SubsetCardinality, FS_EmptySet DEF SizesTrue
<1>3. Active(r) = UNION {Side(r, t) : t \in Sides}
  <2>1. \A p \in InRoom(r) : r.players[p].team \in Teams
    BY PlayerType DEF InRoom
  <2> QED BY <2>1 DEF Active, Side
<1> QED BY <1>2, <1>3 DEF HasNoPlayers

\* A step that first changes r to e and then may start or end a match.
LEMMA GoesBy ==
    ASSUME NEW r, NEW e \in Room, NEW s \in Room, NEW m,
           Keeps(e, s, m), StartsWell(e, s, m), CanBalance(e, m),
           Starting(r) => Starting(e),
           PlayersOk(r) => PlayersOk(e),
           PlayersOk(r) /\ WaitOk(r) => WaitOk(s),
           Lacks(r) => Lacks(s),
           SamePlan(r, e),
           PendingOk(r) => PendingOk(e),
           SizesTrue(r) => SizesTrue(e),
           (Teamplay => SizesTrue(r)) /\ ~HasNoPlayers(r) /\ HasNoPlayers(e)
             => s.state = WARMUP_GAME
    PROVE  Goes(r, s)
<1>1. SamePlan(r, s)
  BY DEF SamePlan, Keeps, SameRoster
<1>2. PendingOk(r) => PendingOk(s)
  BY DEF PendingOk, Keeps, SameRoster
<1>3. (Teamplay => SizesTrue(r)) /\ HasNoPlayers(s) => HasNoPlayers(e)
  <2>1. CASE Teamplay
    BY <2>1, EmptyIsInactive, SameRosterReads DEF Keeps
  <2>2. CASE ~Teamplay
    BY <2>2, SamePlacesReads DEF Keeps, NeedsBalance
  <2> QED BY <2>1, <2>2
<1>4. Starting(r) /\ Started(s) =>
        HasEnoughPlayers(s) /\ (SizesTrue(r) => ~NeedsBalance(s))
  BY DEF StartsWell, Starting, Started
<1> QED BY <1>1, <1>2, <1>3, <1>4 DEF Goes, Keeps

\* The same where nothing is changed first
LEMMA BeginsGoes ==
    ASSUME NEW r \in Room, NEW s \in Room, NEW m, Begins(r, s, m),
           CanBalance(r, m)
    PROVE  Goes(r, s) /\ Watches(r, s)
<1>1. PlayersOk(r) => WaitOk(s)
  BY AsksAllWaits DEF Begins
<1>2. Watches(r, s)
  BY KeepsWatch DEF Begins, Watches
<1> QED BY <1>1, <1>2, GoesBy DEF Begins, SamePlan

LEMMA StaysRefl ==
    ASSUME NEW r
    PROVE  /\ Stays(r, r) /\ Settles(r, r) /\ Goes(r, r) /\ Watches(r, r)
BY SettlesGoes DEF Stays, Settles, SamePlan, Watches

LEMMA RespawnKeeps ==
    ASSUME NEW r \in Room, NEW ps
    PROVE  LET s == Respawn(r, ps) IN
           /\ Settles(r, s) /\ SamePlaces(r, s)
           /\ PlayersOk(r) /\ ~Survival
              => \A p \in Players : s.players[p].ready = r.players[p].ready
<1> DEFINE s == Respawn(r, ps)
<1>1. s \in Room /\ SameGame(r, s)
  BY RespawnSame
<1>2. ASSUME NEW p \in Players
      PROVE  LET x == s.players[p]
                 y == r.players[p]
             IN  /\ x.inRoom = y.inRoom /\ x.team = y.team
                 /\ x.toTeam = y.toTeam /\ x.noRespawn = y.noRespawn
                 /\ x.ready \in {y.ready, TRUE}
                 /\ ~y.noRespawn => x.ready = y.ready
                 /\ ~y.noRespawn /\ ~y.deadSpec => ~x.deadSpec
  BY RespawnFields
<1> HIDE DEF s
<1>3. SamePlaces(r, s) /\ s.state = r.state /\ s.timer = r.timer
  BY <1>1, <1>2 DEF SamePlaces, SameGame, SameTeams
<1>4. PlayersOk(r) => PlayersOk(s)
  <2>1. PlayersOk(r) => RespawnOk(s) /\ ReadyOk(s)
    BY <1>2, <1>3 DEF PlayersOk, RespawnOk, ReadyOk
  <2>2. PlayersOk(r) => WatchersOk(s)
    BY <1>2 DEF PlayersOk, RespawnOk, WatchersOk
  <2> QED BY <2>1, <2>2 DEF PlayersOk
<1>5. PlayersOk(r) /\ ~Survival
        => \A p \in Players : s.players[p].ready = r.players[p].ready
  BY <1>2 DEF PlayersOk, RespawnOk
<1>6. PlayersOk(r) /\ WaitOk(r) => WaitOk(s)
  <2>1. Active(s) = Active(r) /\ (ReadyToStart(s) <=> ReadyToStart(r))
    BY <1>3, SamePlacesReads
  <2>2. Active(r) \in SUBSET Players
    BY ActiveType
  <2> QED BY <1>3, <1>5, <2>1, <2>2 DEF WaitOk, Unready
<1> QED BY <1>3, <1>4, <1>5, <1>6, SamePlacesStays DEF Settles, s

\* DoTeamChange of a player that is in the room
LEMMA DoTeamChangeGoes ==
    ASSUME NEW r, GoodRoom(r), NEW p \in InRoom(r), NEW t \in Teams,
           NEW m \in Movers(SwitchTeams(r, One(p, t)))
    PROVE  LET s == DoTeamChange(r, p, t, m)
           IN  Goes(r, s) /\ Watches(r, s)
<1> DEFINE to == One(p, t)
           e == SwitchTeams(r, to)
           s == Rally(e, {}, m)
<1>1. CASE r.players[p].team = t
  BY <1>1, StaysRefl DEF DoTeamChange
<1>2. CASE r.players[p].team # t
  <2>1. DoTeamChange(r, p, t, m) = s
    BY <1>2 DEF DoTeamChange, Rally
  <2>2. /\ {p} \in SUBSET InRoom(r) /\ {p} \in SUBSET Players
        /\ to \in [{p} -> Teams]
    BY DEF InRoom, One
  <2>3. m \in SUBSET Active(e) /\ CanBalance(e, m)
    BY MoversPlay
  <2> HIDE DEF to
  <2>4. e \in Room /\ SameState(r, e)
    BY <2>2, GoodType, SwitchTeamsSame
  <2>5. e.cfg = r.cfg /\ (PlayersOk(r) => PlayersOk(e))
    BY <2>2, GoodType, SwitchTeamsKeeps
  <2>6. SizesTrue(r) => SizesTrue(e)
    BY <2>2, GoodType, SwitchTeamsSizes
  <2>7. \A q \in Players : /\ e.players[q].inRoom = r.players[q].inRoom
                           /\ e.players[q].toTeam = r.players[q].toTeam
    BY <2>2, GoodType, SwitchTeamsFields
  <2>8. GoodRoom(e) /\ Watches(r, e)
    BY <2>2, <2>4, GoodType, SameStateGood, SwitchTeamsWatch
  <2> HIDE DEF e
  <2>9. /\ GoodRoom(s) /\ Keeps(e, s, m) /\ StartsWell(e, s, m) /\ Lacks(s)
        /\ PlayersOk(e) => AsksAll(s) \/ (s = e /\ Unready(e, {}))
        /\ HasNoPlayers(e) => s.state = WARMUP_GAME
    BY <2>3, <2>8, RallyTries
  <2> HIDE DEF s
  <2>10. PlayersOk(r) => WaitOk(s)
    BY <2>5, <2>9, AsksAllWaits DEF WaitOk
  <2>11. Starting(r) => Starting(e)
    BY <2>4 DEF SameState, Starting
  <2>12. SamePlan(r, e) /\ (PendingOk(r) => PendingOk(e))
    BY <2>5, <2>7 DEF SamePlan, PendingOk
  <2>13. e \in Room /\ s \in Room
    BY <2>8, <2>9, GoodType
  <2>14. Watches(r, s)
    BY <2>3, <2>6, <2>8, <2>9, KeepsWatch
  <2> QED BY <2>1, <2>3, <2>5, <2>6, <2>9, <2>10, <2>11, <2>12, <2>13, <2>14,
             GoesBy
<1> QED BY <1>1, <1>2

-----------------------------------------------------------------------------
(* The actions of the players.                                             *)

LEMMA JoinGoes ==
    ASSUME Inv, NEW p \in Players, Join(p)
    PROVE  Goes(room, room') /\ Watches(room, room')
<1> DEFINE ready == ~IsPlayerReadyMode(room)
           respawn == GetStartRespawnState(room)
           new == [Absent EXCEPT !.inRoom = TRUE, !.ready = ready,
                                 !.noRespawn = respawn]
           in == [room EXCEPT !.players[p] = new]
<1>1. PICK t \in Teams :
        \E m \in Movers(SwitchTeams(in, One(p, t))) :
          room' = TryStartWarmup(Respawn(SwitchTeams(in, One(p, t)), {p}),
                                 FALSE, m)
  BY GetStartTeamType DEF Join
<1> DEFINE entered == SwitchTeams(in, One(p, t))
           e == Respawn(entered, {p})
<1>2. PICK m \in Movers(entered) : room' = TryStartWarmup(e, FALSE, m)
  BY <1>1
<1>3. ~room.players[p].inRoom
  BY DEF Join
<1>4. ready \in BOOLEAN /\ respawn \in BOOLEAN
  BY GetStartRespawnStateType
<1> HIDE DEF ready, respawn
<1>5. /\ new \in Player /\ new.inRoom /\ new.team = TEAM_SPECTATORS
      /\ new.toTeam = NoTeam /\ ~new.deadSpec /\ new.noRespawn = respawn
  BY <1>4, AbsentType DEF Absent, Player
<1> HIDE DEF new
<1>6. GoodRoom(in) /\ in \in Room /\ SameGame(room, in)
  BY <1>5, OnePlayerUpdate, GoodType DEF Inv
<1>7. in.players[p] = new /\ \A q \in Players \ {p} : in.players[q] = room.players[q]
  BY DEF Inv, GoodRoom, Room
<1> HIDE DEF in
<1>8. PlayersOk(room) => PlayersOk(in)
  <2>1. PlayersOk(room) => RespawnOk(in)
    BY <1>5, <1>6, <1>7 DEF PlayersOk, RespawnOk, SameGame, respawn,
                            GetStartRespawnState
  <2>2. PlayersOk(room) => ReadyOk(in) /\ WatchersOk(in)
    BY <1>5, <1>6, <1>7 DEF PlayersOk, ReadyOk, WatchersOk, SameGame
  <2> QED BY <2>1, <2>2 DEF PlayersOk
<1>9. SizesTrue(room) => SizesTrue(in)
  <2>1. ASSUME NEW u \in Sides PROVE Side(in, u) = Side(room, u)
    BY <1>3, <1>5, <1>7 DEF Side, InRoom
  <2> QED BY <1>6, <2>1 DEF SizesTrue, SameGame, SameTeams
<1>10. PendingOk(room) => PendingOk(in)
  BY <1>5, <1>7 DEF PendingOk
<1>11. /\ {p} \in SUBSET InRoom(in) /\ {p} \in SUBSET Players
       /\ One(p, t) \in [{p} -> Teams] /\ One(p, t)[p] = t
  BY <1>5, <1>7 DEF InRoom, One
<1>12. /\ entered \in Room /\ SameState(in, entered) /\ GoodRoom(entered)
       /\ PlayersOk(in) => PlayersOk(entered)
       /\ SizesTrue(in) => SizesTrue(entered)
  BY <1>6, <1>11, SwitchTeamsSame, SwitchTeamsKeeps, SwitchTeamsSizes,
     SameStateGood
<1>13. ASSUME NEW q \in Players
       PROVE  LET x == entered.players[q]
                  y == in.players[q]
              IN  /\ x.inRoom = y.inRoom /\ x.toTeam = y.toTeam
                  /\ x.team = IF q = p THEN t ELSE y.team
                  /\ x.ready = IF q = p /\ y.team # t /\ t # TEAM_SPECTATORS
                               THEN ~IsPlayerReadyMode(in) ELSE y.ready
  BY <1>6, <1>11, SwitchTeamsFields
<1>14. m \in SUBSET Active(entered) /\ CanBalance(entered, m)
  BY MoversPlay
<1> HIDE DEF entered
<1>15. /\ Settles(entered, e) /\ SamePlaces(entered, e)
       /\ PlayersOk(entered) /\ ~Survival
          => \A q \in Players : e.players[q].ready = entered.players[q].ready
       /\ e \in Room /\ SameGame(entered, e)
  BY <1>12, RespawnKeeps, RespawnSame
<1> HIDE DEF e
<1>16. /\ GoodRoom(e) /\ m \in SUBSET Active(e) /\ m \in SUBSET Players
       /\ CanBalance(e, m)
  BY <1>12, <1>14, <1>15, SameGameGood, SamePlacesReads, ActiveType
     DEF CanBalance
<1>17. /\ Tries(e, room', m) /\ GoodRoom(room')
       /\ HasNoPlayers(e) => room'.state = WARMUP_GAME
  BY <1>2, <1>16, TryStartWarmupTries, TryStartWarmupGood
<1>18. PlayersOk(room) => PlayersOk(e)
  BY <1>8, <1>12, <1>15 DEF Settles, Stays
<1>19. PlayersOk(room) /\ WaitOk(room) => WaitOk(e)
  <2> SUFFICES ASSUME PlayersOk(room), WaitOk(room), ~Survival,
                      ReadyToStart(e), e.state = WARMUP_USER,
                      e.timer = TIMER_INFINITE, Active(e) # {}
               PROVE  Unready(e, {})
    BY DEF WaitOk
  <2>1. /\ ReadyToStart(room) /\ room.state = WARMUP_USER
        /\ room.timer = TIMER_INFINITE
        /\ ReadyToStart(in) /\ in.state = WARMUP_USER
        /\ in.timer = TIMER_INFINITE
    BY <1>6, <1>12, <1>15
       DEF SameGame, SameTeams, SameState, ReadyToStart
  <2>2. PlayersOk(entered)
    BY <1>8, <1>12
  <2>3. ASSUME NEW q \in Players
        PROVE  /\ e.players[q].inRoom = in.players[q].inRoom
               /\ e.players[q].team = IF q = p THEN t ELSE in.players[q].team
               /\ e.players[q].ready = entered.players[q].ready
    BY <1>13, <1>15, <2>2 DEF SamePlaces
  <2>4. CASE t # TEAM_SPECTATORS
    <3>1. p \in Active(e)
      BY <1>5, <1>7, <2>3, <2>4 DEF Active, InRoom
    <3>2. ~e.players[p].ready
      BY <1>5, <1>7, <1>13, <2>1, <2>3, <2>4 DEF IsPlayerReadyMode
    <3> QED BY <3>1, <3>2 DEF Unready
  <2>5. CASE t = TEAM_SPECTATORS
    <3>1. Active(e) = Active(room)
      BY <1>3, <1>7, <2>3, <2>5 DEF Active, InRoom
    <3>2. PICK q \in Active(room) : ~room.players[q].ready
      BY <2>1, <3>1 DEF WaitOk, Unready
    <3>3. q \in Players \ {p}
      BY <1>3 DEF Active, InRoom
    <3>4. ~e.players[q].ready
      BY <1>7, <1>13, <2>3, <3>2, <3>3
    <3> QED BY <3>1, <3>4 DEF Unready
  <2> QED BY <2>4, <2>5
<1>20. PlayersOk(room) /\ WaitOk(room) => WaitOk(room')
  BY <1>17, <1>18, <1>19, AsksAllWaits DEF Tries
<1>21. SizesTrue(room) => SizesTrue(e)
  BY <1>9, <1>12, <1>15, StaysReads DEF Settles
<1>22. SamePlan(room, e) /\ (Starting(room) => Starting(e))
  BY <1>6, <1>12, <1>15
     DEF SamePlan, Starting, SameGame, SameTeams, SameState
<1>23. PendingOk(room) => PendingOk(e)
  BY <1>10, <1>13, <1>15 DEF PendingOk, SamePlaces
<1>24. room' \in Room
  BY <1>17, GoodType
<1>25. Goes(room, room')
  BY <1>15, <1>16, <1>17, <1>18, <1>20, <1>21, <1>22, <1>23, <1>24, GoesBy
     DEF Tries
<1>26. Watches(room, room')
  <2>1. Watches(room, in) /\ Watches(in, entered) /\ Watches(entered, e)
    BY <1>6, <1>11, <1>15, SameTeamsWatch, SwitchTeamsWatch
       DEF SameGame, SamePlaces, entered
  <2>2. Watches(room, e)
    BY <1>9, <1>12, <2>1, WatchesTrans
  <2> QED BY <1>16, <1>17, <1>21, <2>2, KeepsWatch DEF Tries
<1> QED BY <1>25, <1>26

\* Nothing of a player changes but what the rules may do at any time.
LEMMA PlayersSettle ==
    ASSUME NEW r, NEW s, s.size = r.size, s.cfg = r.cfg,
           s.state = r.state, s.timer = r.timer,
           \A p \in Players :
              LET x == s.players[p]
                  y == r.players[p]
              IN  /\ x.inRoom = y.inRoom /\ x.team = y.team
                  /\ x.toTeam \in {NoTeam, y.toTeam} \/ x.inRoom
                  /\ x.ready = y.ready
                  /\ x.noRespawn => y.noRespawn \/ GetStartRespawnState(r)
                  /\ x.deadSpec => y.deadSpec \/ Survival
    PROVE  Settles(r, s)
<1>1. PlayersOk(r) => PlayersOk(s)
  <2>1. PlayersOk(r) => RespawnOk(s)
    BY DEF PlayersOk, RespawnOk, GetStartRespawnState
  <2>2. PlayersOk(r) => ReadyOk(s) /\ WatchersOk(s)
    BY DEF PlayersOk, ReadyOk, WatchersOk
  <2> QED BY <2>1, <2>2 DEF PlayersOk
<1>2. WaitOk(r) => WaitOk(s)
  <2>1. Active(s) = Active(r) /\ (ReadyToStart(s) <=> ReadyToStart(r))
    BY DEF Active, InRoom, ReadyToStart
  <2>2. Active(r) \in SUBSET Players
    BY ActiveType
  <2> QED BY <2>1, <2>2 DEF WaitOk, Unready
<1>3. PendingOk(r) => PendingOk(s)
  BY DEF PendingOk
<1>4. Stays(r, s)
  BY <1>1, <1>2, <1>3 DEF Stays, SamePlan
<1> QED BY <1>4 DEF Settles

LEMMA RequestPauseGoes ==
    ASSUME Inv, NEW p \in Players, RequestPause(p)
    PROVE  Goes(room, room') /\ Watches(room, room')
<1> DEFINE q == room.players[p]
           n == IF room.cfg.pausePerMatch = 0 THEN q.pauses ELSE q.pauses + 1
<1>1. q \in Player /\ room \in Room
  BY GoodType, PlayerType DEF Inv
<1>2. room' = [room EXCEPT !.pauseRequested = TRUE, !.players[p].pauses = n]
  BY DEF RequestPause
<1> HIDE DEF n
<1> DEFINE x == [q EXCEPT !.pauses = n]
<1>3. /\ room'.players[p] = x
      /\ \A y \in Players \ {p} : room'.players[y] = room.players[y]
  BY <1>1, <1>2 DEF Room
<1>4. /\ SameTeams(room, room')
      /\ room'.state = room.state /\ room'.timer = room.timer
  BY <1>1, <1>2 DEF Room
<1>5. /\ x.inRoom = q.inRoom /\ x.team = q.team /\ x.toTeam = q.toTeam
      /\ x.ready = q.ready /\ x.noRespawn = q.noRespawn
      /\ x.deadSpec = q.deadSpec
  BY <1>1 DEF Player
<1> HIDE DEF x
<1>6. Settles(room, room')
  BY <1>3, <1>4, <1>5, PlayersSettle
<1> QED BY <1>4, <1>6, SettlesGoes, SameTeamsWatch

LEMMA ToggleReadyGoes ==
    ASSUME Inv, NEW p \in Players, ToggleReady(p)
    PROVE  Goes(room, room') /\ Watches(room, room')
<1> DEFINE q == [room.players[p] EXCEPT !.ready = ~@]
           e == [room EXCEPT !.players[p] = q]
<1>1. PICK m \in Movers(room) : room' = CheckReadyStates(e, {}, m)
  BY DEF ToggleReady
<1>2. room \in Room /\ GoodRoom(room) /\ room.players[p] \in Player
  BY GoodType, PlayerType DEF Inv
<1>3. /\ q \in Player /\ q.inRoom = room.players[p].inRoom
      /\ q.team = room.players[p].team /\ q.toTeam = room.players[p].toTeam
      /\ q.noRespawn = room.players[p].noRespawn
      /\ q.deadSpec = room.players[p].deadSpec
  BY <1>2 DEF Player
<1> HIDE DEF q
<1>4. GoodRoom(e) /\ SameGame(room, e) /\ e \in Room
  BY <1>2, <1>3, OnePlayerUpdate, GoodType
<1>5. /\ e.players[p] = q
      /\ \A y \in Players \ {p} : e.players[y] = room.players[y]
  BY <1>2 DEF Room
<1> HIDE DEF e
<1>6. SamePlaces(room, e)
  BY <1>3, <1>4, <1>5 DEF SamePlaces, SameGame, SameTeams
<1>7. PlayersOk(room) => PlayersOk(e)
  <2>1. room.state # GAME_RUNNING
    BY DEF ToggleReady, IsPlayerReadyMode
  <2>2. ReadyOk(e)
    BY <1>4, <2>1 DEF ReadyOk, SameGame
  <2>3. PlayersOk(room) => RespawnOk(e) /\ WatchersOk(e)
    BY <1>3, <1>4, <1>5 DEF PlayersOk, RespawnOk, WatchersOk, SameGame
  <2> QED BY <2>2, <2>3 DEF PlayersOk
<1>8. m \in SUBSET Active(e) /\ CanBalance(e, m) /\ m \in SUBSET Players
  BY <1>6, MoversPlay, SamePlacesReads, ActiveType DEF CanBalance
<1>9. /\ Keeps(e, room', m) /\ StartsWell(e, room', m)
      /\ Lacks(e) => Lacks(room')
      /\ PlayersOk(e) => AsksAll(room') \/ (room' = e /\ Unready(e, {}))
      /\ GoodRoom(room')
  BY <1>1, <1>4, <1>8, CheckReadyStatesKeeps, CheckReadyStatesGood
<1>10. PlayersOk(room) => WaitOk(room')
  BY <1>7, <1>9, AsksAllWaits DEF WaitOk
<1>11. Lacks(room) => Lacks(room')
  BY <1>4, <1>6, <1>9, SamePlacesReads DEF Lacks, SameGame
<1>12. /\ SamePlan(room, e) /\ (PendingOk(room) => PendingOk(e))
       /\ Starting(room) => Starting(e)
       /\ HasNoPlayers(e) => HasNoPlayers(room)
  BY <1>4, <1>6, SamePlacesReads
     DEF SamePlan, SamePlaces, PendingOk, Starting, SameGame
<1>13. SizesTrue(room) => SizesTrue(e)
  BY <1>6, <1>7, SamePlacesKeeps DEF Keeps
<1>14. room' \in Room
  BY <1>9, GoodType
<1>15. Watches(room, room')
  BY <1>6, <1>8, <1>9, <1>13, SameTeamsWatch, KeepsWatch DEF SamePlaces
<1> QED BY <1>4, <1>7, <1>8, <1>9, <1>10, <1>11, <1>12, <1>13, <1>14, <1>15,
           GoesBy

LEMMA AskRespawnGoes ==
    ASSUME Inv, NEW p \in Players, AskRespawn(p)
    PROVE  Goes(room, room') /\ Watches(room, room')
<1>1. room' = Respawn(room, {p}) /\ room \in Room
  BY GoodType DEF AskRespawn, Inv
<1> QED BY <1>1, RespawnKeeps, SettlesGoes, SameTeamsWatch DEF SamePlaces

LEMMA SpawnGoes ==
    ASSUME Inv, NEW p \in Players, Spawn(p)
    PROVE  Goes(room, room') /\ Watches(room, room')
<1> DEFINE q == room.players[p]
           b == GetStartRespawnState(room)
           x == [q EXCEPT !.alive = TRUE, !.spawning = FALSE,
                          !.deadSpec = FALSE, !.noRespawn = b]
<1>1. q \in Player /\ room \in Room /\ b \in BOOLEAN
  BY GoodType, PlayerType, GetStartRespawnStateType DEF Inv
<1>2. room' = [room EXCEPT !.players[p] = x]
  BY DEF Spawn
<1> HIDE DEF b
<1>3. /\ x.inRoom = q.inRoom /\ x.team = q.team /\ x.toTeam = q.toTeam
      /\ x.ready = q.ready /\ x.noRespawn = b /\ ~x.deadSpec
  BY <1>1 DEF Player
<1> HIDE DEF x
<1>4. /\ room'.players[p] = x
      /\ \A y \in Players \ {p} : room'.players[y] = room.players[y]
  BY <1>1, <1>2 DEF Room
<1>5. /\ SameTeams(room, room')
      /\ room'.state = room.state /\ room'.timer = room.timer
  BY <1>1, <1>2 DEF Room
<1>6. Settles(room, room')
  BY <1>3, <1>4, <1>5, PlayersSettle DEF b
<1> QED BY <1>5, <1>6, SettlesGoes, SameTeamsWatch

LEMMA KillCharactersSettle ==
    ASSUME NEW r \in Room, NEW ps
    PROVE  LET s == KillCharacters(r, ps)
           IN  Settles(r, s) /\ SameTeams(r, s)
<1> DEFINE s == KillCharacters(r, ps)
<1>1. s \in Room /\ SameGame(r, s)
  BY KillCharactersSame
<1>2. ASSUME NEW p \in Players
      PROVE  LET x == s.players[p] IN
             /\ x.inRoom = r.players[p].inRoom /\ x.team = r.players[p].team
             /\ x.toTeam = r.players[p].toTeam /\ x.ready = r.players[p].ready
             /\ x.noRespawn = r.players[p].noRespawn
             /\ x.deadSpec = r.players[p].deadSpec
  BY KillCharactersFields
<1> HIDE DEF s
<1>3. Settles(r, s)
  BY <1>1, <1>2, PlayersSettle DEF SameGame, SameTeams
<1> QED BY <1>1, <1>3 DEF SameGame, s

LEMMA DieGoes ==
    ASSUME Inv, NEW p \in Players, Die(p)
    PROVE  Goes(room, room') /\ Watches(room, room')
<1> DEFINE killed == KillCharacters(room, {p})
           d(q) == killed.players[q].deadSpec /\ CanFollow(killed, q)
           f == [q \in Players |-> [killed.players[q] EXCEPT !.deadSpec = d(q)]]
<1>1. killed \in Room /\ Settles(room, killed) /\ SameTeams(room, killed)
  BY GoodType, KillCharactersSame, KillCharactersSettle DEF Inv
<1>2. \/ room' = killed
      \/ room' = [killed EXCEPT !.players = f]
  BY DEF Die
<1>3. CASE room' = killed
  BY <1>1, <1>3, SettlesGoes, SameTeamsWatch
<1>4. CASE room' = [killed EXCEPT !.players = f]
  <2> HIDE DEF d, killed
  <2>1. ASSUME NEW q \in Players
        PROVE  LET x == f[q]
                   y == killed.players[q]
               IN  /\ x.inRoom = y.inRoom /\ x.team = y.team
                   /\ x.toTeam = y.toTeam /\ x.ready = y.ready
                   /\ x.noRespawn = y.noRespawn
                   /\ x.deadSpec => d(q)
    <3>1. killed.players[q] \in Player
      BY <1>1, PlayerType
    <3> QED BY <3>1 DEF Player
  <2> HIDE DEF f
  <2>2. /\ room'.players = f
        /\ SameTeams(killed, room')
        /\ room'.state = killed.state /\ room'.timer = killed.timer
    BY <1>1, <1>4 DEF Room
  <2>3. Survival
    BY DEF Die
  <2>4. Settles(killed, room')
    BY <2>1, <2>2, <2>3, PlayersSettle
  <2>5. SameTeams(room, room')
    BY <1>1, <2>2
  <2> QED BY <1>1, <2>4, <2>5, SettlesTrans, SettlesGoes, SameTeamsWatch
<1> QED BY <1>2, <1>3, <1>4

LEMMA DoTeamChangesGoes ==
    ASSUME Inv, NEW p \in Players, NEW t \in Teams, DoTeamChanges(p, t)
    PROVE  Goes(room, room') /\ Watches(room, room')
<1>1. p \in InRoom(room) /\ GoodRoom(room)
  BY DEF DoTeamChanges, InRoom, Inv
<1> QED BY <1>1, DoTeamChangeGoes DEF DoTeamChanges

-----------------------------------------------------------------------------
(* A player leaves.                                                        *)

\* No player is asked to be ready to start, by any room's settings.
NeverReadyToStart ==
    /\ \A c \in Configs : c.readyMode \notin {1, 3}
    /\ "player_ready_mode" \in Commands => Args.readyMode \cap {1, 3} = {}

\* OnInternalPlayerLeave starts no match that balances the teams while the
\* player that leaves is still in one: there is no balancing, or a match that
\* can start has started before.
SafeToLeave(r) ==
    \/ ~Teamplay
    \/ ~r.cfg.balance
    \/ NeverReadyToStart /\ ~ReadyToStart(r) /\ Lacks(r)

LEMMA LackingRallyWaits ==
    ASSUME NEW r, GoodRoom(r), Lacks(r), ~ReadyToStart(r), NEW ps,
           NEW m \in SUBSET Active(r)
    PROVE  LET s == Rally(r, ps, m)
           IN  SamePlaces(r, s) /\ (Starting(r) => ~Started(s))
<1> DEFINE a == CheckReadyStates(r, ps, m)
           s == Rally(r, ps, m)
<1>0. m \in SUBSET Players
  BY ActiveType
<1>1. /\ GoodRoom(a) /\ Keeps(r, a, m) /\ Lacks(a)
  BY <1>0, CheckReadyStatesGood, CheckReadyStatesKeeps
<1>2. SamePlaces(r, a) /\ (Starting(r) => Starting(a))
  <2>1. CASE a = r
    BY <2>1, SamePlacesRefl
  <2>2. CASE a # r /\ r.state = WARMUP_USER /\ r.timer = TIMER_INFINITE
    <3> DEFINE w == r.cfg.warmup
    <3>1. a = DoWarmup(r, w, m)
      BY <2>2 DEF CheckReadyStates
    <3>2. ~HasEnoughPlayers(r) /\ IsWarmup(r)
      BY <2>2 DEF Lacks, IsWarmup, Warmups
    <3>3. CASE w # 0
      <4>1. a = ToWarmup(r, w) /\ w \in Seconds
        BY <3>1, <3>3, GoodType DEF DoWarmup, Config, Seconds
      <4>2. a.state \in {r.state, WARMUP_USER}
        BY <4>1, ToWarmupGood
      <4> HIDE DEF a
      <4> QED BY <4>1, <4>2, ToWarmupKeeps DEF Starting, Warmups
    <3>4. CASE w = 0
      <4>1. a = WaitForPlayers(r)
        BY <2>2, <3>1, <3>2, <3>4 DEF DoWarmup, StartMatch
      <4>2. a.state \in {r.state, WARMUP_GAME}
        BY <4>1, WaitForPlayersGood
      <4> HIDE DEF a
      <4> QED BY <4>1, <4>2, WaitForPlayersKeeps DEF Starting, Warmups
    <3> QED BY <3>3, <3>4
  <2>3. CASE a # r /\ ~(r.state = WARMUP_USER /\ r.timer = TIMER_INFINITE)
    <3>1. a = ToPaused(r, 0) /\ r.state = GAME_PAUSED /\ 0 \in Seconds
      BY <2>3 DEF CheckReadyStates, Seconds
    <3> HIDE DEF a
    <3> QED BY <3>1, ToPausedKeeps DEF Starting, Warmups
  <2> QED BY <2>1, <2>2, <2>3
<1>3. s = TryStartWarmup(a, TRUE, m)
  BY DEF Rally
<1> HIDE DEF a, s
<1>4. m \in SUBSET Active(a)
  BY <1>1, SameRosterReads DEF Keeps
<1>5. ~ReadyToStart(a)
  BY <1>2, SamePlacesReads
<1>6. SamePlaces(a, s) /\ s.state \in {a.state, WARMUP_GAME}
  <2>1. CASE a.state # WARMUP_GAME /\ HasNoPlayers(a)
    <3>1. s = ResetMatch(a, m)
      BY <1>3, <2>1 DEF TryStartWarmup
    <3>2. Keeps(a, s, m) /\ s.state = WARMUP_GAME
      BY <1>1, <1>4, <2>1, <3>1, ResetMatchTries DEF Begins
    <3> QED BY <1>1, <2>1, <3>2, GoodType, EmptyIsBalanced DEF Keeps
  <2>2. CASE ~(a.state # WARMUP_GAME /\ HasNoPlayers(a))
    <3> DEFINE q == SetPlayersReadyState(a, TRUE)
    <3>1. s = TryWarmup(a, TRUE, m)
      BY <1>3, <2>2 DEF TryStartWarmup
    <3>2. CASE a.state \notin Warmups \/ a.timer # TIMER_INFINITE
      BY <3>1, <3>2, SamePlacesRefl DEF TryWarmup
    <3>3. CASE ~(a.state \notin Warmups \/ a.timer # TIMER_INFINITE)
      <4>1. s = WaitForPlayers(q)
        BY <1>1, <1>5, <3>1, <3>3 DEF TryWarmup, Lacks
      <4>2. GoodRoom(q) /\ SamePlaces(a, q) /\ q.state = a.state
        BY <1>1, GoodType, SetPlayersReadyStateSame, SameGameGood, SetReadySame
      <4> HIDE DEF q
      <4>3. SamePlaces(q, s) /\ s.state \in {q.state, WARMUP_GAME}
        BY <4>1, <4>2, WaitForPlayersKeeps, WaitForPlayersGood
      <4> QED BY <4>2, <4>3, SamePlacesTrans
    <3> QED BY <3>2, <3>3
  <2> QED BY <2>1, <2>2
<1>7. SamePlaces(r, s)
  BY <1>2, <1>6, SamePlacesTrans
<1>8. Starting(r) => ~Started(s)
  BY <1>2, <1>6 DEF Starting, Started, Warmups
<1> QED BY <1>7, <1>8 DEF s

\* The team of the player that leaves loses it, and nothing else changes.
LEMMA LeaveTeamLeft ==
    ASSUME Inv, NEW p \in InRoom(room)
    PROVE  LET t == room.players[p].team
               left == LeaveTeam(room, t)
           IN  /\ left \in Room /\ GoodRoom(left) /\ SameState(room, left)
               /\ left.players = room.players /\ Watches(room, left)
               /\ \A u \in Sides : left.size[u] =
                    IF u = t THEN room.size[u] - 1 ELSE room.size[u]
<1> DEFINE t == room.players[p].team
           size == [room.size EXCEPT ![t] = @ - 1]
           u == [room EXCEPT !.size = size, !.unbalanced = "check"]
           left == LeaveTeam(room, t)
<1>1. room \in Room /\ GoodRoom(room) /\ t \in Teams /\ room.size \in [Sides -> Int]
  BY GoodType, PlayerType DEF Inv, InRoom, Room
<1>2. left = IF t = TEAM_SPECTATORS THEN room ELSE u
  BY DEF LeaveTeam
<1> HIDE DEF t, left
<1>3. CASE t = TEAM_SPECTATORS
  BY <1>1, <1>2, <1>3 DEF SameState, Watches, t, left
<1>4. CASE t \in Sides
  <2>1. /\ size \in [Sides -> Int]
        /\ \A v \in Sides : size[v] =
             IF v = t THEN room.size[v] - 1 ELSE room.size[v]
    BY <1>1, <1>4
  <2> HIDE DEF size
  <2>2. /\ u \in Room /\ SameState(room, u) /\ u.players = room.players
        /\ u.size = size /\ u.unbalanced = "check"
    BY <1>1, <2>1 DEF Room, SameState
  <2> HIDE DEF u
  <2>3. GoodRoom(u) /\ Watches(room, u)
    BY <1>1, <2>2, SameStateGood DEF Watches, Watchful, SameState
  <2>4. left = u
    BY <1>2, <1>4
  <2> QED BY <2>1, <2>2, <2>3, <2>4 DEF t, left
<1> QED BY <1>1, <1>3, <1>4

LEMMA LeaveSteps ==
    ASSUME Inv, PlayersOk(room), NEW p \in Players, Leave(p)
    PROVE  /\ PlayersOk(room') /\ WaitOk(room')
           /\ PendingOk(room) => PendingOk(room')
           /\ Starting(room) /\ Started(room') => HasEnoughPlayers(room')
           /\ ~Teamplay /\ HasNoPlayers(room') => room'.state = WARMUP_GAME
           /\ SizesTrue(room) /\ SafeToLeave(room) =>
                /\ SizesTrue(room') /\ SafeToLeave(room')
                /\ HasNoPlayers(room') => room'.state = WARMUP_GAME
                /\ Starting(room) /\ Started(room') => ~NeedsBalance(room')
                /\ Watches(room, room')
<1> DEFINE t == room.players[p].team
           left == LeaveTeam(room, t)
<1>1. PICK m \in Movers(left) : room' = [Rally(left, {p}, m)
                                           EXCEPT !.players[p] = Absent]
  BY DEF Leave, Rally
<1> DEFINE s == Rally(left, {p}, m)
<1>2. p \in InRoom(room) /\ room \in Room
  BY GoodType DEF Leave, InRoom, Inv
<1>3. /\ left \in Room /\ GoodRoom(left) /\ SameState(room, left)
      /\ left.players = room.players /\ Watches(room, left)
      /\ \A u \in Sides : left.size[u] =
           IF u = t THEN room.size[u] - 1 ELSE room.size[u]
  BY <1>2, LeaveTeamLeft
<1>4. m \in SUBSET Active(left) /\ m \in SUBSET Players
  BY MoversPlay, ActiveType
<1> HIDE DEF left, t
<1>5. /\ GoodRoom(s) /\ Keeps(left, s, m) /\ StartsWell(left, s, m) /\ Lacks(s)
      /\ PlayersOk(left) => AsksAll(s) \/ (s = left /\ Unready(left, {p}))
      /\ HasNoPlayers(left) => s.state = WARMUP_GAME
  BY <1>3, <1>4, RallyTries
<1>6. Lacks(left) /\ ~ReadyToStart(left)
        => SamePlaces(left, s) /\ (Starting(left) => ~Started(s))
  BY <1>3, <1>4, LackingRallyWaits
<1>7. room' = [s EXCEPT !.players[p] = Absent] /\ s \in Room
  BY <1>1, <1>5, GoodType
<1> HIDE DEF s
<1>8. /\ room'.players[p] = Absent
      /\ \A q \in Players \ {p} : room'.players[q] = s.players[q]
      /\ SameTeams(s, room')
      /\ room'.state = s.state /\ room'.timer = s.timer
  BY <1>7 DEF Room
<1>9. /\ ~Absent.inRoom /\ Absent.toTeam = NoTeam
      /\ ~Absent.noRespawn /\ ~Absent.deadSpec
  BY DEF Absent
<1>10. PlayersOk(left) /\ PlayersOk(s)
  BY <1>3, <1>5 DEF PlayersOk, RespawnOk, ReadyOk, WatchersOk, SameState, Keeps
<1>11. PlayersOk(room')
  <2>1. RespawnOk(room') /\ WatchersOk(room')
    BY <1>8, <1>9, <1>10 DEF PlayersOk, RespawnOk, WatchersOk
  <2>2. ReadyOk(room')
    BY <1>8, <1>9, <1>10 DEF PlayersOk, ReadyOk
  <2> QED BY <2>1, <2>2 DEF PlayersOk
<1>12. InRoom(room') = InRoom(s) \ {p} /\ Active(room') = Active(s) \ {p}
  BY <1>8, <1>9 DEF InRoom, Active
<1>13. WaitOk(room')
  <2>1. CASE AsksAll(s)
    <3>1. AsksAll(room')
      BY <1>8, <1>12, <2>1 DEF AsksAll, ReadyToStart, Active, InRoom
    <3> QED BY <3>1, AsksAllWaits
  <2>2. CASE s = left /\ Unready(left, {p})
    <3>1. PICK q \in Active(s) \ {p} : ~s.players[q].ready
      BY <2>2 DEF Unready
    <3>2. q \in Active(room') /\ ~room'.players[q].ready
      BY <1>8, <1>12, <3>1 DEF Active, InRoom
    <3> QED BY <3>2 DEF WaitOk, Unready
  <2> QED BY <1>5, <1>10, <2>1, <2>2
<1>14. Starting(room) /\ Started(room') => HasEnoughPlayers(s)
  BY <1>3, <1>5, <1>8 DEF SameState, Starting, Started, StartsWell
<1>15. HasEnoughPlayers(s) => HasEnoughPlayers(room')
  BY <1>8 DEF HasEnoughPlayers
<1>16. PendingOk(room) => PendingOk(room')
  BY <1>3, <1>5, <1>8, <1>9 DEF PendingOk, Keeps, SameRoster
<1>17. ASSUME SizesTrue(room), SafeToLeave(room)
       PROVE  /\ SizesTrue(room') /\ SafeToLeave(room')
              /\ HasNoPlayers(room') => room'.state = WARMUP_GAME
              /\ Starting(room) /\ Started(room') => ~NeedsBalance(room')
              /\ Watches(room, room')
  <2>1. left.cfg = room.cfg /\ s.cfg = room.cfg
    BY <1>3, <1>5 DEF SameState, Keeps, SameRoster
  <2>2. SamePlaces(left, s)
        /\ (Starting(room) /\ Started(s) => ~Teamplay \/ ~room.cfg.balance)
    <3>1. CASE ~Teamplay \/ ~room.cfg.balance
      <4>1. ~NeedsBalance(left)
        BY <2>1, <3>1 DEF NeedsBalance
      <4> QED BY <1>5, <3>1, <4>1 DEF Keeps
    <3>2. CASE ~ReadyToStart(room) /\ Lacks(room)
      <4>1. ~ReadyToStart(left)
        BY <2>1, <3>2 DEF ReadyToStart
      <4>2. HasEnoughPlayers(left) => HasEnoughPlayers(room)
        BY <1>2, <1>3, <2>1 DEF HasEnoughPlayers, Room, Config
      <4>3. Lacks(left)
        BY <1>3, <3>2, <4>1, <4>2 DEF Lacks, SameState
      <4> QED BY <1>3, <1>6, <4>1, <4>3 DEF SameState, Starting
    <3> QED BY <1>17, <3>1, <3>2 DEF SafeToLeave
  <2>3. SizesTrue(room')
    <3> SUFFICES ASSUME NEW u \in Sides
                 PROVE  room'.size[u] = Cardinality(Side(room', u))
      BY DEF SizesTrue
    <3>1. room'.size[u] = IF u = t THEN room.size[u] - 1 ELSE room.size[u]
      BY <1>3, <1>8, <2>2 DEF SamePlaces
    <3>2. Side(room', u) = Side(room, u) \ {p}
      <4>1. ASSUME NEW q \in Players \ {p}
            PROVE  /\ room'.players[q].inRoom = room.players[q].inRoom
                   /\ room'.players[q].team = room.players[q].team
        BY <1>3, <1>8, <2>2 DEF SamePlaces
      <4> QED BY <1>8, <1>9, <4>1 DEF Side, InRoom
    <3>3. p \in Side(room, u) <=> u = t
      BY <1>2 DEF Side, t
    <3>4. Side(room, u) \in SUBSET Players
      BY DEF Side, InRoom
    <3>5. room.size[u] = Cardinality(Side(room, u)) /\ room.size[u] \in Nat
      BY <1>17, <3>4, SubsetCardinality DEF SizesTrue
    <3>6. CASE u = t
      <4>1. Cardinality(Side(room, u) \ {p}) = Cardinality(Side(room, u)) - 1
        BY <3>3, <3>4, <3>6, SubsetCardinality, FS_RemoveElement
      <4> QED BY <3>1, <3>2, <3>5, <3>6, <4>1
    <3>7. CASE u # t
      <4>1. Side(room, u) \ {p} = Side(room, u)
        BY <3>3, <3>7
      <4> QED BY <3>1, <3>2, <3>5, <3>7, <4>1
    <3> QED BY <3>6, <3>7
  <2>4. SafeToLeave(room')
    <3>1. Lacks(room')
      BY <1>5, <1>8 DEF Lacks, ReadyToStart, HasEnoughPlayers
    <3> QED BY <1>8, <1>17, <2>1, <3>1 DEF SafeToLeave, ReadyToStart
  <2>5. HasNoPlayers(room') => room'.state = WARMUP_GAME
    BY <1>5, <1>8, <2>2 DEF HasNoPlayers, SamePlaces
  <2>6. Starting(room) /\ Started(room') => ~NeedsBalance(room')
    BY <1>8, <2>1, <2>2 DEF NeedsBalance, Started
  <2>7. Watches(room, room')
    <3>1. Watchful(room) => Watchful(left)
      BY <1>3, <1>17 DEF Watches
    <3>2. Watchful(left) => Watchful(s)
      BY <2>2, SamePlacesReads
    <3>3. Watchful(s) => Watchful(room')
      BY <1>8 DEF Watchful, NeedsBalance, Difference, BiggerSide
    <3>4. SameLoop(room, room') /\ room'.cfg = room.cfg
      BY <1>3, <1>8, <2>1, <2>2 DEF Watches, SamePlaces
    <3> QED BY <3>1, <3>2, <3>3, <3>4 DEF Watches
  <2> QED BY <2>3, <2>4, <2>5, <2>6, <2>7
<1>18. ASSUME ~Teamplay, HasNoPlayers(room')
       PROVE  room'.state = WARMUP_GAME
  <2>1. SamePlaces(left, s)
    BY <1>5, <1>18 DEF Keeps, NeedsBalance
  <2> QED BY <1>5, <1>8, <1>18, <2>1 DEF HasNoPlayers, SamePlaces
<1> QED BY <1>11, <1>13, <1>14, <1>15, <1>16, <1>17, <1>18

-----------------------------------------------------------------------------
(* The console.                                                            *)

LEMMA ToRunningStays ==
    ASSUME NEW r, GoodRoom(r)
    PROVE  LET s == ToRunning(r) IN
           /\ Stays(r, s) /\ Watches(r, s)
           /\ ~Starting(r) => Goes(r, s)
<1> DEFINE s == ToRunning(r)
<1>1. SamePlaces(r, s) /\ (PlayersOk(r) => PlayersOk(s)) /\ s.state = GAME_RUNNING
  BY ToRunningKeeps, ToRunningGood
<1> HIDE DEF s
<1>2. Stays(r, s)
  BY <1>1, SamePlacesMove
<1>3. Watches(r, s)
  BY <1>1, SameTeamsWatch DEF SamePlaces
<1> QED BY <1>1, <1>2, <1>3, StaysGoes DEF Warmups, s

LEMMA ToCountdownGoes ==
    ASSUME NEW r, GoodRoom(r)
    PROVE  LET s == ToCountdown(r) IN Goes(r, s) /\ Watches(r, s)
<1> DEFINE s == ToCountdown(r)
<1>1. CASE r.state \in {GAME_RUNNING, GAME_PAUSED, START_COUNTDOWN}
  <2>1. s.state \in {GAME_RUNNING, START_COUNTDOWN}
    BY <1>1, ToCountdownGood
  <2>2. SamePlaces(r, s) /\ (PlayersOk(r) => PlayersOk(s))
    BY ToCountdownKeeps
  <2> HIDE DEF s
  <2>3. Stays(r, s)
    BY <2>1, <2>2, SamePlacesMove
  <2>4. Goes(r, s)
    BY <1>1, <2>1, <2>3, StaysGoes DEF Starting, Warmups
  <2>5. Watches(r, s)
    BY <2>2, SameTeamsWatch DEF SamePlaces
  <2> QED BY <2>4, <2>5 DEF s
<1>2. CASE r.state \notin {GAME_RUNNING, GAME_PAUSED, START_COUNTDOWN}
  BY <1>2, ToCountdownGood, StaysRefl
<1> QED BY <1>1, <1>2

\* A pause of the warmup game comes to a pause, never to a match.
LEMMA ToPausedGoes ==
    ASSUME NEW r, GoodRoom(r), NEW seconds \in Seconds
    PROVE  LET s == ToPaused(r, seconds) IN
           /\ Goes(r, s) /\ Watches(r, s)
           /\ \/ s = r
              \/ s.state = GAME_PAUSED
              \/ s = ToCountdown(r)
           /\ s = r \/ r.state \in {GAME_RUNNING, GAME_PAUSED, WARMUP_GAME}
<1> DEFINE s == ToPaused(r, seconds)
           t == IF seconds < 0 THEN TIMER_INFINITE ELSE seconds * TickSpeed
           u == [r EXCEPT !.state = GAME_PAUSED, !.paused = TRUE, !.timer = t]
           v == SetPlayersReadyState(u, FALSE)
<1>1. s \in {r, u, v, ToCountdown(r)}
  BY DEF ToPaused
<1>2. t \in Seconds
  BY TimesNat, MatchAssumption DEF Seconds
<1> HIDE DEF t
<1>3. u \in Room /\ u.state = GAME_PAUSED
  <2>1. r \in Room
    BY GoodType
  <2> QED BY <1>2, <2>1 DEF Room, GameStates
<1>4. v.state = GAME_PAUSED
  <2> HIDE DEF u
  <2> QED BY <1>3, SetPlayersReadyStateSame DEF SameGame
<1>5. s = r \/ r.state \in {GAME_RUNNING, GAME_PAUSED, WARMUP_GAME}
  BY DEF ToPaused
<1>6. SamePlaces(r, s) /\ (PlayersOk(r) => PlayersOk(s))
  BY ToPausedKeeps
<1> HIDE DEF s, u, v
<1>7. Goes(r, s)
  <2>1. CASE s.state = GAME_PAUSED
    <3>1. Stays(r, s)
      BY <1>6, <2>1, SamePlacesMove
    <3> QED BY <2>1, <3>1, StaysGoes DEF Started, Warmups
  <2>2. CASE s \in {r, ToCountdown(r)}
    BY <2>2, StaysRefl, ToCountdownGoes
  <2> QED BY <1>1, <1>3, <1>4, <2>1, <2>2
<1>8. Watches(r, s)
  BY <1>6, SameTeamsWatch DEF SamePlaces
<1> QED BY <1>1, <1>3, <1>4, <1>5, <1>7, <1>8 DEF s

LEMMA PauseGoes ==
    ASSUME Inv, NEW seconds \in Args.seconds, Pause(seconds)
    PROVE  Goes(room, room') /\ Watches(room, room')
BY ArgsType, ToPausedGoes DEF Pause, Inv

LEMMA RestartGoes ==
    ASSUME Inv, NEW seconds \in Args.seconds, Restart(seconds)
    PROVE  /\ IF seconds < 0
              THEN Stays(room, room') /\ room'.state = GAME_RUNNING
              ELSE Goes(room, room')
           /\ Watches(room, room')
<1>1. CASE seconds < 0
  BY <1>1, ToRunningStays, ToRunningGood DEF Restart, Inv
<1>2. CASE ~(seconds < 0)
  <2>1. PICK m \in Movers(room) : room' = DoWarmup(room, seconds, m)
    BY <1>2 DEF Restart
  <2>2. seconds \in Nat /\ seconds \in Seconds
    BY <1>2, ArgsType DEF Seconds
  <2>3. /\ m \in SUBSET Active(room) /\ m \in SUBSET Players
        /\ CanBalance(room, m)
    BY MoversPlay, ActiveType
  <2>4. Begins(room, room', m) /\ room \in Room /\ room' \in Room
    BY <2>1, <2>2, <2>3, DoWarmupBegins, DoWarmupGood, GoodType DEF Inv
  <2> QED BY <1>2, <2>3, <2>4, BeginsGoes
<1> QED BY <1>1, <1>2

\* A new minimum_players
LEMMA SetMinimumPlayersGoes ==
    ASSUME Inv, NEW n \in Args.minimumPlayers, SetMinimumPlayers(n)
    PROVE  Goes(room, room') /\ Watches(room, room')
<1> DEFINE c == [room.cfg EXCEPT !.minimumPlayers = n]
           e == [room EXCEPT !.cfg = c]
<1>1. PICK m \in Movers(room) : room' = TryStartWarmup(e, TRUE, m)
  BY DEF SetMinimumPlayers
<1>2. room \in Room /\ room.cfg \in Config /\ n \in Nat
  BY GoodType, ArgsType DEF Inv
<1>3. /\ c \in Config /\ c.balance = room.cfg.balance
      /\ c.readyMode = room.cfg.readyMode /\ c.warmup = room.cfg.warmup
  BY <1>2 DEF Config
<1> HIDE DEF c
<1>4. /\ e.cfg = c /\ e.players = room.players /\ e.size = room.size
      /\ e.state = room.state /\ e.timer = room.timer
      /\ e.unbalanced = room.unbalanced /\ SameLoop(room, e)
  BY <1>2 DEF Room
<1>5. GoodRoom(e) /\ e \in Room
  BY <1>3, ConfigUpdate, GoodType DEF Inv
<1> HIDE DEF e
<1>6. /\ InRoom(e) = InRoom(room) /\ Active(e) = Active(room)
      /\ \A t : Side(e, t) = Side(room, t)
  BY <1>4 DEF InRoom, Active, Side
<1>7. /\ BiggerSide(e) = BiggerSide(room)
      /\ Difference(e) = Difference(room)
      /\ NeedsBalance(e) <=> NeedsBalance(room)
  BY <1>3, <1>4 DEF NeedsBalance, Difference, BiggerSide
<1>8. m \in SUBSET Active(e) /\ CanBalance(e, m) /\ m \in SUBSET Players
  <2>1. Movers(e) = Movers(room)
    BY <1>6, <1>7 DEF Movers
  <2> QED BY <2>1, MoversPlay, ActiveType
<1>9. /\ Tries(e, room', m) /\ GoodRoom(room') /\ room' \in Room
      /\ HasNoPlayers(e) => room'.state = WARMUP_GAME
  BY <1>1, <1>5, <1>8, TryStartWarmupTries, TryStartWarmupGood, GoodType
<1>10. PlayersOk(room) => PlayersOk(e)
  BY <1>4 DEF PlayersOk, RespawnOk, ReadyOk, WatchersOk
<1>11. WaitOk(room) => WaitOk(e)
  BY <1>3, <1>4, <1>6 DEF WaitOk, Unready, ReadyToStart
<1>12. PlayersOk(room) /\ WaitOk(room) => WaitOk(room')
  BY <1>9, <1>10, <1>11, AsksAllWaits DEF Tries
<1>13. /\ SamePlan(room, e) /\ (PendingOk(room) => PendingOk(e))
       /\ SizesTrue(room) => SizesTrue(e)
       /\ Starting(room) => Starting(e)
  BY <1>3, <1>4, <1>6 DEF SamePlan, PendingOk, SizesTrue, Starting
<1>14. Watches(room, e)
  BY <1>3, <1>4, <1>7 DEF Watches, Watchful
<1>15. Watches(room, room')
  BY <1>8, <1>9, <1>13, <1>14, KeepsWatch DEF Tries
<1> QED BY <1>5, <1>8, <1>9, <1>10, <1>12, <1>13, <1>15, GoesBy DEF Tries

LEMMA StaysThenGoes ==
    ASSUME NEW r, NEW e, NEW s, Stays(r, e), e.state = r.state,
           Lacks(r) => Lacks(e), Goes(e, s)
    PROVE  Goes(r, s)
<1>1. SamePlan(r, s)
  BY DEF Stays, Goes, SamePlan
<1>2. Starting(r) => Starting(e)
  BY DEF Starting
<1>3. (PlayersOk(r) => PlayersOk(e)) /\ (PendingOk(r) => PendingOk(e))
      /\ (PlayersOk(r) /\ WaitOk(r) => WaitOk(e))
  BY DEF Stays
<1> QED BY <1>1, <1>2, <1>3, StaysReads DEF Goes

LEMMA SetCountdownGoes ==
    ASSUME Inv, NEW seconds \in Args.countdown, SetCountdown(seconds)
    PROVE  Goes(room, room') /\ Watches(room, room')
<1> DEFINE c == [room.cfg EXCEPT !.countdown = seconds]
           set == [room EXCEPT !.cfg = c]
<1>1. room' \in {set, ToCountdown(set)}
  BY DEF SetCountdown
<1>2. room \in Room /\ room.cfg \in Config /\ seconds \in Int
  BY GoodType, ArgsType DEF Inv
<1>3. /\ c \in Config /\ c.balance = room.cfg.balance
      /\ c.readyMode = room.cfg.readyMode
      /\ c.minimumPlayers = room.cfg.minimumPlayers
      /\ c.warmup = room.cfg.warmup
  BY <1>2 DEF Config
<1> HIDE DEF c
<1>4. /\ set.cfg = c /\ set.players = room.players /\ set.size = room.size
      /\ set.state = room.state /\ set.timer = room.timer
      /\ set.unbalanced = room.unbalanced /\ SameLoop(room, set)
  BY <1>2 DEF Room
<1>5. GoodRoom(set)
  BY <1>3, ConfigUpdate DEF Inv
<1> HIDE DEF set
<1>6. PlayersOk(room) => PlayersOk(set)
  BY <1>4 DEF PlayersOk, RespawnOk, ReadyOk, WatchersOk
<1>7. WaitOk(room) => WaitOk(set)
  BY <1>3, <1>4 DEF WaitOk, Unready, ReadyToStart, Active, InRoom
<1>8. Stays(room, set)
  BY <1>3, <1>4, <1>6, <1>7 DEF Stays, SamePlan, PendingOk
<1>9. Goes(set, room') /\ Watches(set, room')
  BY <1>1, <1>5, StaysRefl, ToCountdownGoes
<1>10. Lacks(room) => Lacks(set)
  BY <1>4, <1>8, StaysGoes DEF Goes
<1>11. Watches(room, set)
  BY <1>3, <1>4, <1>8, StaysReads DEF Watches, Watchful
<1>12. Watches(room, room')
  BY <1>8, <1>9, <1>11, WatchesTrans, StaysReads
<1> QED BY <1>4, <1>8, <1>9, <1>10, <1>12, StaysThenGoes

LEMMA SetPlayerReadyModeSteps ==
    ASSUME Inv, NEW mode \in Args.readyMode, SetPlayerReadyMode(mode)
    PROVE  /\ "player_ready_mode" \in Commands
           /\ room'.players = room.players /\ room'.size = room.size
           /\ room'.state = room.state /\ room'.timer = room.timer
           /\ room'.cfg.readyMode = mode
           /\ room'.cfg.balance = room.cfg.balance
           /\ room'.cfg.minimumPlayers = room.cfg.minimumPlayers
           /\ Watches(room, room')
<1> DEFINE c == [room.cfg EXCEPT !.readyMode = mode]
<1>1. "player_ready_mode" \in Commands /\ room' = [room EXCEPT !.cfg = c]
  BY DEF SetPlayerReadyMode, Console
<1>2. room \in Room /\ room.cfg \in Config /\ mode \in 0..3
  BY GoodType, ArgsType DEF Inv
<1>3. /\ c.readyMode = mode /\ c.balance = room.cfg.balance
      /\ c.minimumPlayers = room.cfg.minimumPlayers
      /\ c.warmup = room.cfg.warmup
  BY <1>2 DEF Config
<1> HIDE DEF c
<1>4. /\ room'.players = room.players /\ room'.size = room.size
      /\ room'.state = room.state /\ room'.timer = room.timer
      /\ room'.cfg = c /\ room'.unbalanced = room.unbalanced
      /\ SameLoop(room, room')
  BY <1>1, <1>2 DEF Room
<1>5. Watches(room, room')
  BY <1>3, <1>4 DEF Watches, Watchful, NeedsBalance, Difference, BiggerSide
<1> QED BY <1>1, <1>3, <1>4, <1>5

LEMMA MovePlayersGoes ==
    ASSUME Inv, NEW P \in SUBSET InRoom(room),
           NEW to \in [P -> Teams \cup {OppositeTeam}], MovePlayers(to)
    PROVE  Goes(room, room') /\ Minds(room, room')
<1> DEFINE t(p) == IF p \in DOMAIN to THEN to[p] ELSE NoTeam
           f == [p \in Players |-> [room.players[p] EXCEPT !.toTeam = t(p)]]
<1>1. room' = [room EXCEPT !.loop = "command", !.players = f]
  BY DEF MovePlayers
<1>2. room \in Room
  BY GoodType DEF Inv
<1>3. ASSUME NEW p \in Players
      PROVE  /\ t(p) # NoTeam => room.players[p].inRoom
             /\ t(p) \in Teams \cup {NoTeam, OppositeTeam}
  BY DEF InRoom
<1> HIDE DEF t
<1>4. ASSUME NEW p \in Players
      PROVE  LET x == f[p]
                 y == room.players[p]
             IN  /\ x.inRoom = y.inRoom /\ x.team = y.team
                 /\ x.toTeam = t(p) /\ x.ready = y.ready
                 /\ x.noRespawn = y.noRespawn /\ x.deadSpec = y.deadSpec
  <2>1. room.players[p] \in Player
    BY <1>2, PlayerType
  <2> QED BY <2>1 DEF Player
<1> HIDE DEF f
<1>5. /\ room'.players = f /\ room'.size = room.size /\ room'.cfg = room.cfg
      /\ room'.state = room.state /\ room'.timer = room.timer
      /\ room'.unbalanced = room.unbalanced /\ room'.loop = "command"
  BY <1>1, <1>2 DEF Room
<1>6. Settles(room, room')
  BY <1>3, <1>4, <1>5, PlayersSettle
<1>7. Minds(room, room')
  BY <1>5 DEF Minds, LoopOk, Watchful, NeedsBalance, Difference, BiggerSide
<1> QED BY <1>6, <1>7, SettlesGoes

LEMMA TeamCommandsGoes ==
    ASSUME Inv,
           SwapTeams \/ ShuffleTeams \/ \E t \in Teams : SetTeamAll(t)
    PROVE  Goes(room, room') /\ Minds(room, room')
<1>1. CASE SwapTeams
  <2> DEFINE to == [p \in Active(room) |-> OppositeTeam]
  <2>1. MovePlayers(to)
    BY <1>1 DEF SwapTeams
  <2>2. to \in [Active(room) -> Teams \cup {OppositeTeam}]
        /\ Active(room) \in SUBSET InRoom(room)
    BY ActiveType
  <2> HIDE DEF to
  <2> QED BY <2>1, <2>2, MovePlayersGoes
<1>2. CASE ShuffleTeams
  <2>1. PICK to \in Shuffled(room) : MovePlayers(to)
    BY <1>2 DEF ShuffleTeams
  <2>2. to \in [Active(room) -> Teams \cup {OppositeTeam}]
        /\ Active(room) \in SUBSET InRoom(room)
    BY ActiveType DEF Shuffled
  <2> QED BY <2>1, <2>2, MovePlayersGoes
<1>3. CASE \E t \in Teams : SetTeamAll(t)
  <2>1. PICK t \in Teams : SetTeamAll(t)
    BY <1>3
  <2> DEFINE to == [p \in InRoom(room) |-> ClampTeam(t)]
  <2>2. MovePlayers(to)
    BY <2>1 DEF SetTeamAll
  <2>3. to \in [InRoom(room) -> Teams \cup {OppositeTeam}]
    BY ClampTeamType
  <2> HIDE DEF to
  <2> QED BY <2>2, <2>3, MovePlayersGoes
<1> QED BY <1>1, <1>2, <1>3

LEMMA CommandStepGoes ==
    ASSUME Inv, PendingOk(room), CommandStep
    PROVE  Goes(room, room') /\ Minds(room, room')
<1> DEFINE pending == {p \in Players : room.players[p].toTeam # NoTeam}
           target(p) == IF room.players[p].toTeam = OppositeTeam
                        THEN Other(room.players[p].team)
                        ELSE room.players[p].toTeam
<1>1. PICK p \in pending :
        \E m \in Movers(SwitchTeams(room, One(p, target(p)))) :
          room' = [DoTeamChange(room, p, target(p), m) EXCEPT
                     !.players[p].toTeam = NoTeam,
                     !.loop = IF pending = {p} THEN "none" ELSE @]
  BY ZenonT(60) DEF CommandStep
<1> DEFINE t == target(p)
<1>2. PICK m \in Movers(SwitchTeams(room, One(p, t))) :
        room' = [DoTeamChange(room, p, t, m) EXCEPT
                   !.players[p].toTeam = NoTeam,
                   !.loop = IF pending = {p} THEN "none" ELSE @]
  BY <1>1
<1> DEFINE d == DoTeamChange(room, p, t, m)
           l == IF pending = {p} THEN "none" ELSE d.loop
           x == [d.players[p] EXCEPT !.toTeam = NoTeam]
<1>3. /\ p \in InRoom(room) /\ p \in Players /\ room.players[p] \in Player
      /\ GoodRoom(room)
  BY PlayerType DEF PendingOk, InRoom, Inv, GoodRoom
<1>4. t \in Teams
  BY <1>3 DEF Player, Other
<1> HIDE DEF target, t
<1>5. Goes(room, d) /\ Watches(room, d)
  BY <1>3, <1>4, DoTeamChangeGoes
<1>6. d \in Room
  <2>1. m \in SUBSET Players
    BY MoversType
  <2> QED BY <1>3, <1>4, <2>1, DoTeamChangeGood, GoodType
<1> HIDE DEF d
<1>7. room' = [d EXCEPT !.players = [d.players EXCEPT ![p] = x], !.loop = l]
  BY <1>2, <1>6 DEF d, Room
<1>8. l # "balance"
  BY <1>5 DEF CommandStep, Watches
<1> HIDE DEF l
<1>9. /\ x.inRoom = d.players[p].inRoom /\ x.team = d.players[p].team
      /\ x.ready = d.players[p].ready /\ x.toTeam = NoTeam
      /\ x.noRespawn = d.players[p].noRespawn
      /\ x.deadSpec = d.players[p].deadSpec
  <2>1. d.players[p] \in Player
    BY <1>3, <1>6, PlayerType
  <2> QED BY <2>1 DEF Player
<1> HIDE DEF x
<1>10. /\ room'.size = d.size /\ room'.cfg = d.cfg
       /\ room'.state = d.state /\ room'.timer = d.timer
       /\ room'.players[p] = x
       /\ \A y \in Players \ {p} : room'.players[y] = d.players[y]
       /\ room'.unbalanced = d.unbalanced /\ room'.loop = l
  BY <1>3, <1>6, <1>7 DEF Room
<1>11. Settles(d, room')
  BY <1>9, <1>10, PlayersSettle
<1>12. Minds(room, room')
  <2>1. Watchful(d) => Watchful(room')
    BY <1>10 DEF Watchful, NeedsBalance, Difference, BiggerSide
  <2>2. LoopOk(room')
    BY <1>8, <1>10 DEF LoopOk
  <2> QED BY <1>5, <1>10, <2>1, <2>2 DEF Watches, Minds
<1> QED BY <1>5, <1>11, <1>12, GoesSettles

-----------------------------------------------------------------------------
(* Ticks.                                                                  *)

\* Who a change of teams would move does not depend on the rest of the room.
LEMMA SwitchTeamsPlaces ==
    ASSUME NEW r \in Room, NEW s \in Room, SamePlaces(r, s),
           NEW P \in SUBSET Players, NEW to \in [P -> Teams]
    PROVE  SamePlaces(SwitchTeams(r, to), SwitchTeams(s, to))
<1> DEFINE ps(x) == {p \in DOMAIN to : x.players[p].team # to[p]}
           leave(x, t) == {p \in ps(x) : x.players[p].team = t}
           join(x, t) == {p \in ps(x) : to[p] = t}
           n(x) == [t \in Sides |-> x.size[t] - Cardinality(leave(x, t))
                                      + Cardinality(join(x, t))]
<1>1. ASSUME NEW x \in Room
      PROVE  SwitchTeams(x, to).size = IF ps(x) = {} THEN x.size ELSE n(x)
  <2>1. KillCharacters(x, ps(x)) \in Room
    BY KillCharactersSame
  <2> QED BY <2>1 DEF SwitchTeams, Room
<1>2. ps(s) = ps(r)
  BY DEF SamePlaces
<1>3. \A t : leave(s, t) = leave(r, t) /\ join(s, t) = join(r, t)
  <2> HIDE DEF ps
  <2>1. ps(r) \in SUBSET Players
    BY DEF ps
  <2> QED BY <1>2, <2>1 DEF SamePlaces
<1>4. s.size = r.size
  BY DEF SamePlaces
<1> HIDE DEF ps, leave, join
<1>5. n(s) = n(r)
  BY <1>3, <1>4
<1> HIDE DEF n
<1>6. SwitchTeams(s, to).size = SwitchTeams(r, to).size
  BY <1>1, <1>2, <1>4, <1>5
<1>7. ASSUME NEW x \in Room, NEW p \in Players
      PROVE  LET y == SwitchTeams(x, to).players[p] IN
             /\ y.inRoom = x.players[p].inRoom
             /\ y.toTeam = x.players[p].toTeam
             /\ y.team = IF p \in P THEN to[p] ELSE x.players[p].team
  BY SwitchTeamsFields
<1>8. ASSUME NEW x \in Room PROVE SwitchTeams(x, to).cfg = x.cfg
  BY SwitchTeamsKeeps
<1>9. SwitchTeams(s, to).cfg = SwitchTeams(r, to).cfg
  BY <1>8 DEF SamePlaces
<1>10. ASSUME NEW x \in Room
       PROVE  /\ SameLoop(x, SwitchTeams(x, to))
              /\ SwitchTeams(x, to).unbalanced =
                   IF ps(x) = {} THEN x.unbalanced ELSE "check"
  <2>1. KillCharacters(x, ps(x)) \in Room
    BY KillCharactersSame
  <2>2. SameLoop(x, SwitchTeams(x, to))
    BY SwitchTeamsSame DEF SameState
  <2>3. SwitchTeams(x, to).unbalanced =
          IF ps(x) = {} THEN x.unbalanced ELSE "check"
    BY <2>1 DEF SwitchTeams, Room, ps
  <2> QED BY <2>2, <2>3
<1>11. SameTeams(SwitchTeams(r, to), SwitchTeams(s, to))
  BY <1>2, <1>6, <1>9, <1>10 DEF SamePlaces
<1> QED BY <1>7, <1>11 DEF SamePlaces

LEMMA NobodySwitches ==
    ASSUME NEW r
    PROVE  SwitchTeams(r, Nobody) = r
BY DEF SwitchTeams, Nobody

\* After a match only who plays changes teams, and plays on.
LEMMA RematchesPlay ==
    ASSUME NEW r \in Room, NEW teams \in Rematches(r)
    PROVE  /\ DOMAIN teams \in SUBSET Active(r)
           /\ teams \in [DOMAIN teams -> Sides]
           /\ r.state # END_MATCH \/ ~Teamplay => teams = Nobody
<1>1. /\ DOMAIN Nobody \in SUBSET Active(r)
      /\ Nobody \in [DOMAIN Nobody -> Sides]
  BY DEF Nobody
<1>2. /\ DOMAIN Swapped(r) \in SUBSET Active(r)
      /\ Swapped(r) \in [DOMAIN Swapped(r) -> Sides]
  BY DEF Swapped, Other
<1>3. ASSUME NEW to \in Shuffled(r)
      PROVE  /\ DOMAIN to \in SUBSET Active(r)
             /\ to \in [DOMAIN to -> Sides]
  BY DEF Shuffled
<1>4. r.cfg.matchSwap \in 0..2
  BY DEF Room, Config
<1> QED BY <1>1, <1>2, <1>3, <1>4 DEF Rematches

LEMMA TimerFiresGoes ==
    ASSUME NEW r, GoodRoom(r), NoWait(r), NEW P \in SUBSET Active(r),
           NEW teams \in [P -> Sides],
           r.state # END_MATCH \/ ~Teamplay => teams = Nobody,
           NEW m \in Movers(SwitchTeams(r, teams))
    PROVE  LET s == TimerFires(r, teams, m) IN Goes(r, s) /\ Watches(r, s)
<1> DEFINE e == SwitchTeams(r, teams)
           s == TimerFires(r, teams, m)
<1>1. /\ P \in SUBSET Players /\ P \in SUBSET InRoom(r)
      /\ teams \in [P -> Teams] /\ r \in Room
  BY ActiveType, GoodType
<1>2. m \in SUBSET Active(e) /\ CanBalance(e, m) /\ m \in SUBSET Players
  BY MoversPlay, ActiveType
<1>3. GoodRoom(s) /\ s \in Room
  BY <1>1, <1>2, TimerFiresGood, GoodType
<1>4. CASE r.state = END_MATCH
  <2>1. s \in {ResetMatch(e, m), StartMatch(e, m)}
    BY <1>4 DEF TimerFires
  <2>2. /\ e \in Room /\ SameState(r, e) /\ GoodRoom(e)
        /\ PlayersOk(r) => PlayersOk(e)
        /\ SizesTrue(r) => SizesTrue(e)
        /\ Watches(r, e)
    BY <1>1, SwitchTeamsSame, SwitchTeamsKeeps, SwitchTeamsSizes, SameStateGood,
       SwitchTeamsWatch
  <2>3. ASSUME NEW p \in Players
        PROVE  /\ e.players[p].inRoom = r.players[p].inRoom
               /\ e.players[p].toTeam = r.players[p].toTeam
               /\ e.players[p].team = IF p \in P THEN teams[p]
                                      ELSE r.players[p].team
    BY <1>1, SwitchTeamsFields
  <2> HIDE DEF e, s
  <2>4. Begins(e, s, m)
    BY <1>2, <2>1, <2>2, ResetMatchTries, StartMatchBegins
  <2>5. PlayersOk(r) => WaitOk(s)
    BY <2>2, <2>4, AsksAllWaits DEF Begins
  <2>6. Active(e) = Active(r)
    BY <2>3 DEF Active, InRoom
  <2>7. (Teamplay => SizesTrue(r)) /\ HasNoPlayers(e) => HasNoPlayers(r)
    <3>1. CASE Teamplay
      BY <1>1, <2>2, <2>6, <3>1, EmptyIsInactive
    <3>2. CASE ~Teamplay
      <4>1. e = r
        BY <3>2, NobodySwitches DEF e
      <4> QED BY <4>1
    <3> QED BY <3>1, <3>2
  <2>8. /\ SamePlan(r, e) /\ (PendingOk(r) => PendingOk(e))
        /\ Starting(r) => Starting(e)
    BY <2>2, <2>3 DEF SamePlan, PendingOk, Starting, SameState
  <2>9. Goes(r, s)
    BY <1>2, <1>3, <2>2, <2>4, <2>5, <2>7, <2>8, GoesBy DEF Begins
  <2>10. Watches(r, s)
    BY <1>2, <2>2, <2>4, KeepsWatch DEF Begins
  <2> QED BY <2>9, <2>10 DEF s
<1>5. CASE r.state # END_MATCH
  <2>1. e = r
    BY <1>5, NobodySwitches
  <2>2. m \in SUBSET Active(r) /\ CanBalance(r, m)
    BY <1>2, <2>1
  <2> HIDE DEF e
  <2>3. CASE r.state = WARMUP_USER
    <3>1. s = StartMatch(r, m)
      BY <2>3 DEF TimerFires
    <3> QED BY <1>1, <1>3, <2>2, <3>1, StartMatchBegins, BeginsGoes
  <2>4. CASE r.state = END_ROUND
    <3>1. s = StartRound(r, m)
      BY <2>4 DEF TimerFires
    <3> QED BY <1>1, <1>3, <2>2, <3>1, StartRoundBegins, BeginsGoes
  <2>5. CASE r.state = START_COUNTDOWN
    <3>1. s = ToRunning(r) /\ ~Starting(r)
      BY <2>5 DEF TimerFires, Starting, Warmups
    <3> QED BY <3>1, ToRunningStays
  <2>6. CASE r.state = GAME_PAUSED
    <3>1. s = ToCountdown(r)
      BY <2>6 DEF TimerFires
    <3> QED BY <3>1, ToCountdownGoes
  <2>7. CASE r.state \notin {WARMUP_USER, END_ROUND, START_COUNTDOWN, GAME_PAUSED}
    BY <1>5, <2>7, StaysRefl DEF TimerFires
  <2> QED BY <2>3, <2>4, <2>5, <2>6, <2>7
<1> QED BY <1>4, <1>5

LEMMA TimersGoes ==
    ASSUME NEW r, GoodRoom(r), NoWait(r), NEW P \in SUBSET Active(r),
           NEW teams \in [P -> Sides],
           r.state # END_MATCH \/ ~Teamplay => teams = Nobody,
           NEW m \in Movers(SwitchTeams(r, teams))
    PROVE  LET s == Timers(r, teams, m) IN
           /\ Goes(r, s) /\ Watches(r, s)
           /\ r.state = GAME_PAUSED /\ r.timer = TIMER_INFINITE => Settles(r, s)
<1> DEFINE left == IF r.timer > 0 THEN r.timer - 1 ELSE r.timer
           b == r.fresh /\ left # 0 /\ r.state \in Frozen
           next == [r EXCEPT !.timer = left, !.fresh = b]
           s == Timers(r, teams, m)
<1>1. left \in Seconds /\ (r.timer = TIMER_INFINITE <=> left = TIMER_INFINITE)
  BY GoodType DEF Seconds
<1>2. s = IF left = 0 THEN TimerFires(next, teams, m)
          ELSE IF /\ r.state = WARMUP_USER /\ left = TIMER_INFINITE
                  /\ ~ReadyToStart(r)
          THEN DoWarmup(next, r.cfg.warmup, m)
          ELSE next
  BY DEF Timers
<1>3. b \in BOOLEAN /\ r \in Room
  BY GoodType
<1> HIDE DEF left, b
<1>4. /\ GoodRoom(next) /\ NoWait(next) /\ next \in Room
      /\ next.players = r.players /\ SameTeams(r, next)
      /\ next.state = r.state /\ next.timer = left
  BY <1>1, <1>3 DEF GoodRoom, Room, Patient, Coherent, NoWait, HasEnoughPlayers
<1> HIDE DEF next, s
<1>5. SamePlaces(r, next)
  BY <1>4 DEF SamePlaces
<1>6. PlayersOk(r) => PlayersOk(next)
  BY <1>4, SamePlayersKeep
<1>7. WaitOk(r) => WaitOk(next)
  BY <1>1, <1>4 DEF WaitOk, Unready, ReadyToStart, Active, InRoom
<1>8. Stays(r, next)
  BY <1>5, <1>6, <1>7, SamePlacesStays
<1>9. Lacks(r) => Lacks(next)
  BY <1>1, <1>4, <1>5, SamePlacesReads DEF Lacks
<1>10. Active(next) = Active(r) /\ P \in SUBSET Active(next)
  BY <1>5, SamePlacesReads
<1>11. m \in Movers(SwitchTeams(next, teams))
  <2>1. P \in SUBSET Players /\ teams \in [P -> Teams]
    BY ActiveType
  <2>2. SamePlaces(SwitchTeams(r, teams), SwitchTeams(next, teams))
    BY <1>3, <1>4, <1>5, <2>1, SwitchTeamsPlaces
  <2> QED BY <2>2, SamePlacesReads
<1>12. Goes(next, s) /\ Watches(next, s)
  <2>1. CASE left = 0
    BY <1>2, <1>4, <1>10, <1>11, <2>1, TimerFiresGoes
  <2>2. CASE /\ left # 0 /\ r.state = WARMUP_USER /\ left = TIMER_INFINITE
             /\ ~ReadyToStart(r)
    <3>1. s = DoWarmup(next, r.cfg.warmup, m) /\ r.cfg.warmup \in Nat
      BY <1>2, <2>2, GoodType DEF Config
    <3>2. m \in Movers(next)
      BY <1>11, <2>2, NobodySwitches
    <3>3. /\ m \in SUBSET Active(next) /\ CanBalance(next, m)
          /\ m \in SUBSET Players
      BY <3>2, MoversPlay, ActiveType
    <3>4. Begins(next, s, m)
      BY <1>4, <3>1, <3>3, DoWarmupBegins
    <3>5. r.cfg.warmup \in Seconds
      BY <3>1 DEF Seconds
    <3>6. s \in Room
      BY <1>4, <3>1, <3>3, <3>5, DoWarmupGood, GoodType
    <3> QED BY <1>4, <3>3, <3>4, <3>6, BeginsGoes
  <2>3. CASE left # 0 /\ ~(/\ r.state = WARMUP_USER /\ left = TIMER_INFINITE
                           /\ ~ReadyToStart(r))
    BY <1>2, <2>3, StaysRefl
  <2> QED BY <2>1, <2>2, <2>3
<1>13. Goes(r, s)
  BY <1>4, <1>8, <1>9, <1>12, StaysThenGoes
<1>14. r.state = GAME_PAUSED /\ r.timer = TIMER_INFINITE => Settles(r, s)
  <2> SUFFICES ASSUME r.state = GAME_PAUSED, r.timer = TIMER_INFINITE
               PROVE  Settles(r, s)
    OBVIOUS
  <2>1. s = next
    BY <1>1, <1>2
  <2> QED BY <1>4, <1>8, <2>1 DEF Settles, Warmups
<1>15. Watches(r, s)
  BY <1>4, <1>8, <1>12, SameTeamsWatch, WatchesTrans, StaysReads
<1> QED BY <1>13, <1>14, <1>15 DEF s

LEMMA PauseIfRequestedStays ==
    ASSUME NEW r, GoodRoom(r)
    PROVE  LET q == PauseIfRequested(r) IN
           /\ q \in Room /\ SamePlaces(r, q) /\ Stays(r, q)
           /\ \/ q.state = r.state /\ q.timer = r.timer
              \/ /\ q.state = GAME_PAUSED /\ q.timer = TIMER_INFINITE
                 /\ r.state # END_MATCH
<1> DEFINE u == ToPaused(r, TIMER_INFINITE)
           q == PauseIfRequested(r)
           v == [u EXCEPT !.pauseRequested = FALSE]
           w == [r EXCEPT !.state = GAME_PAUSED, !.paused = TRUE,
                          !.timer = TIMER_INFINITE]
           x == SetPlayersReadyState(w, FALSE)
<1> r \in Room
  BY GoodType
<1>1. q = IF r.pauseRequested THEN v ELSE r
  BY DEF PauseIfRequested
<1>2. /\ GoodRoom(u) /\ u \in Room
      /\ SamePlaces(r, u) /\ (PlayersOk(r) => PlayersOk(u))
  <2>1. TIMER_INFINITE \in Seconds
    BY DEF Seconds
  <2> QED BY <2>1, ToPausedGood, ToPausedKeeps, GoodType
<1>3. u = IF r.state \notin {GAME_RUNNING, GAME_PAUSED, WARMUP_GAME}
          THEN r ELSE x
  BY DEF ToPaused
<1>4. w \in Room /\ w.state = GAME_PAUSED /\ w.timer = TIMER_INFINITE
  BY DEF Room, GameStates, Seconds
<1> HIDE DEF w
<1>5. x.state = GAME_PAUSED /\ x.timer = TIMER_INFINITE
  BY <1>4, SetPlayersReadyStateSame DEF SameGame
<1>6. Stays(r, u)
      /\ \/ u.state = r.state /\ u.timer = r.timer
         \/ /\ u.state = GAME_PAUSED /\ u.timer = TIMER_INFINITE
            /\ r.state # END_MATCH
  <2>1. CASE u = r
    BY <2>1, StaysRefl
  <2>2. CASE u = x /\ r.state \in {GAME_RUNNING, GAME_PAUSED, WARMUP_GAME}
    <3>1. u.state = GAME_PAUSED /\ u.timer = TIMER_INFINITE
      BY <1>5, <2>2
    <3> HIDE DEF u
    <3> QED BY <1>2, <2>2, <3>1, SamePlacesMove
  <2> QED BY <1>3, <2>1, <2>2
<1> HIDE DEF u, x
<1>7. /\ v \in Room /\ v.players = u.players /\ SameTeams(u, v)
      /\ v.state = u.state /\ v.timer = u.timer
  BY <1>2 DEF Room
<1> HIDE DEF v
<1>8. SamePlaces(u, v) /\ Settles(u, v)
  BY <1>7, SamePlayersKeep, PlayersSettle
<1>9. SamePlaces(r, v) /\ Stays(r, v)
  BY <1>2, <1>6, <1>8, SamePlacesTrans DEF Settles, Stays, SamePlan
<1> QED BY <1>1, <1>6, <1>7, <1>9, SamePlacesRefl, StaysRefl DEF q

LEMMA TimedRoomsGoes ==
    ASSUME Inv, NEW r \in TimedRooms
    PROVE  Goes(room, r) /\ Watches(room, r)
<1> DEFINE q == PauseIfRequested(room)
<1>1. PICK teams \in Rematches(room) :
      \E m \in Movers(SwitchTeams(room, teams)) : r = Timers(q, teams, m)
  BY DEF TimedRooms
<1>2. PICK m \in Movers(SwitchTeams(room, teams)) : r = Timers(q, teams, m)
  BY <1>1
<1> DEFINE P == DOMAIN teams
<1>3. /\ P \in SUBSET Active(room) /\ teams \in [P -> Sides]
      /\ room.state # END_MATCH \/ ~Teamplay => teams = Nobody
      /\ room \in Room /\ GoodRoom(room)
  BY RematchesPlay, GoodType DEF Inv
<1>4. /\ q \in Room /\ SamePlaces(room, q) /\ Stays(room, q)
      /\ \/ q.state = room.state /\ q.timer = room.timer
         \/ /\ q.state = GAME_PAUSED /\ q.timer = TIMER_INFINITE
            /\ room.state # END_MATCH
  BY <1>3, PauseIfRequestedStays
<1>5. GoodRoom(q) /\ NoWait(q)
  BY PauseIfRequestedGood DEF Inv
<1> HIDE DEF q, P
<1>6. Active(q) = Active(room) /\ m \in Movers(SwitchTeams(q, teams))
  <2>1. P \in SUBSET Players /\ teams \in [P -> Teams]
    BY <1>3, ActiveType
  <2>2. SamePlaces(SwitchTeams(room, teams), SwitchTeams(q, teams))
    BY <1>3, <1>4, <2>1, SwitchTeamsPlaces
  <2> QED BY <1>4, <2>2, SamePlacesReads
<1>7. q.state # END_MATCH \/ ~Teamplay => teams = Nobody
  BY <1>3, <1>4
<1>8. /\ Goes(q, r) /\ Watches(q, r)
      /\ (q.state = GAME_PAUSED /\ q.timer = TIMER_INFINITE => Settles(q, r))
  BY <1>2, <1>3, <1>5, <1>6, <1>7, TimersGoes
<1>9. Watches(room, r)
  BY <1>4, <1>8, SameTeamsWatch, WatchesTrans, StaysReads DEF SamePlaces
<1>10. CASE q.state = room.state /\ q.timer = room.timer
  <2>1. Lacks(room) => Lacks(q)
    BY <1>4, <1>10, StaysGoes DEF Goes
  <2> QED BY <1>4, <1>8, <1>9, <1>10, <2>1, StaysThenGoes
<1>11. CASE q.state = GAME_PAUSED /\ q.timer = TIMER_INFINITE
  <2>1. Goes(room, q)
    BY <1>4, <1>11, StaysGoes DEF Warmups, Started
  <2> QED BY <1>8, <1>9, <1>11, <2>1, GoesSettles
<1> QED BY <1>4, <1>10, <1>11

LEMMA CheckTeamBalanceSettles ==
    ASSUME NEW r \in Room
    PROVE  LET s == CheckTeamBalance(r) IN Settles(r, s) /\ Watches(r, s)
<1> DEFINE b == IF NeedsBalance(r) THEN "since" ELSE "ok"
           u == [r EXCEPT !.unbalanced = b]
<1>1. CheckTeamBalance(r) \in {r, u}
  BY DEF CheckTeamBalance
<1>2. b = "ok" => ~NeedsBalance(r)
  OBVIOUS
<1> HIDE DEF b
<1>3. /\ u.players = r.players /\ u.size = r.size /\ u.cfg = r.cfg
      /\ u.state = r.state /\ u.timer = r.timer
      /\ u.unbalanced = b /\ SameLoop(r, u)
  BY DEF Room
<1> HIDE DEF u
<1>4. Settles(r, u)
  BY <1>3, PlayersSettle
<1>5. Watches(r, u)
  BY <1>2, <1>3 DEF Watches, Watchful, NeedsBalance, Difference, BiggerSide
<1> QED BY <1>1, <1>4, <1>5, StaysRefl

LEMMA DoWincheckMatchSettles ==
    ASSUME NEW r, GoodRoom(r), NEW outcome \in Outcomes,
           r.state \in {GAME_RUNNING, GAME_PAUSED}
    PROVE  LET s == DoWincheckMatch(r, outcome)
           IN  Settles(r, s) /\ Watches(r, s)
<1> DEFINE s == DoWincheckMatch(r, outcome)
<1>1. /\ s.state \in {r.state, END_MATCH}
      /\ SamePlaces(r, s) /\ (PlayersOk(r) => PlayersOk(s))
  BY DoWincheckMatchGood, DoWincheckMatchKeeps
<1> HIDE DEF s
<1>2. Stays(r, s)
  BY <1>1, SamePlacesMove
<1>3. Settles(r, s)
  BY <1>1, <1>2 DEF Settles, Warmups
<1>4. Watches(r, s)
  BY <1>1, SameTeamsWatch DEF SamePlaces
<1> QED BY <1>3, <1>4 DEF s

LEMMA EndRoundSettles ==
    ASSUME NEW r, GoodRoom(r), NEW outcome \in Outcomes,
           r.state \in {GAME_RUNNING, GAME_PAUSED}
    PROVE  LET s == EndRound(r, outcome)
           IN  Settles(r, s) /\ Watches(r, s)
<1> DEFINE s == EndRound(r, outcome)
<1>1. /\ s.state \in {r.state, END_MATCH, END_ROUND}
      /\ SamePlaces(r, s) /\ (PlayersOk(r) => PlayersOk(s))
  BY EndRoundGood, EndRoundKeeps
<1> HIDE DEF s
<1>2. Stays(r, s)
  BY <1>1, SamePlacesMove
<1>3. Settles(r, s)
  BY <1>1, <1>2 DEF Settles, Warmups
<1>4. Watches(r, s)
  BY <1>1, SameTeamsWatch DEF SamePlaces
<1> QED BY <1>3, <1>4 DEF s

LEMMA WorldTickSettles ==
    ASSUME NEW r \in Room
    PROVE  LET s == WorldTick(r) IN Settles(r, s) /\ Watches(r, s)
<1> DEFINE b(p) == r.players[p].noRespawn /\ p \notin InRoom(r)
           f == [p \in Players |-> [r.players[p] EXCEPT !.alive = FALSE,
                                                        !.noRespawn = b(p)]]
           u == [r EXCEPT !.resetRequested = FALSE, !.players = f]
<1>1. WorldTick(r) = IF r.resetRequested THEN Respawn(u, InRoom(r)) ELSE r
  BY DEF WorldTick
<1>2. ASSUME NEW p \in Players PROVE b(p) \in BOOLEAN
  OBVIOUS
<1>3. ASSUME NEW p \in Players PROVE b(p) => r.players[p].noRespawn
  OBVIOUS
<1> HIDE DEF b
<1>4. ASSUME NEW p \in Players
      PROVE  LET x == [r.players[p] EXCEPT !.alive = FALSE, !.noRespawn = b(p)]
                 y == r.players[p]
             IN  /\ x \in Player
                 /\ x.inRoom = y.inRoom /\ x.team = y.team
                 /\ x.toTeam = y.toTeam /\ x.ready = y.ready
                 /\ x.noRespawn = b(p) /\ x.deadSpec = y.deadSpec
  <2>1. r.players[p] \in Player
    BY PlayerType
  <2> QED BY <1>2, <2>1 DEF Player
<1>5. f \in [Players -> Player]
  BY <1>4
<1>6. ASSUME NEW p \in Players
      PROVE  LET x == f[p]
                 y == r.players[p]
             IN  /\ x.inRoom = y.inRoom /\ x.team = y.team
                 /\ x.toTeam = y.toTeam /\ x.ready = y.ready
                 /\ x.noRespawn => y.noRespawn
                 /\ x.deadSpec = y.deadSpec
  BY <1>3, <1>4
<1> HIDE DEF f
<1>7. /\ u \in Room /\ u.players = f /\ SameTeams(r, u)
      /\ u.state = r.state /\ u.timer = r.timer
  BY <1>5 DEF Room
<1> HIDE DEF u
<1>8. Settles(r, u)
  BY <1>6, <1>7, PlayersSettle
<1> DEFINE v == Respawn(u, InRoom(r))
<1>9. Settles(u, v) /\ SameTeams(u, v)
  BY <1>7, RespawnKeeps DEF SamePlaces
<1> HIDE DEF v
<1>10. Settles(r, v) /\ Watches(r, v)
  BY <1>7, <1>8, <1>9, SettlesTrans, SameTeamsWatch
<1> QED BY <1>1, <1>10, StaysRefl DEF v

LEMMA EndTickSettles ==
    ASSUME NEW r, GoodRoom(r), EndTick(r)
    PROVE  Settles(r, room') /\ Watches(r, room')
<1>1. PICK outcome \in Outcomes :
        \E t : room' = WorldTick(WinCheck(r, t, outcome))
  BY DEF EndTick, Outcomes
<1>2. PICK timeUp : room' = WorldTick(WinCheck(r, timeUp, outcome))
  BY <1>1
<1> DEFINE w == WinCheck(r, timeUp, outcome)
<1>3. Settles(r, w) /\ Watches(r, w)
  BY DoWincheckMatchSettles, EndRoundSettles, StaysRefl DEF WinCheck
<1>4. w \in Room
  BY DoWincheckMatchGood, EndRoundGood, GoodType DEF WinCheck
<1>5. room' = WorldTick(w)
  BY <1>2
<1> HIDE DEF w
<1>6. Settles(w, room') /\ Watches(w, room')
  BY <1>4, <1>5, WorldTickSettles
<1> QED BY <1>3, <1>6, SettlesTrans, WatchesTrans, StaysReads DEF Settles

LEMMA TickGoes ==
    ASSUME Inv, Tick
    PROVE  Goes(room, room') /\ Watches(room, room')
<1>1. PICK r \in TimedRooms : EndTick(CheckTeamBalance(r))
  BY DEF Tick
<1>2. Goes(room, r) /\ GoodRoom(r) /\ NoWait(r) /\ Watches(room, r)
  BY TimedRoomsGoes, TimedRoomsGood
<1> DEFINE c == CheckTeamBalance(r)
<1>3. Settles(r, c) /\ Watches(r, c) /\ GoodRoom(c) /\ EndTick(c)
  BY <1>1, <1>2, CheckTeamBalanceSettles, CheckTeamBalanceGood, GoodType
<1> HIDE DEF c
<1>4. Settles(c, room') /\ Watches(c, room')
  BY <1>3, EndTickSettles
<1>5. Goes(room, room')
  BY <1>2, <1>3, <1>4, SettlesTrans, GoesSettles
<1>6. Watches(room, c)
  BY <1>2, <1>3, WatchesTrans DEF Goes
<1>7. SizesTrue(room) => SizesTrue(c)
  BY <1>2, <1>3, StaysReads DEF Goes, Settles
<1> QED BY <1>4, <1>5, <1>6, <1>7, WatchesTrans

\* The fields of a loop are read by the loop alone.
LEMMA LoopSettles ==
    ASSUME NEW r \in Room, NEW l, NEW n, NEW b, NEW u
    PROVE  Settles(r, [r EXCEPT !.loop = l, !.numBalance = n, !.bigger = b,
                                !.unbalanced = u])
<1> DEFINE s == [r EXCEPT !.loop = l, !.numBalance = n, !.bigger = b,
                          !.unbalanced = u]
<1>1. /\ s.players = r.players /\ s.size = r.size /\ s.cfg = r.cfg
      /\ s.state = r.state /\ s.timer = r.timer
  BY DEF Room
<1> HIDE DEF s
<1>2. Settles(r, s)
  BY <1>1, PlayersSettle
<1> QED BY <1>2 DEF s

LEMMA TickBalancesGoes ==
    ASSUME Inv, TickBalances
    PROVE  Goes(room, room') /\ Minds(room, room')
<1>1. PICK r \in TimedRooms :
        /\ BalanceDue(r)
        /\ room' = [r EXCEPT !.loop = "balance", !.bigger = BiggerSide(r),
                             !.numBalance = Difference(r) \div 2]
  BY DEF TickBalances
<1>2. Goes(room, r) /\ Watches(room, r) /\ r \in Room
  BY TimedRoomsGoes, TimedRoomsGood, GoodType
<1> DEFINE n == Difference(r) \div 2
           b == BiggerSide(r)
<1> HIDE DEF n, b
<1>3. room' = [r EXCEPT !.loop = "balance", !.numBalance = n, !.bigger = b,
                        !.unbalanced = r.unbalanced]
  BY <1>1, <1>2 DEF n, b, Room
<1>4. /\ room'.phase = r.phase /\ room'.size = r.size /\ room'.cfg = r.cfg
      /\ room'.numBalance = n /\ room'.bigger = b
      /\ room'.unbalanced = "since"
  BY <1>1, <1>2, <1>3 DEF Room, BalanceDue
<1>5. r.phase = "run"
  BY <1>2 DEF Watches, TickBalances, Running
<1>6. /\ Difference(r) \in Int /\ Difference(r) >= 2
      /\ Difference(r) = r.size[b] - r.size[Other(b)]
  <2>1. r.size \in [Sides -> Int]
    BY <1>2 DEF Room
  <2> QED BY <1>1, <2>1
          DEF BalanceDue, NeedsBalance, Difference, BiggerSide, Other, b
<1>7. n >= 1 /\ Difference(r) \in {2 * n, 2 * n + 1}
  BY <1>6 DEF n
<1>8. Minds(room, room')
  BY <1>2, <1>4, <1>5, <1>6, <1>7 DEF Watches, Minds, LoopOk, Watchful
<1> QED BY <1>2, <1>3, <1>8, LoopSettles, GoesSettles

LEMMA PassDoneSettles ==
    ASSUME NEW r, GoodRoom(r), PassDone(r)
    PROVE  Settles(r, room')
<1> DEFINE n == room.numBalance - 1
           u == [r EXCEPT !.numBalance = n]
           v == [r EXCEPT !.loop = "none", !.numBalance = 0, !.unbalanced = "ok"]
<1> r \in Room
  BY GoodType
<1>1. CASE room' = u
  <2> HIDE DEF n
  <2>1. /\ u.players = r.players /\ u.size = r.size /\ u.cfg = r.cfg
        /\ u.state = r.state /\ u.timer = r.timer
    BY DEF Room
  <2> HIDE DEF u
  <2> QED BY <1>1, <2>1, PlayersSettle
<1>2. CASE EndTick(v)
  <2>1. /\ v.players = r.players /\ v.size = r.size /\ v.cfg = r.cfg
        /\ v.state = r.state /\ v.timer = r.timer
    BY DEF Room
  <2>2. GoodRoom(v)
    BY DEF GoodRoom, Room, Patient, Coherent
  <2> HIDE DEF v
  <2> QED BY <1>2, <2>1, <2>2, PlayersSettle, EndTickSettles, SettlesTrans
<1> QED BY <1>1, <1>2 DEF PassDone

LEMMA BalanceStepGoes ==
    ASSUME Inv, BalanceStep
    PROVE  Goes(room, room')
<1>1. GoodRoom(room)
  BY DEF Inv
<1>2. CASE PassDone(room)
  BY <1>1, <1>2, PassDoneSettles, SettlesGoes
<1>3. CASE ~PassDone(room)
  <2> DEFINE to == Other(room.bigger)
  <2>1. PICK p \in Side(room, room.bigger) :
          \E m \in Movers(SwitchTeams(room, One(p, to))) :
            PassDone(DoTeamChange(room, p, to, m))
    BY <1>3 DEF BalanceStep
  <2>2. PICK m \in Movers(SwitchTeams(room, One(p, to))) :
          PassDone(DoTeamChange(room, p, to, m))
    BY <2>1
  <2>3. p \in InRoom(room) /\ p \in Players /\ m \in SUBSET Players
    BY MoversType DEF Side, InRoom
  <2>4. to \in Teams
    BY DEF Other
  <2> HIDE DEF to
  <2>5. GoodRoom(DoTeamChange(room, p, to, m))
    BY <1>1, <2>3, <2>4, DoTeamChangeGood
  <2> QED BY <1>1, <2>2, <2>3, <2>4, <2>5, DoTeamChangeGoes, PassDoneSettles,
             GoesSettles
<1> QED BY <1>2, <1>3

-----------------------------------------------------------------------------
(* The balancer's loop.                                                    *)

\* Where somebody plays and a warmup has a length, what a change of teams does
\* after the change starts no match: it ends a pause or begins a warmup.
LEMMA WarmRallyStays ==
    ASSUME NEW r, GoodRoom(r), r.state \in Warmups => r.cfg.warmup # 0,
           ~HasNoPlayers(r), NEW m \in SUBSET Active(r)
    PROVE  SamePlaces(r, Rally(r, {}, m))
<1> DEFINE a == CheckReadyStates(r, {}, m)
           q == SetPlayersReadyState(a, TRUE)
           s == Rally(r, {}, m)
<1>1. /\ GoodRoom(a) /\ SamePlaces(r, a)
      /\ a.state \in Warmups => r.state \in Warmups
  <2>1. m \in SUBSET Players
    BY ActiveType
  <2>2. GoodRoom(a)
    BY <2>1, CheckReadyStatesGood
  <2>3. CASE a = r
    BY <2>2, <2>3, SamePlacesRefl
  <2>4. CASE a = DoWarmup(r, r.cfg.warmup, m) /\ r.state = WARMUP_USER
    <3>1. a = ToWarmup(r, r.cfg.warmup) /\ r.cfg.warmup \in Seconds
      BY <2>4, GoodType DEF DoWarmup, Config, Seconds, Warmups
    <3> HIDE DEF a
    <3> QED BY <2>2, <2>4, <3>1, ToWarmupKeeps DEF Warmups
  <2>5. CASE a = ToPaused(r, 0)
    <3>1. 0 \in Seconds
      BY DEF Seconds
    <3> HIDE DEF a
    <3> QED BY <2>2, <2>5, <3>1, ToPausedKeeps, ToPausedGood DEF Warmups
  <2> QED BY <2>3, <2>4, <2>5 DEF CheckReadyStates
<1>2. s = TryStartWarmup(a, TRUE, m)
  BY DEF Rally
<1> HIDE DEF a, s
<1>3. ~HasNoPlayers(a) /\ (a.state \in Warmups => a.cfg.warmup # 0)
  BY <1>1, SamePlacesReads DEF SamePlaces
<1>4. s = TryWarmup(a, TRUE, m)
  BY <1>2, <1>3 DEF TryStartWarmup
<1>5. /\ SamePlaces(a, ToWarmup(a, a.cfg.warmup))
      /\ SamePlaces(a, ToWarmup(a, TIMER_INFINITE))
  <2>1. a.cfg.warmup \in Seconds /\ TIMER_INFINITE \in Seconds
    BY <1>1, GoodType DEF Config, Seconds
  <2> QED BY <1>1, <2>1, ToWarmupKeeps
<1>6. SamePlaces(a, WaitForPlayers(q))
  <2>1. GoodRoom(q) /\ SamePlaces(a, q)
    BY <1>1, GoodType, SetPlayersReadyStateSame, SameGameGood, SetReadySame
  <2> HIDE DEF q
  <2> QED BY <2>1, WaitForPlayersKeeps, SamePlacesTrans
<1>7. s \in {a, WaitForPlayers(q), ToWarmup(a, a.cfg.warmup),
             ToWarmup(a, TIMER_INFINITE)}
  BY <1>3, <1>4 DEF TryWarmup, DoWarmup
<1>8. SamePlaces(a, s)
  BY <1>5, <1>6, <1>7, SamePlacesRefl
<1> QED BY <1>1, <1>8, SamePlacesTrans DEF s

\* The sides of a room are finite sets of its players.
LEMMA SideFinite ==
    ASSUME NEW r, NEW t
    PROVE  /\ Side(r, t) \in SUBSET Players /\ IsFiniteSet(Side(r, t))
           /\ Cardinality(Side(r, t)) \in Nat
           /\ Cardinality(Side(r, t)) <= Cardinality(Players)
<1>1. Side(r, t) \in SUBSET Players
  BY DEF Side, InRoom
<1>2. /\ IsFiniteSet(Side(r, t))
      /\ Cardinality(Side(r, t)) <= Cardinality(Players)
  BY <1>1, FS_Subset, MatchAssumption
<1> QED BY <1>1, <1>2, FS_CardinalityType

\* A pass moves one player from one side to the other.
LEMMA PassMoves ==
    ASSUME NEW r \in Room, SizesTrue(r), NEW b \in Sides, NEW p \in Side(r, b)
    PROVE  LET s == SwitchTeams(r, One(p, Other(b))) IN
           /\ SizesTrue(s)
           /\ s.size[b] = r.size[b] - 1
           /\ s.size[Other(b)] = r.size[Other(b)] + 1
<1> DEFINE o == Other(b)
           to == One(p, o)
           s == SwitchTeams(r, to)
<1>1. o \in Sides /\ o # b
  BY DEF Other
<1>2. /\ p \in InRoom(r) /\ r.players[p].team = b
      /\ {p} \in SUBSET InRoom(r) /\ {p} \in SUBSET Players
  BY DEF Side, InRoom
<1>3. to \in [{p} -> Teams] /\ to[p] = o
  BY <1>1 DEF One
<1> HIDE DEF o, to
<1>4. SizesTrue(s)
  BY <1>2, <1>3, SwitchTeamsSizes
<1>5. \A y \in Players :
        /\ s.players[y].inRoom = r.players[y].inRoom
        /\ s.players[y].team = IF y = p THEN o ELSE r.players[y].team
  BY <1>2, <1>3, SwitchTeamsFields
<1> HIDE DEF s
<1>6. Side(s, b) = Side(r, b) \ {p} /\ Side(s, o) = Side(r, o) \cup {p}
  BY <1>1, <1>2, <1>5 DEF Side, InRoom
<1>7. p \notin Side(r, o)
  BY <1>1, <1>2 DEF Side
<1>8. Cardinality(Side(s, b)) = Cardinality(Side(r, b)) - 1
  <2>1. p \in Side(r, b) /\ IsFiniteSet(Side(r, b))
    BY SideFinite
  <2> QED BY <1>6, <2>1, FS_RemoveElement
<1>9. Cardinality(Side(s, o)) = Cardinality(Side(r, o)) + 1
  BY <1>6, <1>7, SideFinite, FS_AddElement
<1>10. s.size[b] = r.size[b] - 1 /\ s.size[o] = r.size[o] + 1
  BY <1>1, <1>4, <1>8, <1>9 DEF SizesTrue
<1> QED BY <1>4, <1>10 DEF s, to, o

LEMMA CloseIsBalanced ==
    ASSUME NEW r, NEW b \in Sides, r.size[b] \in Int, r.size[Other(b)] \in Int,
           r.size[b] - r.size[Other(b)] \in {0, 1}
    PROVE  ~NeedsBalance(r)
<1>1. CASE b = TEAM_RED
  BY <1>1 DEF NeedsBalance, Difference, BiggerSide, Other
<1>2. CASE b = TEAM_BLUE
  BY <1>2 DEF NeedsBalance, Difference, BiggerSide, Other
<1> QED BY <1>1, <1>2

\* A pass leaves half of the difference less one to move, and the last one
\* leaves balanced teams, if a pass that is not the last starts no match.
LEMMA BalanceStepMinds ==
    ASSUME Inv, SizesTrue(room), LoopOk(room), Watchful(room), BalanceStep,
           room.numBalance > 1 /\ room.state \in Warmups => room.cfg.warmup # 0
    PROVE  /\ LoopOk(room') /\ Watchful(room')
           /\ room'.cfg.warmup = room.cfg.warmup
<1> DEFINE b == room.bigger
           o == Other(b)
           n == room.numBalance
<1>1. /\ room \in Room /\ GoodRoom(room) /\ room.loop = "balance"
      /\ b \in Sides /\ o \in Sides /\ n \in Nat
  BY GoodType DEF Inv, Room, BalanceStep, Other
<1>2. /\ room.phase = "run" /\ n >= 1
      /\ room.size[b] - room.size[o] \in {2 * n, 2 * n + 1}
  BY <1>1 DEF LoopOk
<1> HIDE DEF b, o, n
<1>3. room.size[b] \in Nat /\ room.size[o] \in Nat /\ room.size[b] >= 2
  BY <1>1, <1>2, SideFinite DEF SizesTrue
<1>4. Side(room, b) # {}
  <2>1. Cardinality(Side(room, b)) # 0
    BY <1>1, <1>3 DEF SizesTrue
  <2> QED BY <2>1, FS_EmptySet
<1>5. PICK p \in Side(room, b) :
        \E m \in Movers(SwitchTeams(room, One(p, o))) :
          PassDone(DoTeamChange(room, p, o, m))
  BY <1>4 DEF BalanceStep, b, o
<1>6. PICK m \in Movers(SwitchTeams(room, One(p, o))) :
        PassDone(DoTeamChange(room, p, o, m))
  BY <1>5
<1> DEFINE e == SwitchTeams(room, One(p, o))
           d == Rally(e, {}, m)
<1>7. DoTeamChange(room, p, o, m) = d
  <2>1. room.players[p].team = b /\ o # b
    BY <1>1 DEF Side, Other, o
  <2> QED BY <2>1 DEF DoTeamChange, Rally
<1>8. /\ SizesTrue(e) /\ e.size[b] = room.size[b] - 1
      /\ e.size[o] = room.size[o] + 1
  BY <1>1, PassMoves DEF o
<1>9. /\ e \in Room /\ GoodRoom(e) /\ SameState(room, e) /\ Watches(room, e)
  <2>1. {p} \in SUBSET Players /\ One(p, o) \in [{p} -> Teams]
    BY <1>1 DEF Side, InRoom, One
  <2> QED BY <1>1, <2>1, SwitchTeamsSame, SwitchTeamsWatch, SameStateGood
<1>10. m \in SUBSET Active(e)
  BY MoversPlay
<1> HIDE DEF e
<1>11. GoodRoom(d) /\ Keeps(e, d, m)
  BY <1>9, <1>10, RallyTries
<1>12. ~HasNoPlayers(e) /\ e.cfg = room.cfg /\ e.state = room.state
  BY <1>1, <1>3, <1>8, <1>9 DEF HasNoPlayers, SameState
<1>13. SamePlaces(e, d)
  <2>1. CASE n = 1
    <3>1. e.size[b] - e.size[o] \in {0, 1}
      BY <1>2, <1>3, <1>8, <2>1
    <3>2. ~NeedsBalance(e)
      BY <1>1, <1>3, <1>8, <3>1, CloseIsBalanced DEF o
    <3> QED BY <1>11, <3>2 DEF Keeps
  <2>2. CASE n > 1
    BY <1>9, <1>10, <1>12, <2>2, WarmRallyStays DEF n
  <2> QED BY <1>1, <1>2, <2>1, <2>2
<1> HIDE DEF d
<1>14. /\ d.size = e.size /\ d.cfg = room.cfg /\ d.loop = "balance"
       /\ d.phase = "run" /\ d.bigger = b /\ d.numBalance = n
       /\ SizesTrue(d) /\ Watchful(d) /\ d \in Room
  BY <1>1, <1>2, <1>8, <1>9, <1>11, <1>12, <1>13, SamePlacesReads, GoodType
     DEF SamePlaces, Watches, Keeps, b, n
<1>15. PassDone(d)
  BY <1>6, <1>7
<1>16. CASE n > 1
  <2>1. room' = [d EXCEPT !.numBalance = n - 1]
    BY <1>15, <1>16 DEF PassDone, n
  <2>2. /\ room'.size = e.size /\ room'.cfg = d.cfg /\ room'.phase = d.phase
        /\ room'.loop = d.loop /\ room'.bigger = b
        /\ room'.unbalanced = d.unbalanced /\ room'.numBalance = n - 1
    BY <1>14, <2>1 DEF Room
  <2>3. /\ e.size[b] - e.size[o] \in {2 * (n - 1), 2 * (n - 1) + 1}
        /\ n - 1 >= 1
    BY <1>1, <1>2, <1>3, <1>8, <1>16
  <2>4. LoopOk(room')
    BY <1>14, <2>2, <2>3 DEF LoopOk, o
  <2>5. Watchful(room')
    BY <1>14, <2>2 DEF Watchful, NeedsBalance, Difference, BiggerSide
  <2> QED BY <1>14, <2>2, <2>4, <2>5
<1>17. CASE n = 1
  <2> DEFINE v == [d EXCEPT !.loop = "none", !.numBalance = 0, !.unbalanced = "ok"]
  <2>1. EndTick(v)
    BY <1>15, <1>17 DEF PassDone, n
  <2>2. /\ v.players = d.players /\ v.size = e.size /\ v.cfg = room.cfg
        /\ v.loop = "none"
    BY <1>14 DEF Room
  <2>3. GoodRoom(v)
    BY <1>11 DEF GoodRoom, Room, Patient, Coherent
  <2> HIDE DEF v
  <2>4. SizesTrue(v)
    BY <1>14, <2>2 DEF SizesTrue, Side, InRoom
  <2>5. Watchful(v)
    <3>1. /\ v.size[b] - v.size[o] \in {0, 1}
          /\ v.size[b] \in Int /\ v.size[o] \in Int
      <4>1. /\ v.size[b] = room.size[b] - 1
            /\ v.size[o] = room.size[o] + 1
        BY <1>8, <2>2
      <4> QED BY <1>2, <1>3, <1>17, <4>1
    <3>2. ~NeedsBalance(v)
      BY <1>1, <3>1, CloseIsBalanced DEF o
    <3> QED BY <3>2 DEF Watchful
  <2>6. Watches(v, room')
    BY <2>1, <2>3, EndTickSettles
  <2> QED BY <2>2, <2>4, <2>5, <2>6 DEF Watches, LoopOk
<1> QED BY <1>1, <1>2, <1>16, <1>17

-----------------------------------------------------------------------------
(* Creation and reloads.                                                   *)

LEMMA LoadingGoes ==
    ASSUME Inv, FinishSetup \/ LoadTick
    PROVE  Goes(room, room') /\ Minds(room, room')
<1>1. /\ room'.players = room.players /\ room'.size = room.size
      /\ room'.cfg = room.cfg /\ room'.state = room.state
      /\ room'.timer = room.timer /\ room'.loop = room.loop
      /\ room'.unbalanced = room.unbalanced
  BY DEF FinishSetup, LoadTick, Inv, GoodRoom, Room
<1>2. Settles(room, room')
  BY <1>1, PlayersSettle
<1>3. Minds(room, room')
  BY <1>1, <1>2, StaysReads DEF Settles, Minds, LoopOk, Watchful
<1> QED BY <1>2, <1>3, SettlesGoes

LEMMA SoftReloadGoes ==
    ASSUME Inv, SoftReload
    PROVE  Goes(room, room') /\ Minds(room, room')
<1> DEFINE killed == KillCharacters(room, InRoom(room))
<1>1. killed \in Room /\ Settles(room, killed) /\ SameTeams(room, killed)
  BY KillCharactersSame, KillCharactersSettle, GoodType DEF Inv
<1>2. room' = [killed EXCEPT !.phase = "load", !.paused = FALSE,
                 !.resetRequested = FALSE, !.pauseRequested = FALSE,
                 !.fresh = TRUE]
  BY DEF SoftReload
<1> HIDE DEF killed
<1>3. /\ room'.players = killed.players /\ room'.size = killed.size
      /\ room'.cfg = killed.cfg /\ room'.state = killed.state
      /\ room'.timer = killed.timer /\ room'.loop = killed.loop
      /\ room'.unbalanced = killed.unbalanced
  BY <1>1, <1>2 DEF Room
<1>4. Settles(room, room')
  BY <1>1, <1>3, PlayersSettle, SettlesTrans
<1>5. Minds(room, room')
  BY <1>1, <1>3, <1>4, StaysReads DEF Settles, Minds, LoopOk, Watchful
<1> QED BY <1>4, <1>5, SettlesGoes

LEMMA StartControllerGoes ==
    ASSUME Inv, StartController
    PROVE  Goes(room, room') /\ Minds(room, room')
<1> DEFINE started == [room EXCEPT !.phase = "run", !.suddenDeath = FALSE,
                                   !.fresh = TRUE]
           e == WaitForPlayers(started)
<1>1. PICK m \in Movers(room) : room' = TryStartWarmup(e, FALSE, m)
  BY DEF StartController
<1>2. /\ GoodRoom(started) /\ started.players = room.players
      /\ started.size = room.size /\ started.cfg = room.cfg
      /\ started.state = room.state /\ started.loop = room.loop
      /\ started.unbalanced = room.unbalanced
  BY DEF Inv, GoodRoom, Room, Patient, Coherent
<1> HIDE DEF started
<1>3. /\ PlayersOk(room) => PlayersOk(started)
      /\ Movers(room) = Movers(started)
      /\ Watchful(room) <=> Watchful(started)
      /\ \A t : Side(room, t) = Side(started, t)
  BY <1>2 DEF PlayersOk, RespawnOk, ReadyOk, WatchersOk, InRoom, Side,
              Movers, Watchful, NeedsBalance, Difference, BiggerSide
<1>4. /\ GoodRoom(e)
      /\ IF room.state \in {GAME_RUNNING} \cup Warmups
         THEN e.state = WARMUP_GAME ELSE e = started
  BY <1>2, WaitForPlayersGood
<1>5. SamePlaces(started, e) /\ (PlayersOk(started) => PlayersOk(e))
  BY <1>2, WaitForPlayersKeeps
<1> HIDE DEF e
<1>6. /\ e.size = room.size /\ e.cfg = room.cfg
      /\ \A p \in Players : /\ e.players[p].inRoom = room.players[p].inRoom
                            /\ e.players[p].toTeam = room.players[p].toTeam
      /\ \A t : Side(e, t) = Side(room, t)
  BY <1>2, <1>3, <1>5, SamePlacesReads DEF SamePlaces
<1>7. /\ m \in SUBSET Active(e) /\ m \in SUBSET Players /\ CanBalance(e, m)
  <2>1. m \in Movers(e)
    BY <1>3, <1>5, SamePlacesReads
  <2> QED BY <2>1, MoversPlay, ActiveType
<1>8. Tries(e, room', m) /\ GoodRoom(room')
  BY <1>1, <1>4, <1>7, TryStartWarmupTries, TryStartWarmupGood
<1>9. /\ Starting(room) => Starting(e)
      /\ e.state # WARMUP_USER
  BY <1>2, <1>4 DEF Starting, Warmups
<1>10. PlayersOk(room) => WaitOk(room')
  BY <1>3, <1>5, <1>8, <1>9, AsksAllWaits DEF Tries, WaitOk
<1>11. /\ SamePlan(room, e) /\ (PendingOk(room) => PendingOk(e))
       /\ SizesTrue(room) => SizesTrue(e)
       /\ HasNoPlayers(e) => HasNoPlayers(room)
  BY <1>6 DEF SamePlan, PendingOk, SizesTrue, HasNoPlayers
<1>12. room \in Room /\ e \in Room /\ room' \in Room
  BY <1>4, <1>8, GoodType DEF Inv
<1>13. Minds(room, room')
  <2>1. Watches(started, e)
    BY <1>5, SameTeamsWatch DEF SamePlaces
  <2>2. SizesTrue(room) <=> SizesTrue(started)
    BY <1>2, <1>3 DEF SizesTrue
  <2>3. Watches(started, room')
    BY <1>7, <1>8, <1>11, <2>1, <2>2, KeepsWatch DEF Tries
  <2> QED BY <1>2, <1>3, <2>2, <2>3, WatchesMinds DEF Minds
<1> QED BY <1>3, <1>5, <1>7, <1>8, <1>9, <1>10, <1>11, <1>12, <1>13, GoesBy
        DEF Tries

-----------------------------------------------------------------------------
(* The invariant.                                                          *)

\* Where no leaving player is still in a match that balances its teams: there
\* are no teams, or none is ever balanced, or a match that can start does not
\* wait for the players to be ready.  The model checker finds wrong counts in a
\* room of the other kind (MatchLeave.cfg).
CountsAreSafe ==
    \/ ~Teamplay
    \/ \A c \in Configs : ~c.balance
    \/ NeverReadyToStart

Counted(r) == CountsAreSafe /\ NoLogin => SizesTrue(r) /\ SafeToLeave(r)

\* Without player_ready_mode a room waits for the readiness of somebody from
\* the moment it starts to wait.
Waits(r) == NoLogin /\ "player_ready_mode" \notin Commands => WaitOk(r)

\* The inductive invariant
PlayersInv == /\ Inv /\ PlayersOk(room) /\ PendingOk(room)
              /\ Waits(room) /\ Counted(room)

\* No restart with a negative argument, which aborts a warmup
NoAbort == "restart" \in Commands => \A s \in Args.seconds : s >= 0

\* What every step from room r to room s but a login does
Steps(r, s) ==
    /\ PlayersOk(s) /\ PendingOk(s) /\ Waits(s) /\ Counted(s)
    /\ CountsAreSafe /\ (Teamplay => NoLogin) /\ ~HasNoPlayers(r) /\ HasNoPlayers(s)
         => s.state = WARMUP_GAME
    /\ NoAbort /\ Starting(r) /\ Started(s) =>
         HasEnoughPlayers(s) /\ (CountsAreSafe /\ NoLogin => ~NeedsBalance(s))

LEMMA PlayersInit == Init => PlayersInv
<1> SUFFICES ASSUME Init PROVE PlayersInv
  OBVIOUS
<1> DEFINE players == [p \in Players |-> Absent]
           size == [t \in Sides |-> 0]
<1>1. PICK c \in Configs, s \in {GAME_RUNNING, WARMUP_GAME} :
        room = [phase |-> "setup", cfg |-> c, state |-> s,
                timer |-> TIMER_INFINITE, paused |-> FALSE,
                resetRequested |-> s = WARMUP_GAME, pauseRequested |-> FALSE,
                suddenDeath |-> FALSE, fresh |-> TRUE, size |-> size,
                unbalanced |-> "ok", players |-> players,
                loop |-> "none", numBalance |-> 0, bigger |-> TEAM_RED]
  BY DEF Init
<1>2. \A p \in Players : players[p] = Absent
  OBVIOUS
<1>3. \A t \in Sides : size[t] = 0
  OBVIOUS
<1> HIDE DEF players, size
<1>4. /\ \A p \in Players : room.players[p] = Absent
      /\ \A t \in Sides : room.size[t] = 0
      /\ room.state # WARMUP_USER /\ room.cfg \in Configs
  BY <1>1, <1>2, <1>3
<1>5. /\ ~Absent.inRoom /\ Absent.toTeam = NoTeam
      /\ ~Absent.noRespawn /\ ~Absent.deadSpec
  BY DEF Absent
<1>6. Inv /\ room \in Room
  BY InitInv, GoodType DEF Inv
<1>7. PlayersOk(room) /\ PendingOk(room) /\ WaitOk(room)
  BY <1>4, <1>5 DEF PlayersOk, RespawnOk, ReadyOk, WatchersOk, PendingOk, WaitOk
<1>8. SizesTrue(room)
  <2>1. InRoom(room) = {}
    BY <1>4, <1>5 DEF InRoom
  <2>2. \A t \in Sides : Side(room, t) = {}
    BY <2>1 DEF Side
  <2> QED BY <1>4, <2>2, FS_EmptySet DEF SizesTrue
<1>9. CountsAreSafe => SafeToLeave(room)
  <2>1. HasNoPlayers(room)
    BY <1>4 DEF HasNoPlayers
  <2>2. Lacks(room)
    BY <1>6, <2>1, EmptyLacksPlayers DEF Lacks
  <2>3. NeverReadyToStart => ~ReadyToStart(room)
    BY <1>4 DEF NeverReadyToStart, ReadyToStart
  <2> QED BY <1>4, <2>2, <2>3 DEF CountsAreSafe, SafeToLeave
<1> QED BY <1>6, <1>7, <1>8, <1>9 DEF PlayersInv, Waits, Counted

LEMMA GoesSteps ==
    ASSUME PlayersInv, Goes(room, room')
    PROVE  Steps(room, room')
<1>1. PlayersOk(room') /\ PendingOk(room') /\ Waits(room')
  BY DEF PlayersInv, Goes, Waits
<1>2. SafeToLeave(room) => SafeToLeave(room')
  BY DEF SafeToLeave, Goes, SamePlan, ReadyToStart
<1>3. Counted(room')
  BY <1>2 DEF PlayersInv, Goes, Counted
<1> QED BY <1>1, <1>3 DEF Steps, PlayersInv, Goes, Counted

LEMMA LeaveStep ==
    ASSUME PlayersInv, NEW p \in Players, Leave(p)
    PROVE  Steps(room, room')
<1>1. /\ PlayersOk(room') /\ WaitOk(room') /\ PendingOk(room')
      /\ Starting(room) /\ Started(room') => HasEnoughPlayers(room')
      /\ ~Teamplay /\ HasNoPlayers(room') => room'.state = WARMUP_GAME
      /\ SizesTrue(room) /\ SafeToLeave(room) =>
           /\ SizesTrue(room') /\ SafeToLeave(room')
           /\ HasNoPlayers(room') => room'.state = WARMUP_GAME
           /\ Starting(room) /\ Started(room') => ~NeedsBalance(room')
  BY LeaveSteps DEF PlayersInv
<1> QED BY <1>1 DEF Steps, PlayersInv, Counted, Waits

LEMMA RestartStep ==
    ASSUME PlayersInv, NEW seconds \in Args.seconds, Restart(seconds)
    PROVE  Steps(room, room')
<1>1. CASE ~(seconds < 0)
  <2>1. Goes(room, room')
    BY <1>1, RestartGoes DEF PlayersInv
  <2> QED BY <2>1, GoesSteps
<1>2. CASE seconds < 0
  <2>1. Stays(room, room') /\ room'.state = GAME_RUNNING
    BY <1>2, RestartGoes DEF PlayersInv
  <2>2. ~NoAbort
    <3>1. "restart" \in Commands /\ seconds \in Int
      BY ArgsType DEF Restart, Console, Seconds
    <3> QED BY <1>2, <3>1 DEF NoAbort
  <2>3. Lacks(room')
    BY <2>1 DEF Lacks, Warmups
  <2>4. SafeToLeave(room) => SafeToLeave(room')
    BY <2>1, <2>3 DEF SafeToLeave, Stays, SamePlan, ReadyToStart
  <2>5. PlayersOk(room') /\ PendingOk(room') /\ Waits(room')
    BY <2>1 DEF PlayersInv, Stays, Waits
  <2>6. /\ SizesTrue(room') <=> SizesTrue(room)
        /\ HasNoPlayers(room') <=> HasNoPlayers(room)
    BY <2>1, StaysReads
  <2> QED BY <2>2, <2>4, <2>5, <2>6 DEF Steps, PlayersInv, Counted
<1> QED BY <1>1, <1>2

LEMMA SetPlayerReadyModeStep ==
    ASSUME PlayersInv, NEW mode \in Args.readyMode, SetPlayerReadyMode(mode)
    PROVE  Steps(room, room')
<1>1. /\ "player_ready_mode" \in Commands
      /\ room'.players = room.players /\ room'.size = room.size
      /\ room'.state = room.state /\ room'.timer = room.timer
      /\ room'.cfg.readyMode = mode
      /\ room'.cfg.balance = room.cfg.balance
      /\ room'.cfg.minimumPlayers = room.cfg.minimumPlayers
  BY SetPlayerReadyModeSteps DEF PlayersInv
<1>2. PlayersOk(room') /\ PendingOk(room') /\ Waits(room')
  BY <1>1 DEF PlayersInv, PlayersOk, RespawnOk, ReadyOk, WatchersOk,
              PendingOk, Waits
<1>3. SizesTrue(room) => SizesTrue(room')
  BY <1>1 DEF SizesTrue, Side, InRoom
<1>4. HasEnoughPlayers(room') <=> HasEnoughPlayers(room)
  BY <1>1 DEF HasEnoughPlayers
<1>5. SafeToLeave(room) => SafeToLeave(room')
  <2>1. CASE ~Teamplay \/ ~room.cfg.balance
    BY <1>1, <2>1 DEF SafeToLeave
  <2>2. CASE NeverReadyToStart /\ ~ReadyToStart(room) /\ Lacks(room)
    <3>1. ~ReadyToStart(room')
      BY <1>1, <2>2 DEF NeverReadyToStart, ReadyToStart
    <3>2. Lacks(room')
      BY <1>1, <1>4, <2>2 DEF Lacks
    <3> QED BY <2>2, <3>1, <3>2 DEF SafeToLeave
  <2> QED BY <2>1, <2>2 DEF SafeToLeave
<1>6. ~(Starting(room) /\ Started(room'))
  BY <1>1 DEF Starting, Started, Warmups
<1>7. HasNoPlayers(room') <=> HasNoPlayers(room)
  BY <1>1 DEF HasNoPlayers
<1> QED BY <1>2, <1>3, <1>5, <1>6, <1>7 DEF Steps, PlayersInv, Counted

\* A login breaks what holds only without one, and touches no flag that may
\* keep a player out of a warmup.
LEMMA LoginStep ==
    ASSUME PlayersInv, NEW p \in Players, Login(p)
    PROVE  PlayersInv' /\ room'.state = room.state /\ room'.size = room.size
<1> DEFINE k == KillCharacters(room, {p})
<1>1. Inv /\ room \in Room
  BY GoodType DEF PlayersInv, Inv
<1>2. k \in Room /\ SameGame(room, k)
  BY <1>1, KillCharactersSame
<1>3. \A q \in Players : LET x == k.players[q]
                           y == room.players[q]
                       IN  /\ x.noRespawn = y.noRespawn
                           /\ x.deadSpec = y.deadSpec
                           /\ x.toTeam = y.toTeam
                           /\ x.inRoom = y.inRoom
  BY <1>1 DEF KillCharacters, Room, Player
<1>4. room' = [k EXCEPT !.players[p].team = TEAM_RED]
  BY DEF Login
<1> HIDE DEF k
<1>5. room'.state = room.state /\ room'.size = room.size
  BY <1>2, <1>4 DEF SameGame, Room
<1>6. \A q \in Players : LET x == room'.players[q]
                           y == room.players[q]
                       IN  /\ x.noRespawn = y.noRespawn
                           /\ x.deadSpec = y.deadSpec
                           /\ x.toTeam = y.toTeam
                           /\ x.inRoom = y.inRoom
  BY <1>2, <1>3, <1>4 DEF Room, Player
<1>7. Inv'
  BY <1>1, LoginInv
<1>8. ~NoLogin'
  BY DEF Login, NoLogin
<1>9. PlayersOk(room)'
  BY <1>5, <1>6, <1>8 DEF PlayersInv, PlayersOk, RespawnOk, ReadyOk, WatchersOk
<1>10. PendingOk(room)'
  BY <1>5, <1>6 DEF PlayersInv, PendingOk
<1>11. Waits(room)' /\ Counted(room)'
  BY <1>8 DEF Waits, Counted
<1> QED BY <1>5, <1>7, <1>9, <1>10, <1>11 DEF PlayersInv

LEMMA PlayersNext ==
    PlayersInv /\ [Next]_vars
        => Steps(room, room') \/ \E p \in Players : Login(p)
<1> SUFFICES ASSUME PlayersInv, [Next]_vars, ~\E p \in Players : Login(p)
             PROVE  Steps(room, room')
  OBVIOUS
<1>0. Inv /\ PendingOk(room)
  BY DEF PlayersInv
<1> DEFINE G == Goes(room, room')
           S == Steps(room, room')
<1>1. G => S
  BY GoesSteps
<1>2. ASSUME NEW p \in Players, PlayerAction(p) PROVE S
  <2>1. CASE Join(p)
    BY <1>0, <1>1, <2>1, JoinGoes
  <2>2. CASE Leave(p)
    BY <2>2, LeaveStep
  <2>3. CASE RequestPause(p)
    BY <1>0, <1>1, <2>3, RequestPauseGoes
  <2>4. CASE ToggleReady(p)
    BY <1>0, <1>1, <2>4, ToggleReadyGoes
  <2>5. CASE AskRespawn(p)
    BY <1>0, <1>1, <2>5, AskRespawnGoes
  <2>6. CASE Spawn(p)
    BY <1>0, <1>1, <2>6, SpawnGoes
  <2>7. CASE Die(p)
    BY <1>0, <1>1, <2>7, DieGoes
  <2>8. CASE \E t \in Teams : SetTeamMessage(p, t) \/ SetTeam(p, t)
    BY <1>0, <1>1, <2>8, DoTeamChangesGoes DEF SetTeamMessage, SetTeam
  <2> QED BY <1>2, <2>1, <2>2, <2>3, <2>4, <2>5, <2>6, <2>7, <2>8
          DEF PlayerAction
<1>3. CASE ConsoleAction
  <2>1. CASE \E s \in Args.seconds : Pause(s) \/ Restart(s)
    BY <1>0, <1>1, <2>1, PauseGoes, RestartStep
  <2>2. CASE \E n \in Args.minimumPlayers : SetMinimumPlayers(n)
    BY <1>0, <1>1, <2>2, SetMinimumPlayersGoes
  <2>3. CASE \E s \in Args.countdown : SetCountdown(s)
    BY <1>0, <1>1, <2>3, SetCountdownGoes
  <2>4. CASE \E mode \in Args.readyMode : SetPlayerReadyMode(mode)
    BY <2>4, SetPlayerReadyModeStep
  <2>5. CASE SwapTeams \/ ShuffleTeams \/ \E t \in Teams : SetTeamAll(t)
    BY <1>0, <1>1, <2>5, TeamCommandsGoes
  <2> QED BY <1>3, <2>1, <2>2, <2>3, <2>4, <2>5 DEF ConsoleAction
<1>4. CASE ServerAction
  <2>1. G
    BY <1>0, <1>4, CommandStepGoes, TickGoes, TickBalancesGoes,
       BalanceStepGoes, LoadingGoes, SoftReloadGoes, StartControllerGoes
       DEF ServerAction
  <2> QED BY <1>1, <2>1
<1>5. CASE UNCHANGED vars
  BY <1>1, <1>5, StaysRefl DEF vars
<1> QED BY <1>2, <1>3, <1>4, <1>5 DEF Next

LEMMA PlayersInvariance == Spec => []PlayersInv
<1>1. PlayersInv /\ [Next]_vars => PlayersInv'
  <2> SUFFICES ASSUME PlayersInv, [Next]_vars PROVE PlayersInv'
    OBVIOUS
  <2>1. CASE \E p \in Players : Login(p)
    BY <2>1, LoginStep
  <2>2. CASE UNCHANGED loggedIn /\ Steps(room, room')
    <3>1. Inv'
      BY NextInv DEF PlayersInv
    <3>2. NoLogin' <=> NoLogin
      BY <2>2 DEF NoLogin
    <3> QED BY <2>2, <3>1, <3>2 DEF PlayersInv, Steps, PlayersOk, RespawnOk,
               ReadyOk, WatchersOk, PendingOk, Waits, Counted
  <2> QED BY <2>1, <2>2, PlayersNext, NextLogins
<1> QED BY <1>1, PlayersInit, PTL DEF Spec

-----------------------------------------------------------------------------
(* The theorems.                                                           *)

\* A survival round's dead are out until the next round, and many ways lead
\* back to a warmup: the last player leaves, minimum_players is raised, a
\* restart is called for, a match ends with too few players.  Each lets them
\* respawn, and nobody who joins a warmup or changes teams in it is kept out.
THEOREM WarmupsLetRespawn == Spec => []RespawnInWarmup
<1>1. PlayersInv => RespawnInWarmup
  BY DEF PlayersInv, PlayersOk, RespawnOk, RespawnInWarmup, InRoom
<1> QED BY <1>1, PlayersInvariance, PTL

\* Whoever joins, changes teams or comes back from a pause while a game runs
\* counts as ready, so that pressing ready is a request to pause.
THEOREM RunningGamesAreReady == Spec => []RunningAllReady
<1>1. PlayersInv => RunningAllReady
  BY DEF PlayersInv, PlayersOk, ReadyOk, RunningAllReady, Active, InRoom
<1> QED BY <1>1, PlayersInvariance, PTL

\* A warmup that waits for the players to be ready waits for one of them, who
\* can end it: joining, leaving, changing teams and toggling look at the ready
\* states after every change.
\* The two hypotheses are what it takes: a dead spectator of a survival game
\* keeps its readiness, and player_ready_mode changes the rule without a check.
THEOREM ReadyWaitsEnd ==
    ASSUME ~Survival, "player_ready_mode" \notin Commands
    PROVE  Spec => []ReadyWaitHasUnready
<1>1. PlayersInv => ReadyWaitHasUnready
  BY DEF PlayersInv, Waits, WaitOk, Unready, ReadyWaitHasUnready, Running
<1> QED BY <1>1, PlayersInvariance, PTL

\* The counters of the teams' sizes stay true through joins, leaves, team
\* changes, commands that move everybody, and the balancing of teams.
THEOREM SizesAreTrue ==
    ASSUME CountsAreSafe
    PROVE  Spec => []SizesMatch
<1>1. PlayersInv => SizesMatch
  BY DEF PlayersInv, Counted, SizesTrue, SizesMatch
<1> QED BY <1>1, PlayersInvariance, PTL

\* So when the last player has left, the code knows that nobody plays.
THEOREM EmptyRoomsAreKnown ==
    ASSUME CountsAreSafe
    PROVE  Spec => []EmptyRoomIsKnown
<1>1. PlayersInv => EmptyRoomIsKnown
  <2> SUFFICES ASSUME PlayersInv, NoLogin, InRoom(room) = {}
               PROVE  HasNoPlayers(room)
    BY DEF EmptyRoomIsKnown
  <2>1. Active(room) = {}
    BY DEF Active
  <2> QED BY <2>1, GoodType, EmptyIsInactive DEF PlayersInv, Inv, Counted
<1> QED BY <1>1, PlayersInvariance, PTL

\* However the last player stops playing (it leaves, becomes a spectator or is
\* moved by a command), the same handler sends the room back to waiting.
THEOREM EmptiedRoomsWait ==
    ASSUME CountsAreSafe
    PROVE  Spec => EmptiedRoomWaits
<1>1. PlayersInv /\ [Next]_vars =>
        ((Teamplay => NoLogin) /\ ~HasNoPlayers(room) /\ HasNoPlayers(room)'
           => room'.state = WARMUP_GAME)
  BY PlayersNext, LoginStep DEF Steps, HasNoPlayers
<1> QED BY <1>1, PlayersInvariance, PTL DEF Spec, EmptiedRoomWaits, vars

\* No timer, readiness, command or team change starts a match or a round with
\* fewer players than minimum_players; only a restart with a negative argument,
\* which aborts a warmup, does.
THEOREM MatchesHavePlayers ==
    ASSUME NoAbort
    PROVE  Spec => StartsWithEnoughPlayers
<1>1. PlayersInv /\ [Next]_vars => (Starts => HasEnoughPlayers(room)')
  BY PlayersNext, LoginStep
     DEF Steps, Starts, Starting, Started, HasEnoughPlayers, Warmups
<1> QED BY <1>1, PlayersInvariance, PTL DEF Spec, StartsWithEnoughPlayers, vars

\* A match or a round of a room that balances its teams starts with teams that
\* differ by one player at most: half of the difference is what ResetGame moves.
THEOREM MatchesAreBalanced ==
    ASSUME NoAbort, CountsAreSafe
    PROVE  Spec => StartsBalanced
<1>1. PlayersInv /\ [Next]_vars => (NoLogin /\ Starts => ~NeedsBalance(room)')
  BY PlayersNext, LoginStep
     DEF Steps, Starts, Starting, Started, NeedsBalance, Difference, BiggerSide,
         Warmups
<1> QED BY <1>1, PlayersInvariance, PTL DEF Spec, StartsBalanced, vars

-----------------------------------------------------------------------------
(* The balancer.                                                           *)

\* A loop of DoTeamBalance that moves two or more players ends before it starts
\* a match: no room is big enough for one, or every warmup has a length.
LoopsAreSafe == \/ Cardinality(Players) <= 3
                \/ \A c \in Configs : c.warmup # 0

\* The inductive invariant until the first login
BalanceInv == /\ LoopOk(room) /\ Watchful(room)
              /\ (\A c \in Configs : c.warmup # 0) => room.cfg.warmup # 0

\* Nothing but a pass of DoTeamBalance happens while its loop runs.
LEMMA OutsideLoopMinds ==
    ASSUME CountsAreSafe, NoLogin, NoLogin', PlayersInv, LoopOk(room),
           [Next]_vars, ~BalanceStep
    PROVE  \/ UNCHANGED room
           \/ room.loop # "balance" /\ Minds(room, room')
<1>0. /\ Inv /\ PlayersOk(room) /\ PendingOk(room)
      /\ SizesTrue(room) /\ SafeToLeave(room)
  BY DEF PlayersInv, Counted
<1> DEFINE M == room.loop # "balance" /\ Minds(room, room')
<1>1. ASSUME NEW p \in Players, PlayerAction(p) PROVE M
  <2>0. ~Login(p)
    BY DEF Login, NoLogin
  <2>1. Idle
    BY <1>1, <2>0 DEF PlayerAction, Join, Leave, RequestPause, ToggleReady,
                AskRespawn, Spawn, Die, SetTeamMessage, SetTeam, Running
  <2>2. CASE Leave(p)
    <3>1. Watches(room, room')
      BY <1>0, <2>2, LeaveSteps
    <3> QED BY <2>1, <3>1, WatchesMinds DEF Idle
  <2>3. CASE \E t \in Teams : SetTeamMessage(p, t) \/ SetTeam(p, t)
    <3>1. Watches(room, room')
      BY <1>0, <2>3, DoTeamChangesGoes DEF SetTeamMessage, SetTeam
    <3> QED BY <2>1, <3>1, WatchesMinds DEF Idle
  <2>4. CASE \/ Join(p) \/ RequestPause(p) \/ ToggleReady(p)
             \/ AskRespawn(p) \/ Spawn(p) \/ Die(p)
    <3>1. Watches(room, room')
      BY <1>0, <2>4, JoinGoes, RequestPauseGoes, ToggleReadyGoes,
         AskRespawnGoes, SpawnGoes, DieGoes
    <3> QED BY <2>1, <3>1, WatchesMinds DEF Idle
  <2> QED BY <1>1, <2>0, <2>2, <2>3, <2>4 DEF PlayerAction
<1>2. CASE ConsoleAction
  <2>1. Idle
    BY <1>2 DEF ConsoleAction, Pause, Restart, SetMinimumPlayers, SetCountdown,
                SetPlayerReadyMode, SwapTeams, ShuffleTeams, SetTeamAll, Console
  <2>2. CASE SwapTeams \/ ShuffleTeams \/ \E t \in Teams : SetTeamAll(t)
    BY <1>0, <2>1, <2>2, TeamCommandsGoes DEF Idle
  <2>3. CASE \/ \E s \in Args.seconds : Pause(s) \/ Restart(s)
             \/ \E n \in Args.minimumPlayers : SetMinimumPlayers(n)
             \/ \E s \in Args.countdown : SetCountdown(s)
             \/ \E mode \in Args.readyMode : SetPlayerReadyMode(mode)
    <3>1. Watches(room, room')
      BY <1>0, <2>3, PauseGoes, RestartGoes, SetMinimumPlayersGoes,
         SetCountdownGoes, SetPlayerReadyModeSteps
    <3> QED BY <2>1, <3>1, WatchesMinds DEF Idle
  <2> QED BY <1>2, <2>2, <2>3 DEF ConsoleAction
<1>3. CASE ServerAction
  <2>1. CASE CommandStep
    BY <1>0, <2>1, CommandStepGoes DEF CommandStep
  <2>2. CASE Tick
    <3>1. Watches(room, room')
      BY <1>0, <2>2, TickGoes
    <3> QED BY <2>2, <3>1, WatchesMinds DEF Tick, Running, Idle
  <2>3. CASE TickBalances
    BY <1>0, <2>3, TickBalancesGoes DEF TickBalances, Running, Idle
  <2>4. CASE SoftReload
    BY <1>0, <2>4, SoftReloadGoes DEF SoftReload, Running, Idle
  <2>5. CASE FinishSetup \/ LoadTick \/ StartController
    <3>1. room.phase # "run"
      BY <2>5 DEF FinishSetup, LoadTick, StartController
    <3>2. room.loop # "balance"
      BY <3>1 DEF LoopOk
    <3> QED BY <1>0, <2>5, <3>2, LoadingGoes, StartControllerGoes
  <2> QED BY <1>3, <2>1, <2>2, <2>3, <2>4, <2>5 DEF ServerAction
<1> QED BY <1>1, <1>2, <1>3 DEF Next, vars

LEMMA BalanceNext ==
    ASSUME CountsAreSafe, LoopsAreSafe, NoLogin, NoLogin', PlayersInv,
           BalanceInv, [Next]_vars
    PROVE  BalanceInv'
<1>1. /\ LoopOk(room') /\ Watchful(room')
      /\ room'.cfg.warmup = room.cfg.warmup
  <2>1. CASE BalanceStep
    <3>1. Inv /\ SizesTrue(room) /\ LoopOk(room) /\ Watchful(room)
      BY DEF BalanceInv, PlayersInv, Counted
    <3>2. room.numBalance > 1 => room.cfg.warmup # 0
      <4>1. CASE \A c \in Configs : c.warmup # 0
        BY <4>1 DEF BalanceInv
      <4>2. CASE Cardinality(Players) <= 3
        <5> DEFINE b == room.bigger
                   n == room.numBalance
        <5>1. b \in Sides /\ Other(b) \in Sides /\ n \in Nat
          BY <3>1, GoodType DEF Inv, Room, Other
        <5>2. room.size[b] - room.size[Other(b)] \in {2 * n, 2 * n + 1}
          BY <2>1, <3>1 DEF BalanceStep, LoopOk
        <5> HIDE DEF b, n
        <5>3. /\ room.size[b] \in Nat /\ room.size[Other(b)] \in Nat
              /\ room.size[b] <= Cardinality(Players)
          BY <3>1, <5>1, SideFinite DEF SizesTrue
        <5>4. Cardinality(Players) \in Nat
          BY MatchAssumption, FS_CardinalityType
        <5>5. ~(n > 1)
          BY <4>2, <5>1, <5>2, <5>3, <5>4
        <5> QED BY <5>5 DEF n
      <4> QED BY <4>1, <4>2 DEF LoopsAreSafe
    <3> QED BY <2>1, <3>1, <3>2, BalanceStepMinds
  <2>2. CASE ~BalanceStep
    <3>1. CASE UNCHANGED room
      BY <3>1 DEF BalanceInv
    <3>2. CASE ~UNCHANGED room
      <4>1. room.loop # "balance" /\ Minds(room, room')
        BY <2>2, <3>2, OutsideLoopMinds DEF BalanceInv
      <4>2. SizesTrue(room) /\ Watchful(room)
        BY DEF BalanceInv, PlayersInv, Counted
      <4> QED BY <4>1, <4>2 DEF Minds
    <3> QED BY <3>1, <3>2
  <2> QED BY <2>1, <2>2
<1> QED BY <1>1 DEF BalanceInv, LoopOk, Watchful, NeedsBalance,
           Difference, BiggerSide

LEMMA BalanceInit == Init => BalanceInv
<1> SUFFICES ASSUME Init PROVE BalanceInv
  OBVIOUS
<1>1. /\ room.cfg \in Configs /\ room.loop = "none"
      /\ \A t \in Sides : room.size[t] = 0
  BY DEF Init
<1>2. ~NeedsBalance(room)
  BY <1>1 DEF NeedsBalance, Difference, BiggerSide, Other
<1> QED BY <1>1, <1>2 DEF BalanceInv, LoopOk, Watchful

\* Whenever a room's teams differ by two, the balancer knows or is going to
\* look: every handler that changes a size wakes it up, and it sleeps again
\* only after a loop that has moved half of the difference.
\* The hypotheses leave out what goes wrong: sizes that are wrong, and a loop
\* of several players in a warmup of length 0, whose DoTeamChange may start a
\* match.  That match balances the teams, and the rest of the loop unbalances
\* them again (gamecontroller.cpp:634).
THEOREM BalancerIsAwake ==
    ASSUME CountsAreSafe, LoopsAreSafe
    PROVE  Spec => []BalanceOk
<1> DEFINE I == NoLogin => BalanceInv
<1>1. Init => I
  BY BalanceInit
<1>2. PlayersInv /\ I /\ [Next]_vars => I'
  <2>1. ASSUME [Next]_vars, NoLogin' PROVE NoLogin
    BY <2>1, NextLogins DEF NoLogin, Login
  <2> QED BY <2>1, BalanceNext
<1>3. I => BalanceOk
  BY DEF BalanceInv, Watchful, BalanceOk
<1> QED BY <1>1, <1>2, <1>3, PlayersInvariance, PTL DEF Spec

=============================================================================
