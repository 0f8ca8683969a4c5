------------------------------- MODULE MCMatch -------------------------------
(* Constants of Match for TLC. *)
EXTENDS Match, TLC

CONSTANTS p1, p2, p3, p4, p5

Base == [warmup |-> 0, countdown |-> 0, minimumPlayers |-> 1, readyMode |-> 0,
         matchSwap |-> 1, resetOnMatchEnd |-> FALSE, pausePerMatch |-> 0,
         playerSlots |-> 64, balance |-> TRUE]

NoArgs == [seconds |-> {}, minimumPlayers |-> {}, countdown |-> {},
           readyMode |-> {}]

Players2 == {p1, p2}
Players3 == {p1, p2, p3}
Players4 == {p1, p2, p3, p4}
Players5 == {p1, p2, p3, p4, p5}
\* Clients with an account are not like the others.
Symmetry == Permutations(Accounts) \cup Permutations(Players \ Accounts)

\* A room of two or more, with and without warmup, countdown,
\* reset_on_match_end and a slot limit
OpenConfigs ==
    {[Base EXCEPT !.warmup = w, !.countdown = c, !.minimumPlayers = 2,
                  !.resetOnMatchEnd = r, !.playerSlots = s] :
       w \in {0, 1}, c \in {0, 1}, r \in BOOLEAN, s \in {2, 64}}

\* The ready modes, with and without warmup, countdown and pause limit
ReadyConfigs ==
    {[Base EXCEPT !.warmup = w, !.countdown = w, !.minimumPlayers = 2,
                  !.readyMode = m, !.pausePerMatch = w] :
       w \in {0, 1}, m \in {1, 2, 3}}

\* Team games: every match_swap, with and without a minimum of players
TeamConfigs ==
    {[Base EXCEPT !.warmup = w, !.countdown = 1, !.minimumPlayers = n,
                  !.matchSwap = s, !.resetOnMatchEnd = r] :
       w \in {0, 1}, n \in {0, 2}, s \in 0..2, r \in BOOLEAN}

SettingConfigs ==
    {[Base EXCEPT !.warmup = w, !.countdown = 1, !.readyMode = m] :
       w \in {0, 1}, m \in {0, 3}}
LeaveConfigs == {[Base EXCEPT !.minimumPlayers = 2, !.readyMode = 1]}

\* Survival: rounds, with and without warmup and countdown
SurvivalConfigs ==
    {[Base EXCEPT !.warmup = w, !.countdown = c, !.minimumPlayers = 2,
                  !.readyMode = m] :
       w \in {0, 1}, c \in {0, 1}, m \in {0, 3}}

\* Settings at run time
SettingArgs == [NoArgs EXCEPT !.seconds = {0, 1}, !.minimumPlayers = {1, 3},
                              !.countdown = {0, 1}, !.readyMode = {0}]

PauseArgs == [NoArgs EXCEPT !.seconds = {0, 1}]
=============================================================================
