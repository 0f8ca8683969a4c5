------------------------------ MODULE MCRooms -------------------------------
(* Rooms for TLC, in three parts of one run: two clients, each player       *)
(* replaced once by another one, lock rooms and invite; three call votes to *)
(* kick; two ask for two reloads.                                           *)
EXTENDS Rooms

CONSTANTS c1, c2, c3
ThreeClients == {c1, c2, c3}

VARIABLE part

MCInit == Init /\ part \in {"locks", "votes", "reloads"}

NoLocks == \A t \in Rooms : ~room[t].locked /\ room[t].invited = {}
NoVotes == \A t \in Rooms : inst[t].kick = Nobody
OneVisit == \A c \in Clients : visit[c] <= 1
TwoPlayers == client[c3] = "out"

InPart ==
    \/ part = "locks" /\ TwoPlayers /\ NoVotes /\ reloads = 0
    \/ part = "votes" /\ OneVisit /\ NoLocks /\ reloads = 0
    \/ part = "reloads" /\ TwoPlayers /\ OneVisit /\ NoLocks /\ NoVotes

mcVars == <<vars, part>>
MCNext == Next /\ UNCHANGED part /\ InPart'
MCSpec == MCInit /\ [][MCNext]_mcVars /\ WF_mcVars(~crashed /\ (BeginTick \/ TickStep) /\ UNCHANGED part)
=============================================================================
