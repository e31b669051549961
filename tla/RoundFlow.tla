----------------------------- MODULE RoundFlow -----------------------------
(***************************************************************************)
(* The round of a Zombie Panic! server: CZombiePanicGameRules::Think and   *)
(* ResetRound (zp_gamerules.cpp), CBaseGameMode::OnGameModeThink with the  *)
(* survival and objective game modes (gamemodes/), and the life of a       *)
(* player slot as client.cpp, player.cpp, observer.cpp and the round       *)
(* change it.  The engine calls Think once per frame; between two frames   *)
(* any client may connect, leave, send a command, die or be respawned.     *)
(*                                                                         *)
(* Time is abstracted to the set of timers that still run: Elapse lets any *)
(* of them run out at any moment, in any order.                            *)
(***************************************************************************)
EXTENDS Integers, FiniteSets

CONSTANTS
  Slots,              \* client slots, 1..gpGlobals->maxClients
  Mode,               \* "survival" or "objective": the class of m_pGameMode;
                      \* ZPGameMode_HardCore plays its rounds by survival's rules
  ZombieLives,        \* cvar zp_zombielives, or zp_zombielives_hardcore
  MaxStartLives,      \* what the constructor clamps it to: 10, or 24 in hardcore
  MaxZombieLives,     \* MAX_ZOMBIE_LIVES, 99 in the source
  RoundLimit,         \* cvar roundlimit
  RoundTimeLimited,   \* whether cvar roundtime is positive
  SurvivorsPerZombie  \* one more zombie for so many survivors, 6 in the source

ASSUME ConstantsAssumption ==
  /\ IsFiniteSet(Slots)
  /\ Mode \in {"survival", "objective"}
  /\ ZombieLives \in Nat \ {0} /\ MaxStartLives \in Nat \ {0}
  /\ MaxZombieLives \in Nat /\ ZombieLives <= MaxZombieLives
  /\ Cardinality(Slots) <= MaxZombieLives
  /\ RoundLimit \in Nat
  /\ RoundTimeLimited \in BOOLEAN
  /\ SurvivorsPerZombie \in Nat \ {0}

VARIABLES
  roundState,      \* IGameModeBase::m_iRoundState
  timeRanOut,      \* m_bTimeRanOut
  allDead,         \* m_bAllSurvivorsDead
  lives,           \* m_iZombieLives; -1 where GetZombieLifeData is not overridden
  hasPlayers,      \* m_bHasPlayersConnected
  leftMidRound,    \* m_LeftMidRoundList, of slots
  volunteers,      \* the slots of m_Volunteers that PickRandomVolunteer may read
  hasPicked,       \* m_bHasPickedVolunteer
  rounds,          \* m_iRounds
  restarting,      \* m_flRoundRestartDelay # -1
  timers,          \* the deadlines that have not passed yet
  gameOver,        \* g_fGameOver
  crashed,         \* the process died on an invalid access
  connected,       \* CBasePlayer::m_bConnected
  team,            \* pev->team
  dead,            \* pev->deadflag # DEAD_NO
  observer,        \* pev->iuser1 # 0
  welcome,         \* m_bInWelcomeCam
  noLives,         \* m_bNoLives
  escaped,         \* m_bHasEscaped
  locked           \* physics key "zprl": the client ignores movement input

roundVars  == <<roundState, timeRanOut, allDead, lives, hasPlayers, leftMidRound>>
rulesVars  == <<volunteers, hasPicked, rounds, restarting, gameOver, crashed>>
playerVars == <<connected, team, dead, observer, welcome, noLives, escaped, locked>>
vars == <<roundVars, rulesVars, timers, playerVars>>

RoundStates == {"WaitingForPlayers", "RoundIsStarting", "PickVolunteers",
                "RoundHasBegunPost", "RoundHasBegun", "RoundIsOver"}
BeforeTheRound == RoundStates \ {"RoundHasBegun", "RoundIsOver"}
Teams  == {"OBSERVER", "SURVIVIOR", "ZOMBIE"}
Timers == {"RoundBeginsIn", "RoundTime", "LastZombieCheck", "RoundRestartDelay",
           "RoundJustBegun"}

TypeOK ==
  /\ roundState \in RoundStates
  /\ timeRanOut \in BOOLEAN /\ allDead \in BOOLEAN
  /\ lives \in -1 .. MaxZombieLives
  /\ hasPlayers \in BOOLEAN
  /\ leftMidRound \subseteq Slots /\ volunteers \subseteq Slots
  /\ hasPicked \in BOOLEAN /\ rounds \in Nat \ {0} /\ restarting \in BOOLEAN
  /\ timers \subseteq Timers
  /\ gameOver \in BOOLEAN /\ crashed \in BOOLEAN
  /\ team \in [Slots -> Teams]
  /\ connected \in [Slots -> BOOLEAN] /\ dead \in [Slots -> BOOLEAN]
  /\ observer \in [Slots -> BOOLEAN] /\ welcome \in [Slots -> BOOLEAN]
  /\ noLives \in [Slots -> BOOLEAN] /\ escaped \in [Slots -> BOOLEAN]
  /\ locked \in [Slots -> BOOLEAN]

-----------------------------------------------------------------------------
\* What the loops over UTIL_PlayerByIndex see: connected slots only.
OnTeam(t)       == {p \in Slots : connected[p] /\ team[p] = t}
Living(t)       == {p \in OnTeam(t) : ~dead[p]}
SomeoneAlive    == \E p \in Living("SURVIVIOR") : ~observer[p]

\* ZPGameMode_Survival::HasNoRemainingZombies, ZPGameMode_Objective::HasAnySurvivorEscaped
HasNoRemainingZombies == lives <= 0 /\ \A z \in OnTeam("ZOMBIE") : noLives[z]
HasAnySurvivorEscaped ==
  /\ \E p \in OnTeam("SURVIVIOR") : escaped[p]
  /\ timeRanOut \/ ~SomeoneAlive

SurvivorsWin == IF Mode = "survival" THEN timeRanOut \/ HasNoRemainingZombies
                                     ELSE HasAnySurvivorEscaped
ZombiesWin   == ~SurvivorsWin /\ (allDead \/ (Mode = "objective" /\ timeRanOut))
Decided      == SurvivorsWin \/ ZombiesWin     \* GetWinState() >= State_Draw

\* ShouldRoundLockPlayerInput for a player in play
RoundLocks(p, state) ==
  ~dead[p] /\ ~observer[p] /\ team[p] # "OBSERVER" /\ state # "RoundHasBegun"

\* Mutant: the lock is left to the next spawn
MutSetRoundState(s) == roundState' = s /\ UNCHANGED locked

\* IGameModeBase::SetRoundState: the new state reaches every client's input lock
SetRoundState(s) ==
  /\ roundState' = s
  /\ locked' = [p \in Slots |-> connected'[p] /\ RoundLocks(p, s)']

Serving == ~gameOver /\ ~crashed

-----------------------------------------------------------------------------
\* A slot without a client: nothing reads its fields before ClientPutInServer
\* has rewritten them, so they keep these values while the slot is free.
Vacant ==
  /\ connected = [p \in Slots |-> FALSE] /\ team = [p \in Slots |-> "OBSERVER"]
  /\ dead = [p \in Slots |-> TRUE] /\ observer = [p \in Slots |-> FALSE]
  /\ welcome = [p \in Slots |-> FALSE] /\ noLives = [p \in Slots |-> FALSE]
  /\ escaped = [p \in Slots |-> FALSE] /\ locked = [p \in Slots |-> FALSE]

\* A map has been loaded: CZombiePanicGameRules and the game mode are constructed
Init ==
  /\ roundState = "WaitingForPlayers" /\ timeRanOut = FALSE /\ allDead = FALSE
  /\ lives = IF Mode = "objective" THEN -1
             ELSE IF ZombieLives < MaxStartLives THEN ZombieLives ELSE MaxStartLives
  /\ hasPlayers = FALSE /\ leftMidRound = {}
  /\ volunteers = {} /\ hasPicked = FALSE /\ rounds = 1 /\ restarting = FALSE
  /\ timers = {} /\ gameOver = FALSE /\ crashed = FALSE
  /\ Vacant

-----------------------------------------------------------------------------
(* Clients *)

\* CBasePlayer::StartObserver
StartObserver(p) ==
  /\ observer' = [observer EXCEPT ![p] = TRUE]
  /\ dead' = [dead EXCEPT ![p] = TRUE]
  /\ welcome' = [welcome EXCEPT ![p] = FALSE]
  /\ locked' = [locked EXCEPT ![p] = FALSE]

\* CBasePlayer::Spawn, once team' and observer' are known
Spawn(p) ==
  /\ UNCHANGED roundState
  /\ dead' = [dead EXCEPT ![p] = FALSE]
  /\ locked' = [locked EXCEPT ![p] = RoundLocks(p, roundState)']

\* ClientPutInServer: Spawn and PlayerSpawn put a new client in the welcome cam.
\* The engine hands the slot over with fresh fields.
ClientPutInServer(p) ==
  /\ Serving /\ ~connected[p]
  /\ connected' = [connected EXCEPT ![p] = TRUE]
  /\ welcome' = [welcome EXCEPT ![p] = TRUE]
  /\ UNCHANGED <<roundVars, rulesVars, timers, team, dead, observer, noLives, escaped, locked>>

\* InitHUD of the first client to get there starts the game mode's thinking
InitHUD(p) ==
  /\ Serving /\ connected[p] /\ welcome[p] /\ ~hasPlayers
  /\ hasPlayers' = TRUE
  /\ UNCHANGED <<roundState, timeRanOut, allDead, lives, leftMidRound, rulesVars, timers, playerVars>>

ClientDisconnect(p) ==
  /\ Serving /\ connected[p]
  /\ leftMidRound' = IF roundState = "RoundHasBegun" THEN leftMidRound \cup {p} ELSE leftMidRound
  /\ connected' = [connected EXCEPT ![p] = FALSE]
  /\ team' = [team EXCEPT ![p] = "OBSERVER"] /\ dead' = [dead EXCEPT ![p] = TRUE]
  /\ observer' = [observer EXCEPT ![p] = FALSE] /\ welcome' = [welcome EXCEPT ![p] = FALSE]
  /\ noLives' = [noLives EXCEPT ![p] = FALSE] /\ escaped' = [escaped EXCEPT ![p] = FALSE]
  /\ locked' = [locked EXCEPT ![p] = FALSE]
  /\ UNCHANGED <<roundState, timeRanOut, allDead, lives, hasPlayers, rulesVars, timers>>

MayJoin(p)  == Serving /\ connected[p] /\ (team[p] = "OBSERVER" \/ welcome[p])
\* Mutant: only the pool of lives is asked
MutNoLivesLeft(p) == lives = 0

NoLivesLeft(p) == noLives[p] \/ lives = 0

\* "joingame" without a life left: the player is sent to watch
JoinGameRefused(p) ==
  /\ MayJoin(p) /\ NoLivesLeft(p) /\ ~observer[p]
  /\ StartObserver(p)
  /\ UNCHANGED <<roundVars, rulesVars, timers, connected, team, noLives, escaped>>

\* Mutant: who left mid round is forgotten
MutJoinsAsZombie(p) == roundState = "RoundHasBegun" /\ "RoundJustBegun" \notin timers

\* Joining a running round makes a zombie, except in its first 20 seconds
JoinsAsZombie(p) ==
  roundState = "RoundHasBegun" /\ ("RoundJustBegun" \notin timers \/ p \in leftMidRound)

\* "joingame" and "joingame volunteer".  Between the pick and ResetVolunteers
\* nothing reads m_Volunteers, so a late volunteer is not recorded.
JoinGame(p, volunteer) ==
  /\ MayJoin(p) /\ ~NoLivesLeft(p)
  /\ volunteers' = IF volunteer /\ ~hasPicked THEN volunteers \cup {p} ELSE volunteers
  /\ team' = [team EXCEPT ![p] = IF JoinsAsZombie(p) THEN "ZOMBIE" ELSE "SURVIVIOR"]
  /\ observer' = [observer EXCEPT ![p] = FALSE]
  /\ welcome' = [welcome EXCEPT ![p] = FALSE]
  /\ Spawn(p)
  /\ UNCHANGED <<roundVars, hasPicked, rounds, restarting, gameOver, crashed, timers,
                 connected, noLives, escaped>>

\* "spectate"
Spectate(p) ==
  /\ Serving /\ connected[p] /\ team[p] = "OBSERVER" /\ ~observer[p]
  /\ StartObserver(p)
  /\ UNCHANGED <<roundVars, rulesVars, timers, connected, team, noLives, escaped>>

\* Mutant: every spectator may open the menu, whatever the team
MutOpenTeamMenu(p) ==
  /\ Serving /\ connected[p] /\ observer[p]
  /\ observer' = [observer EXCEPT ![p] = FALSE] /\ welcome' = [welcome EXCEPT ![p] = TRUE]
  /\ dead' = [dead EXCEPT ![p] = TRUE] /\ locked' = [locked EXCEPT ![p] = FALSE]
  /\ UNCHANGED <<roundVars, rulesVars, timers, connected, team, noLives, escaped>>

\* "open_teammenu": StopObserver, then StartWelcomeCam
OpenTeamMenu(p) ==
  /\ Serving /\ connected[p] /\ team[p] = "OBSERVER" /\ observer[p]
  /\ observer' = [observer EXCEPT ![p] = FALSE]
  /\ welcome' = [welcome EXCEPT ![p] = TRUE]
  /\ dead' = [dead EXCEPT ![p] = TRUE]
  /\ locked' = [locked EXCEPT ![p] = FALSE]
  /\ UNCHANGED <<roundVars, rulesVars, timers, connected, team, noLives, escaped>>

\* CBasePlayer::PreThink: the attack button leaves the welcome cam, whatever the team
WelcomeCamAttack(p) ==
  /\ Serving /\ connected[p] /\ welcome[p] /\ ~observer[p]
  /\ welcome' = [welcome EXCEPT ![p] = FALSE]
  /\ UNCHANGED <<roundVars, rulesVars, timers, connected, team, observer, noLives, escaped>>
  /\ Spawn(p)

-----------------------------------------------------------------------------
(* Death and respawn *)

\* Mutant: the lives are not clamped to MAX_ZOMBIE_LIVES
MutKilled(p, costsALife) ==
  /\ dead' = [dead EXCEPT ![p] = TRUE]
  /\ lives' = IF team[p] = "SURVIVIOR" THEN lives + 1 ELSE lives
  /\ UNCHANGED <<roundState, timeRanOut, allDead, hasPlayers, leftMidRound, rulesVars, timers,
                 connected, team, observer, welcome, noLives, escaped, locked>>

\* CBasePlayer::Killed with ZPGameMode_Survival::OnPlayerDied.  costsALife: the
\* killer is a client that is neither the victim nor on the zombie team.
Killed(p, costsALife) ==
  /\ dead' = [dead EXCEPT ![p] = TRUE]
  /\ noLives' = [noLives EXCEPT ![p] =
                   @ \/ (Mode = "survival" /\ team[p] = "ZOMBIE" /\ lives <= 0)]
  /\ lives' = IF Mode # "survival" THEN lives
              ELSE IF team[p] = "SURVIVIOR" /\ lives < MaxZombieLives THEN lives + 1
              ELSE IF team[p] = "ZOMBIE" /\ costsALife /\ lives > 0 THEN lives - 1
              ELSE lives
  /\ UNCHANGED <<roundState, timeRanOut, allDead, hasPlayers, leftMidRound, rulesVars, timers,
                 connected, team, observer, welcome, escaped, locked>>

\* FPlayerCanTakeDamage: never the observer team
CanTakeDamage(p) == Serving /\ connected[p] /\ ~dead[p] /\ team[p] # "OBSERVER"

\* Fall, trigger_hurt and the like: the killer is no client
DieByWorld(p) == CanTakeDamage(p) /\ Killed(p, FALSE)

\* Input is locked outside RoundHasBegun; what was in motion may still land after it
InMotion == roundState \in {"RoundHasBegun", "RoundIsOver"}

DieByPlayer(p, killer) ==
  /\ CanTakeDamage(p) /\ killer # p /\ connected[killer] /\ InMotion
  /\ Killed(p, team[killer] # "ZOMBIE")

\* ClientKill, whose five seconds end in WantsToSuicide
Suicide(p) ==
  /\ Serving /\ connected[p] /\ ~observer[p] /\ ~dead[p] /\ ~welcome[p]
  /\ roundState \in {"RoundHasBegun", "RoundIsOver"}
  /\ Killed(p, FALSE)

\* CBasePlayer::PlayerDeathThink, reached from PreThink once the corpse has lain its time
DeathThink(p) ==
  /\ Serving /\ connected[p] /\ dead[p] /\ ~observer[p] /\ ~welcome[p]
  /\ team' = [team EXCEPT ![p] = IF noLives[p] THEN "OBSERVER" ELSE "ZOMBIE"]
  /\ IF noLives[p] THEN StartObserver(p)
                   ELSE UNCHANGED <<observer, welcome>> /\ Spawn(p)
  /\ UNCHANGED <<roundVars, rulesVars, timers, connected, noLives, escaped>>

\* Mutant: the player is sent to watch and not marked
MutEscape(p) ==
  /\ Serving /\ Mode = "objective" /\ InMotion /\ p \in Living("SURVIVIOR")
  /\ StartObserver(p)
  /\ UNCHANGED <<roundVars, rulesVars, timers, connected, team, noLives, escaped>>

\* CTriggerEndRound::OnEndRoundTouch, reached on foot
Escape(p) ==
  /\ Serving /\ Mode = "objective" /\ InMotion /\ p \in Living("SURVIVIOR")
  /\ escaped' = [escaped EXCEPT ![p] = TRUE]
  /\ StartObserver(p)
  /\ UNCHANGED <<roundVars, rulesVars, timers, connected, team, noLives>>

\* A game_end entity: EndMultiplayerGame; only the objective mode overrides SetWinState
GameEnd ==
  /\ Serving /\ Mode = "objective" /\ ~Decided
  /\ timeRanOut' = TRUE
  /\ UNCHANGED <<roundState, allDead, lives, hasPlayers, leftMidRound, rulesVars, timers, playerVars>>

-----------------------------------------------------------------------------
(* CZombiePanicGameRules::Think, one action per path through it *)

Thinking == Serving /\ hasPlayers /\ ~Decided

ThinkWaiting ==
  /\ Thinking /\ roundState = "WaitingForPlayers"
  /\ Cardinality({p \in Living("SURVIVIOR") : ~observer[p]}) >= 2
  /\ timers' = timers \cup {"RoundBeginsIn"}
  /\ UNCHANGED <<connected, team, dead, observer, welcome, noLives, escaped>>
  /\ SetRoundState("RoundIsStarting")
  /\ UNCHANGED <<timeRanOut, allDead, lives, hasPlayers, leftMidRound, rulesVars>>

\* Mutant: the pick insists on a living survivor
MutPicks == {{p} : p \in Living("SURVIVIOR")}

ThePick == INSTANCE OnePick WITH
             PerZombie <- SurvivorsPerZombie, here <- {p \in Slots : connected[p]},
             living <- Living("SURVIVIOR"), zombies <- OnTeam("ZOMBIE"),
             offered <- volunteers, picked <- hasPicked

\* The slots PickRandomVolunteer may turn into zombies.  How many, and whom the list of
\* earlier zombies spares, is ZombieSelection's subject: here any choice that OnePick
\* allows will do.
Picks == ThePick!Outcomes

\* The start delay has passed: PickVolunteers, and in the same frame the pick
ThinkStarting ==
  /\ Thinking /\ roundState = "RoundIsStarting" /\ "RoundBeginsIn" \notin timers
  /\ timers' = timers \cup {"RoundBeginsIn", "RoundJustBegun"}
  /\ hasPicked' = TRUE /\ volunteers' = {}
  /\ \E zs \in Picks :
       /\ team' = [p \in Slots |-> IF p \in zs THEN "ZOMBIE" ELSE team[p]]
       /\ dead' = [p \in Slots |-> dead[p] /\ p \notin zs]
  /\ UNCHANGED <<connected, observer, welcome, noLives, escaped>>
  /\ SetRoundState("PickVolunteers")
  /\ UNCHANGED <<timeRanOut, allDead, lives, hasPlayers, leftMidRound, rounds, restarting, gameOver, crashed>>

\* ... RoundHasBegunPost, where ZPGameMode_Survival::CalculateZombieLives runs
ThinkPicked ==
  /\ Thinking /\ roundState = "PickVolunteers" /\ "RoundBeginsIn" \notin timers
  /\ LET players == Cardinality({p \in Slots : connected[p]})
     IN  lives' = IF Mode = "survival" /\ players > lives THEN players ELSE lives
  /\ UNCHANGED <<connected, team, dead, observer, welcome, noLives, escaped>>
  /\ SetRoundState("RoundHasBegunPost")
  /\ UNCHANGED <<timeRanOut, allDead, hasPlayers, leftMidRound, rulesVars, timers>>

ThinkBegunPost ==
  /\ Thinking /\ roundState = "RoundHasBegunPost"
  /\ timers' = timers \cup {"LastZombieCheck"} \cup (IF RoundTimeLimited THEN {"RoundTime"} ELSE {})
  /\ allDead' = (allDead \/ ~SomeoneAlive)
  /\ UNCHANGED <<connected, team, dead, observer, welcome, noLives, escaped>>
  /\ SetRoundState("RoundHasBegun")
  /\ UNCHANGED <<timeRanOut, lives, hasPlayers, leftMidRound, rulesVars>>

\* Mutant: the round time is never compared with the clock
MutJudgeRound == timeRanOut' = timeRanOut /\ allDead' = (allDead \/ ~SomeoneAlive)

\* The part of OnGameModeThink after CheckZombieAmount
JudgeRound ==
  /\ timeRanOut' = (timeRanOut \/ (RoundTimeLimited /\ "RoundTime" \notin timers))
  /\ allDead' = (allDead \/ ~SomeoneAlive)

\* Mutant: the zombies are not counted when the check is due
MutThinkBegun ==
  /\ Thinking /\ roundState = "RoundHasBegun"
  /\ timers' = timers \cup {"LastZombieCheck"} /\ JudgeRound
  /\ UNCHANGED <<roundState, lives, hasPlayers, leftMidRound, rulesVars, playerVars>>

\* A frame of the running round in which CheckZombieAmount finds nothing to do
ThinkBegun ==
  /\ Thinking /\ roundState = "RoundHasBegun"
  /\ "LastZombieCheck" \in timers \/ OnTeam("ZOMBIE") # {}
  /\ timers' = timers \cup {"LastZombieCheck"}
  /\ JudgeRound
  /\ UNCHANGED <<roundState, lives, hasPlayers, leftMidRound, rulesVars, playerVars>>

\* CheckZombieAmount drafts a player of the survivor team, dead or alive
DraftZombie(p) ==
  /\ Thinking /\ roundState = "RoundHasBegun"
  /\ "LastZombieCheck" \notin timers /\ OnTeam("ZOMBIE") = {} /\ p \in OnTeam("SURVIVIOR")
  /\ timers' = timers \cup {"LastZombieCheck"}
  /\ JudgeRound
  /\ team' = [team EXCEPT ![p] = "ZOMBIE"]
  /\ UNCHANGED <<roundState, lives, hasPlayers, leftMidRound, rulesVars>>
  /\ UNCHANGED <<connected, observer, welcome, noLives, escaped>>
  /\ Spawn(p)

\* ... and reads m_Volunteers[0] of an empty vector when that team is empty too
DraftNobody ==
  /\ Thinking /\ roundState = "RoundHasBegun"
  /\ "LastZombieCheck" \notin timers /\ OnTeam("ZOMBIE") = {} /\ OnTeam("SURVIVIOR") = {}
  /\ crashed' = TRUE
  /\ UNCHANGED <<roundVars, volunteers, hasPicked, rounds, restarting, gameOver, timers, playerVars>>

\* GetWinState has an answer, or the round is over already: RoundIsOver, ResetRound
Over == Serving /\ (Decided \/ roundState = "RoundIsOver")

\* Mutant: every frame starts the delay anew
MutThinkRoundOver ==
  /\ Over
  /\ restarting' = TRUE /\ timers' = timers \cup {"RoundRestartDelay"}
  /\ UNCHANGED <<connected, team, dead, observer, welcome, noLives, escaped>>
  /\ SetRoundState("RoundIsOver")
  /\ UNCHANGED <<timeRanOut, allDead, lives, hasPlayers, leftMidRound,
                 volunteers, hasPicked, rounds, gameOver, crashed>>

\* The first frame announces the result and starts the five second delay
ThinkRoundOver ==
  /\ Over /\ ~restarting
  /\ restarting' = TRUE /\ timers' = timers \cup {"RoundRestartDelay"}
  /\ UNCHANGED <<connected, team, dead, observer, welcome, noLives, escaped>>
  /\ SetRoundState("RoundIsOver")
  /\ UNCHANGED <<timeRanOut, allDead, lives, hasPlayers, leftMidRound,
                 volunteers, hasPicked, rounds, gameOver, crashed>>

ThinkRoundOverWait ==
  /\ Over /\ restarting /\ "RoundRestartDelay" \in timers
  /\ UNCHANGED <<connected, team, dead, observer, welcome, noLives, escaped>>
  /\ SetRoundState("RoundIsOver")
  /\ UNCHANGED <<timeRanOut, allDead, lives, hasPlayers, leftMidRound, rulesVars, timers>>

\* Mutant: m_bHasPickedVolunteer stays up
MutResetVolunteers == volunteers' = {} /\ UNCHANGED hasPicked

ResetVolunteers == hasPicked' = FALSE /\ volunteers' = {}

LimitReached == RoundLimit > 0 /\ rounds >= RoundLimit

\* The delay has passed and roundlimit is reached: intermission instead of a reset
ThinkRoundLimit ==
  /\ Over /\ restarting /\ "RoundRestartDelay" \notin timers /\ LimitReached
  /\ restarting' = FALSE /\ ResetVolunteers /\ gameOver' = TRUE
  /\ UNCHANGED <<connected, team, dead, observer, welcome, noLives, escaped>>
  /\ SetRoundState("RoundIsOver")
  /\ UNCHANGED <<timeRanOut, allDead, lives, hasPlayers, leftMidRound, rounds, crashed, timers>>

\* mp_timelimit has passed when a frame finds the round decided
ThinkTimeLimit ==
  /\ Serving /\ Decided
  /\ gameOver' = TRUE
  /\ UNCHANGED <<roundVars, volunteers, hasPicked, rounds, restarting, crashed, timers, playerVars>>

\* Mutant: m_LeftMidRoundList is not cleared
MutRestartRound ==
  /\ timeRanOut' = FALSE /\ allDead' = FALSE /\ UNCHANGED leftMidRound
  /\ lives' = IF Mode = "survival" THEN ZombieLives ELSE lives
  /\ timers' = timers \ {"RoundTime"}

\* RestartRound of the game mode, up to its SetRoundState
RestartRound ==
  /\ timeRanOut' = FALSE /\ allDead' = FALSE /\ leftMidRound' = {}
  /\ lives' = IF Mode = "survival" THEN ZombieLives ELSE lives
  /\ timers' = timers \ {"RoundTime"}

\* The rest of ResetRound.  StartWelcomeCam returns early for a player who is
\* in the welcome cam already: StopObserver has just spawned that one, alive.
ResetRound ==
  /\ Over /\ restarting /\ "RoundRestartDelay" \notin timers /\ ~LimitReached
  /\ restarting' = FALSE /\ ResetVolunteers /\ RestartRound /\ rounds' = rounds + 1
  /\ dead' = [p \in Slots |-> ~(connected[p] /\ welcome[p])]
  /\ team' = [p \in Slots |-> "OBSERVER"]
  /\ welcome' = connected
  /\ observer' = [p \in Slots |-> FALSE]
  /\ escaped' = [p \in Slots |-> FALSE]
  /\ noLives' = [p \in Slots |-> FALSE]
  /\ UNCHANGED connected
  /\ SetRoundState("WaitingForPlayers")
  /\ UNCHANGED <<hasPlayers, gameOver, crashed>>

Think ==
  \/ ThinkWaiting \/ ThinkStarting \/ ThinkPicked \/ ThinkBegunPost \/ ThinkBegun
  \/ (\E p \in Slots : DraftZombie(p)) \/ DraftNobody
  \/ ThinkRoundOver \/ ThinkRoundOverWait \/ ThinkRoundLimit \/ ThinkTimeLimit \/ ResetRound

\* The intermission, or a server that died: the next map starts in Init again
Intermission == (gameOver \/ crashed) /\ UNCHANGED vars

Elapse(t) ==
  /\ Serving /\ t \in timers
  /\ timers' = timers \ {t}
  /\ UNCHANGED <<roundVars, rulesVars, playerVars>>

Client(p) ==
  \/ ClientPutInServer(p) \/ InitHUD(p) \/ ClientDisconnect(p)
  \/ JoinGameRefused(p) \/ (\E v \in BOOLEAN : JoinGame(p, v))
  \/ Spectate(p) \/ OpenTeamMenu(p) \/ WelcomeCamAttack(p)
  \/ DieByWorld(p) \/ (\E k \in Slots : DieByPlayer(p, k)) \/ Suicide(p)
  \/ DeathThink(p) \/ Escape(p)

Next ==
  \/ \E p \in Slots : Client(p)
  \/ GameEnd \/ Think \/ Intermission
  \/ \E t \in Timers : Elapse(t)

Spec == Init /\ [][Next]_vars

\* The engine calls Think every frame and time passes; nothing is asked of clients
FairSpec == Spec /\ WF_vars(Think) /\ \A t \in Timers : WF_vars(Elapse(t))

-----------------------------------------------------------------------------
(* Safety *)

\* A living player's input is locked exactly while the rules say so.  The lock is a
\* physics key written at spawns, deaths and round changes and never recomputed:
\* a write that is missed leaves a player frozen in the round, or free before it.
RoundLockMatchesRound ==
  \A p \in Slots : connected[p] /\ ~dead[p] => locked[p] = RoundLocks(p, roundState)

\* Zombies are picked once per round: m_bHasPickedVolunteer is down until the round
\* starts and up from PickVolunteers until the round is over.
PickedOncePerRound ==
  /\ roundState \in {"WaitingForPlayers", "RoundIsStarting"} => ~hasPicked
  /\ roundState \in {"PickVolunteers", "RoundHasBegunPost", "RoundHasBegun"} => hasPicked

\* Nothing of the last round is left when the next one is being prepared, whoever
\* came, left or died between the verdict and the reset.
RoundScopedFlags ==
  roundState \in BeforeTheRound =>
    /\ ~allDead /\ leftMidRound = {} /\ lives # 0 /\ ~restarting
    /\ \A p \in Slots : ~noLives[p] /\ ~escaped[p]

\* No entry of m_Volunteers names a client that is still in the welcome cam, as one
\* does when the volunteer left and somebody else was given the slot.
FreshVolunteers == \A v \in volunteers : connected[v] => ~welcome[v]

\* m_bNoLives: a zombie that died without a life left lies dead or watches, and does
\* not play again in this round, whatever commands its client sends; unless a stale
\* volunteer entry made a zombie of a client in the welcome cam, which the attack
\* button brings back to life.
OutOfLives == \A p \in Slots : noLives[p] => team[p] = "OBSERVER" \/ (team[p] = "ZOMBIE" /\ dead[p])
OutOfLivesStaysOut == []FreshVolunteers => []OutOfLives

\* A living survivor seen by OnGameModeThink
InPlay(p) == connected[p] /\ team[p] = "SURVIVIOR" /\ ~dead[p] /\ ~observer[p]

\* While the round runs nobody becomes a survivor after its first 20 seconds
\* (m_flRoundJustBegun), nor earlier from a slot whose client left this round.
JoinsTheRound(p) ==
  roundState = "RoundHasBegun" /\ roundState' = "RoundHasBegun" /\ ~InPlay(p) /\ InPlay(p)'
NoLateSurvivors ==
  [][\A p \in Slots : JoinsTheRound(p) => "RoundJustBegun" \in timers /\ p \notin leftMidRound]_vars

\* Who escaped watches the rest of the round: no command of the client, no death and
\* no draft gives the player back a body before the reset takes m_bHasEscaped away.
EscapedWatches == \A p \in Slots : escaped[p] => observer[p]

\* A player made a zombie while watching has escaped: the pick, the draft and the deaths
\* make no zombie without a body of anybody else, whatever commands the client sent before.
OnlyTheEscapedMissOut ==
  [][\A p \in Slots :
       team[p] = "SURVIVIOR" /\ team'[p] = "ZOMBIE" /\ observer'[p] => escaped[p]]_vars

(* What RoundPhases promises *)

Phase ==
  IF ~Serving THEN "ended"
  ELSE IF roundState \in {"WaitingForPlayers", "RoundIsStarting"} THEN "lobby"
  ELSE IF roundState = "RoundIsOver" THEN "over" ELSE "underway"

Phases == INSTANCE RoundPhases WITH
            Limit <- RoundLimit, phase <- Phase, picked <- hasPicked, round <- rounds

\* Rounds follow one another as RoundPhases says: no phase is skipped or repeated, no
\* round starts with last round's pick, m_iRounds counts the rounds and no more than
\* roundlimit of them.
RoundsFollowPhases == Phases!PhaseSpec
NextRoundFollows   == Phases!Follows

Signals == INSTANCE RoundSignals WITH
             signal <- CASE roundState = "RoundHasBegun" -> "begun"
                         [] roundState = "RoundIsOver"   -> "over"
                         [] roundState \in BeforeTheRound -> "waiting"

(* What comments in the source say, and the code does not do *)

\* zp_gamemodebase.cpp:294, "We got no zombies? Pick a random survivor to become a
\* zombie on the spot.": CheckZombieAmount does not take the server down.
DraftIsSafe == ~crashed

\* The same comment: a survivor who is picked there plays as a zombie, and does not
\* stay the spectator that an escaped survivor is.
DraftedPlayAsZombies ==
  [][\A p \in Slots : team[p] = "SURVIVIOR" /\ team'[p] = "ZOMBIE" => ~observer'[p]]_vars

\* zp_gamerules.cpp:696, "Go no more lives? stop. This only applies if the player is
\* on TEAM_OBSERVER": from that team nobody becomes a zombie while there is no life and
\* the round is undecided.
NoZombieWithoutLives ==
  [][\A p \in Slots :
       team[p] = "OBSERVER" /\ team'[p] = "ZOMBIE" /\ ~Decided => lives # 0]_vars

(* Liveness *)

\* A round that is starting begins or is called off, and with a round time it ends,
\* whoever comes, leaves, dies or does nothing.
StartingLeadsOn == roundState = "RoundIsStarting" ~> roundState # "RoundIsStarting" \/ ~Serving
RoundEnds == roundState = "RoundHasBegun" ~> roundState = "RoundIsOver" \/ ~Serving

\* A running round that is left without zombies gets one from CheckZombieAmount
ZombiesAreFound ==
  (roundState = "RoundHasBegun" /\ OnTeam("ZOMBIE") = {})
    ~> (OnTeam("ZOMBIE") # {} \/ roundState # "RoundHasBegun" \/ ~Serving)
=============================================================================
