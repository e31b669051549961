-------------------------- MODULE RoundFlow_proofs --------------------------
(***************************************************************************)
(* Theorems about RoundFlow, for any number of slots and both game modes.  *)
(* Each invariant is proved on top of the ones before it: TypeOK, the      *)
(* state of free slots, the round's own flags, and then the properties     *)
(* that the runs check.                                                    *)
(***************************************************************************)
EXTENDS RoundFlow, FiniteSetTheorems, TLAPS

-----------------------------------------------------------------------------
(* Types *)

\* Whatever zp_zombielives is, the lives a round starts with are in range
LEMMA StartingLives ==
  /\ {-1, ZombieLives} \subseteq -1 .. MaxZombieLives
  /\ ZombieLives >= MaxStartLives => MaxStartLives \in -1 .. MaxZombieLives
  BY ConstantsAssumption

\* CalculateZombieLives counts players: no more of them than there are slots
LEMMA PlayersBounded ==
  ASSUME NEW S \in SUBSET Slots
  PROVE  Cardinality(S) \in 0 .. MaxZombieLives
<1>1. IsFiniteSet(Slots) /\ Cardinality(Slots) <= MaxZombieLives /\ MaxZombieLives \in Nat
  BY ConstantsAssumption
<1>2. IsFiniteSet(S) /\ Cardinality(S) <= Cardinality(Slots)
  BY <1>1, FS_Subset
<1>3. Cardinality(S) \in Nat /\ Cardinality(Slots) \in Nat
  BY <1>1, <1>2, FS_CardinalityType
<1> QED
  BY <1>1, <1>2, <1>3

\* Every step of the engine or of a client keeps the types: one case per action.
LEMMA TypeStep == TypeOK /\ [Next]_vars => TypeOK'
<1> SUFFICES ASSUME TypeOK, [Next]_vars PROVE TypeOK'
  OBVIOUS
<1> USE DEF TypeOK, vars, roundVars, rulesVars, playerVars, RoundStates, Teams, Timers
<1>1. ASSUME NEW p \in Slots, ClientPutInServer(p) PROVE TypeOK'
  BY <1>1 DEF ClientPutInServer
<1>2. ASSUME NEW p \in Slots, InitHUD(p) PROVE TypeOK'
  BY <1>2 DEF InitHUD
<1>3. ASSUME NEW p \in Slots, ClientDisconnect(p) PROVE TypeOK'
  BY <1>3 DEF ClientDisconnect
<1>4. ASSUME NEW p \in Slots, JoinGameRefused(p) PROVE TypeOK'
  BY <1>4 DEF JoinGameRefused, StartObserver
<1>5. ASSUME NEW p \in Slots, NEW v \in BOOLEAN, JoinGame(p, v) PROVE TypeOK'
  BY <1>5 DEF JoinGame, Spawn, RoundLocks
<1>6. ASSUME NEW p \in Slots, Spectate(p) PROVE TypeOK'
  BY <1>6 DEF Spectate, StartObserver
<1>7. ASSUME NEW p \in Slots, OpenTeamMenu(p) PROVE TypeOK'
  BY <1>7 DEF OpenTeamMenu
<1>8. ASSUME NEW p \in Slots, WelcomeCamAttack(p) PROVE TypeOK'
  BY <1>8 DEF WelcomeCamAttack, Spawn, RoundLocks
<1>9. ASSUME NEW p \in Slots, DieByWorld(p) PROVE TypeOK'
  BY <1>9, ConstantsAssumption DEF DieByWorld, Killed
<1>10. ASSUME NEW p \in Slots, NEW k \in Slots, DieByPlayer(p, k) PROVE TypeOK'
  BY <1>10, ConstantsAssumption DEF DieByPlayer, Killed
<1>11. ASSUME NEW p \in Slots, Suicide(p) PROVE TypeOK'
  BY <1>11, ConstantsAssumption DEF Suicide, Killed
<1>12. ASSUME NEW p \in Slots, DeathThink(p) PROVE TypeOK'
  <2>1. CASE noLives[p]
    <3>1. /\ team' = [team EXCEPT ![p] = "OBSERVER"]
          /\ StartObserver(p)
          /\ UNCHANGED <<roundVars, rulesVars, timers, connected, noLives, escaped>>
      BY <1>12, <2>1, Zenon DEF DeathThink
    <3> QED
      BY <3>1 DEF StartObserver
  <2>2. CASE ~noLives[p]
    <3>1. /\ team' = [team EXCEPT ![p] = "ZOMBIE"]
          /\ UNCHANGED <<observer, welcome>> /\ Spawn(p)
          /\ UNCHANGED <<roundVars, rulesVars, timers, connected, noLives, escaped>>
      BY <1>12, <2>2, Zenon DEF DeathThink
    <3> QED
      BY <3>1 DEF Spawn, RoundLocks
  <2> QED
    BY <2>1, <2>2
<1>13. ASSUME NEW p \in Slots, Escape(p) PROVE TypeOK'
  BY <1>13 DEF Escape, StartObserver
<1>14. CASE ThinkWaiting
  BY <1>14 DEF ThinkWaiting, SetRoundState, RoundLocks
<1>15. CASE ThinkStarting
  BY <1>15 DEF ThinkStarting, SetRoundState, RoundLocks
<1>16. CASE ThinkPicked
  <2> DEFINE players == Cardinality({p \in Slots : connected[p]})
  <2>1. players \in 0 .. MaxZombieLives
    BY PlayersBounded
  <2> HIDE DEF players
  <2>2. lives' = IF Mode = "survival" /\ players > lives THEN players ELSE lives
    BY <1>16 DEF ThinkPicked, players
  <2> QED
    BY <1>16, <2>1, <2>2, ConstantsAssumption DEF ThinkPicked, SetRoundState, RoundLocks
<1>17. CASE ThinkBegunPost
  BY <1>17 DEF ThinkBegunPost, SetRoundState, RoundLocks
<1>18. CASE ThinkBegun
  BY <1>18 DEF ThinkBegun, JudgeRound
<1>19. ASSUME NEW p \in Slots, DraftZombie(p) PROVE TypeOK'
  BY <1>19 DEF DraftZombie, JudgeRound, Spawn, RoundLocks
<1>20. CASE DraftNobody
  BY <1>20 DEF DraftNobody
<1>21. CASE ThinkRoundOver
  BY <1>21 DEF ThinkRoundOver, SetRoundState, RoundLocks
<1>22. CASE ThinkRoundOverWait
  BY <1>22 DEF ThinkRoundOverWait, SetRoundState, RoundLocks
<1>23. CASE ThinkRoundLimit
  BY <1>23 DEF ThinkRoundLimit, SetRoundState, ResetVolunteers, RoundLocks
<1>24. CASE ThinkTimeLimit
  BY <1>24 DEF ThinkTimeLimit
<1>25. CASE ResetRound
  <2>1. lives' \in -1 .. MaxZombieLives
    BY <1>25, StartingLives DEF ResetRound, ResetVolunteers, RestartRound
  <2>2. rounds' \in Nat \ {0}
    BY <1>25 DEF ResetRound, ResetVolunteers, RestartRound
  <2>3. locked' \in [Slots -> BOOLEAN] /\ roundState' \in RoundStates
    BY <1>25 DEF ResetRound, ResetVolunteers, RestartRound, SetRoundState, RoundLocks
  <2>4. /\ dead' \in [Slots -> BOOLEAN] /\ welcome' \in [Slots -> BOOLEAN]
        /\ connected' \in [Slots -> BOOLEAN]
    BY <1>25 DEF ResetRound, ResetVolunteers, RestartRound
  <2> QED
    BY <1>25, <2>1, <2>2, <2>3, <2>4 DEF ResetRound, ResetVolunteers, RestartRound
<1>26. CASE GameEnd
  BY <1>26 DEF GameEnd
<1>27. CASE Intermission
  BY <1>27 DEF Intermission
<1>28. ASSUME NEW t \in Timers, Elapse(t) PROVE TypeOK'
  BY <1>28 DEF Elapse
<1>29. CASE UNCHANGED vars
  BY <1>29
<1> HIDE DEF TypeOK, vars, roundVars, rulesVars, playerVars, RoundStates, Teams, Timers
<1>q. QED
  BY <1>1, <1>2, <1>3, <1>4, <1>5, <1>6, <1>7, <1>8, <1>9, <1>10, <1>11, <1>12, <1>13, <1>14, <1>15, <1>16, <1>17, <1>18, <1>19, <1>20, <1>21, <1>22, <1>23, <1>24, <1>25, <1>26, <1>27, <1>28, <1>29 DEF Next, Client, Think

\* A map that has just been loaded is well typed.
LEMMA TypeInit == Init => TypeOK
<1> SUFFICES ASSUME Init PROVE TypeOK
  OBVIOUS
<1>1. lives \in -1 .. MaxZombieLives
  BY StartingLives, ConstantsAssumption DEF Init
<1>2. rounds \in Nat \ {0}
  BY DEF Init
<1>3. /\ connected \in [Slots -> BOOLEAN] /\ team \in [Slots -> Teams]
      /\ dead \in [Slots -> BOOLEAN] /\ observer \in [Slots -> BOOLEAN]
      /\ welcome \in [Slots -> BOOLEAN] /\ noLives \in [Slots -> BOOLEAN]
      /\ escaped \in [Slots -> BOOLEAN] /\ locked \in [Slots -> BOOLEAN]
  BY DEF Init, Vacant, Teams
<1> QED
  BY <1>1, <1>2, <1>3 DEF Init, TypeOK, RoundStates, Timers

\* Every variable keeps its type, for any number of slots.
THEOREM TypeCorrect == Spec => []TypeOK
  BY TypeInit, TypeStep, PTL DEF Spec

-----------------------------------------------------------------------------
(* Free slots *)

\* Whatever a client was, its slot is blank when it is gone
FreeSlots ==
  \A p \in Slots : ~connected[p] => dead[p] /\ team[p] = "OBSERVER" /\ ~observer[p]
                                     /\ ~welcome[p] /\ ~noLives[p] /\ ~escaped[p]

\* The pick draws connected clients, volunteers or living survivors
LEMMA PicksConnected ==
  ASSUME NEW zs \in Picks, NEW z \in zs
  PROVE  /\ z \in Slots => connected[z]
         /\ z \in volunteers \/ z \in Living("SURVIVIOR")
  BY DEF Picks, ThePick!Outcomes, ThePick!Pool, ThePick!First, Living, OnTeam

\* Leaving a slot empties it, and no action touches a slot without a client.
LEMMA FreeSlotsStep == TypeOK /\ FreeSlots /\ [Next]_vars => FreeSlots'
<1> SUFFICES ASSUME TypeOK, FreeSlots, [Next]_vars PROVE FreeSlots'
  OBVIOUS
<1> USE DEF TypeOK, FreeSlots, vars, roundVars, rulesVars, playerVars
<1>1. ASSUME NEW p \in Slots, ClientPutInServer(p) PROVE FreeSlots'
  BY <1>1 DEF ClientPutInServer
<1>2. ASSUME NEW p \in Slots, InitHUD(p) PROVE FreeSlots'
  BY <1>2 DEF InitHUD
<1>3. ASSUME NEW p \in Slots, ClientDisconnect(p) PROVE FreeSlots'
  BY <1>3 DEF ClientDisconnect
<1>4. ASSUME NEW p \in Slots, JoinGameRefused(p) PROVE FreeSlots'
  BY <1>4 DEF JoinGameRefused, StartObserver, MayJoin
<1>5. ASSUME NEW p \in Slots, NEW v \in BOOLEAN, JoinGame(p, v) PROVE FreeSlots'
  BY <1>5 DEF JoinGame, Spawn, RoundLocks, MayJoin
<1>6. ASSUME NEW p \in Slots, Spectate(p) PROVE FreeSlots'
  BY <1>6 DEF Spectate, StartObserver
<1>7. ASSUME NEW p \in Slots, OpenTeamMenu(p) PROVE FreeSlots'
  BY <1>7 DEF OpenTeamMenu
<1>8. ASSUME NEW p \in Slots, WelcomeCamAttack(p) PROVE FreeSlots'
  BY <1>8 DEF WelcomeCamAttack, Spawn, RoundLocks
<1>9. ASSUME NEW p \in Slots, DieByWorld(p) PROVE FreeSlots'
  BY <1>9 DEF DieByWorld, Killed, CanTakeDamage
<1>10. ASSUME NEW p \in Slots, NEW k \in Slots, DieByPlayer(p, k) PROVE FreeSlots'
  BY <1>10 DEF DieByPlayer, Killed, CanTakeDamage
<1>11. ASSUME NEW p \in Slots, Suicide(p) PROVE FreeSlots'
  BY <1>11 DEF Suicide, Killed
<1>12. ASSUME NEW p \in Slots, DeathThink(p) PROVE FreeSlots'
  BY <1>12 DEF DeathThink, StartObserver, Spawn, RoundLocks
<1>13. ASSUME NEW p \in Slots, Escape(p) PROVE FreeSlots'
  BY <1>13 DEF Escape, StartObserver, Living, OnTeam
<1>14. CASE ThinkWaiting
  BY <1>14 DEF ThinkWaiting, SetRoundState, RoundLocks
<1>15. CASE ThinkStarting
  <2>1. PICK zs \in Picks :
          /\ team' = [p \in Slots |-> IF p \in zs THEN "ZOMBIE" ELSE team[p]]
          /\ dead' = [p \in Slots |-> dead[p] /\ p \notin zs]
    BY <1>15 DEF ThinkStarting
  <2>2. \A p \in Slots : p \in zs => connected[p]
    BY PicksConnected
  <2> QED
    BY <1>15, <2>1, <2>2 DEF ThinkStarting
<1>16. CASE ThinkPicked
  BY <1>16 DEF ThinkPicked, SetRoundState, RoundLocks
<1>17. CASE ThinkBegunPost
  BY <1>17 DEF ThinkBegunPost, SetRoundState, RoundLocks
<1>18. CASE ThinkBegun
  BY <1>18 DEF ThinkBegun, JudgeRound
<1>19. ASSUME NEW p \in Slots, DraftZombie(p) PROVE FreeSlots'
  BY <1>19 DEF DraftZombie, JudgeRound, Spawn, RoundLocks, OnTeam
<1>20. CASE DraftNobody
  BY <1>20 DEF DraftNobody
<1>21. CASE ThinkRoundOver
  BY <1>21 DEF ThinkRoundOver, SetRoundState, RoundLocks
<1>22. CASE ThinkRoundOverWait
  BY <1>22 DEF ThinkRoundOverWait, SetRoundState, RoundLocks
<1>23. CASE ThinkRoundLimit
  BY <1>23 DEF ThinkRoundLimit, SetRoundState, ResetVolunteers, RoundLocks
<1>24. CASE ThinkTimeLimit
  BY <1>24 DEF ThinkTimeLimit
<1>25. CASE ResetRound
  BY <1>25 DEF ResetRound, SetRoundState, ResetVolunteers, RestartRound, RoundLocks
<1>26. CASE GameEnd
  BY <1>26 DEF GameEnd
<1>27. CASE Intermission
  BY <1>27 DEF Intermission
<1>28. ASSUME NEW t \in Timers, Elapse(t) PROVE FreeSlots'
  BY <1>28 DEF Elapse
<1>29. CASE UNCHANGED vars
  BY <1>29
<1> HIDE DEF TypeOK, FreeSlots, vars, roundVars, rulesVars, playerVars
<1>q. QED
  BY <1>1, <1>2, <1>3, <1>4, <1>5, <1>6, <1>7, <1>8, <1>9, <1>10, <1>11, <1>12, <1>13, <1>14, <1>15, <1>16, <1>17, <1>18, <1>19, <1>20, <1>21, <1>22, <1>23, <1>24, <1>25, <1>26, <1>27, <1>28, <1>29 DEF Next, Client, Think

\* A free slot holds nothing of the client it had.
LEMMA FreeSlotsInvariant == Spec => []FreeSlots
<1>1. Init => FreeSlots
  BY DEF Init, Vacant, FreeSlots
<1> QED
  BY <1>1, TypeCorrect, FreeSlotsStep, PTL DEF Spec

-----------------------------------------------------------------------------
(* The flags of the round *)

\* What is true of the round's own variables, phase by phase.  A verdict in progress
\* means RoundIsOver; before the round starts nothing has been decided, nobody has
\* escaped or run out of lives, and there are lives to start with.
RoundFlags ==
  /\ restarting => roundState = "RoundIsOver"
  /\ PickedOncePerRound
  /\ Mode = "objective" => lives = -1
  /\ roundState \in BeforeTheRound =>
       /\ ~allDead /\ leftMidRound = {} /\ (Mode = "survival" => lives > 0)
       /\ \A p \in Slots : ~noLives[p] /\ ~escaped[p]

\* Every step keeps the round's own variables consistent with its state: one case
\* per action.
LEMMA RoundFlagsStep == TypeOK /\ RoundFlags /\ [Next]_vars => RoundFlags'
<1> SUFFICES ASSUME TypeOK, RoundFlags, [Next]_vars PROVE RoundFlags'
  OBVIOUS
<1> USE DEF TypeOK, RoundFlags, PickedOncePerRound, BeforeTheRound, RoundStates, vars, roundVars, rulesVars, playerVars
<1>1. ASSUME NEW p \in Slots, ClientPutInServer(p) PROVE RoundFlags'
  BY <1>1 DEF ClientPutInServer
<1>2. ASSUME NEW p \in Slots, InitHUD(p) PROVE RoundFlags'
  BY <1>2 DEF InitHUD
<1>3. ASSUME NEW p \in Slots, ClientDisconnect(p) PROVE RoundFlags'
  BY <1>3 DEF ClientDisconnect
<1>4. ASSUME NEW p \in Slots, JoinGameRefused(p) PROVE RoundFlags'
  BY <1>4 DEF JoinGameRefused, StartObserver
<1>5. ASSUME NEW p \in Slots, NEW v \in BOOLEAN, JoinGame(p, v) PROVE RoundFlags'
  BY <1>5 DEF JoinGame, Spawn
<1>6. ASSUME NEW p \in Slots, Spectate(p) PROVE RoundFlags'
  BY <1>6 DEF Spectate, StartObserver
<1>7. ASSUME NEW p \in Slots, OpenTeamMenu(p) PROVE RoundFlags'
  BY <1>7 DEF OpenTeamMenu
<1>8. ASSUME NEW p \in Slots, WelcomeCamAttack(p) PROVE RoundFlags'
  BY <1>8 DEF WelcomeCamAttack, Spawn
<1>9. ASSUME NEW p \in Slots, DieByWorld(p) PROVE RoundFlags'
  BY <1>9, ConstantsAssumption DEF DieByWorld, Killed, CanTakeDamage
<1>10. ASSUME NEW p \in Slots, NEW k \in Slots, DieByPlayer(p, k) PROVE RoundFlags'
  BY <1>10 DEF DieByPlayer, Killed, InMotion
<1>11. ASSUME NEW p \in Slots, Suicide(p) PROVE RoundFlags'
  BY <1>11 DEF Suicide, Killed
<1>12. ASSUME NEW p \in Slots, DeathThink(p) PROVE RoundFlags'
  BY <1>12 DEF DeathThink, StartObserver, Spawn
<1>13. ASSUME NEW p \in Slots, Escape(p) PROVE RoundFlags'
  BY <1>13 DEF Escape, StartObserver, InMotion
<1>14. CASE ThinkWaiting
  BY <1>14 DEF ThinkWaiting, SetRoundState
<1>15. CASE ThinkStarting
  BY <1>15 DEF ThinkStarting, SetRoundState
<1>16. CASE ThinkPicked
  <2> DEFINE players == Cardinality({p \in Slots : connected[p]})
  <2>1. players \in Nat
    BY PlayersBounded, ConstantsAssumption
  <2> HIDE DEF players
  <2>2. lives' = IF Mode = "survival" /\ players > lives THEN players ELSE lives
    BY <1>16 DEF ThinkPicked, players
  <2>3. /\ Mode = "objective" => lives' = -1
        /\ Mode = "survival" /\ lives > 0 => lives' > 0
    BY <2>1, <2>2, ConstantsAssumption
  <2> QED
    BY <1>16, <2>3 DEF ThinkPicked, SetRoundState
<1>17. CASE ThinkBegunPost
  BY <1>17, ConstantsAssumption DEF ThinkBegunPost, SetRoundState
<1>18. CASE ThinkBegun
  BY <1>18 DEF ThinkBegun, JudgeRound
<1>19. ASSUME NEW p \in Slots, DraftZombie(p) PROVE RoundFlags'
  BY <1>19 DEF DraftZombie, JudgeRound, Spawn
<1>20. CASE DraftNobody
  BY <1>20 DEF DraftNobody
<1>21. CASE ThinkRoundOver
  BY <1>21 DEF ThinkRoundOver, SetRoundState
<1>22. CASE ThinkRoundOverWait
  BY <1>22 DEF ThinkRoundOverWait, SetRoundState
<1>23. CASE ThinkRoundLimit
  BY <1>23 DEF ThinkRoundLimit, SetRoundState, ResetVolunteers
<1>24. CASE ThinkTimeLimit
  BY <1>24 DEF ThinkTimeLimit
<1>25. CASE ResetRound
  BY <1>25, ConstantsAssumption DEF ResetRound, SetRoundState, ResetVolunteers, RestartRound
<1>26. CASE GameEnd
  BY <1>26 DEF GameEnd
<1>27. CASE Intermission
  BY <1>27 DEF Intermission
<1>28. ASSUME NEW t \in Timers, Elapse(t) PROVE RoundFlags'
  BY <1>28 DEF Elapse
<1>29. CASE UNCHANGED vars
  BY <1>29
<1> HIDE DEF TypeOK, RoundFlags, PickedOncePerRound, BeforeTheRound, RoundStates, vars, roundVars, rulesVars, playerVars
<1>q. QED
  BY <1>1, <1>2, <1>3, <1>4, <1>5, <1>6, <1>7, <1>8, <1>9, <1>10, <1>11, <1>12, <1>13, <1>14, <1>15, <1>16, <1>17, <1>18, <1>19, <1>20, <1>21, <1>22, <1>23, <1>24, <1>25, <1>26, <1>27, <1>28, <1>29 DEF Next, Client, Think

\* The round's own variables are consistent with its state throughout.
LEMMA RoundFlagsInvariant == Spec => []RoundFlags
<1>1. Init => RoundFlags
  BY ConstantsAssumption DEF Init, Vacant, RoundFlags, PickedOncePerRound, BeforeTheRound, RoundStates
<1> QED
  BY <1>1, TypeCorrect, RoundFlagsStep, PTL DEF Spec

\* Nothing of the last round is left when the next one is being prepared.
THEOREM FlagsAreRoundScoped == Spec => []RoundScopedFlags
<1>1. RoundFlags => RoundScopedFlags
  BY ConstantsAssumption DEF RoundFlags, RoundScopedFlags, BeforeTheRound, RoundStates
<1> QED
  BY <1>1, RoundFlagsInvariant, PTL

-----------------------------------------------------------------------------
(* The input lock *)

\* Every spawn, death, team change and round change leaves the input lock right.
LEMMA LockStep == TypeOK /\ FreeSlots /\ RoundLockMatchesRound /\ [Next]_vars => RoundLockMatchesRound'
<1> SUFFICES ASSUME TypeOK, FreeSlots, RoundLockMatchesRound, [Next]_vars PROVE RoundLockMatchesRound'
  OBVIOUS
<1> USE DEF TypeOK, FreeSlots, RoundLockMatchesRound, RoundLocks, vars, roundVars, rulesVars, playerVars
<1>1. ASSUME NEW p \in Slots, ClientPutInServer(p) PROVE RoundLockMatchesRound'
  BY <1>1 DEF ClientPutInServer
<1>2. ASSUME NEW p \in Slots, InitHUD(p) PROVE RoundLockMatchesRound'
  BY <1>2 DEF InitHUD
<1>3. ASSUME NEW p \in Slots, ClientDisconnect(p) PROVE RoundLockMatchesRound'
  BY <1>3 DEF ClientDisconnect
<1>4. ASSUME NEW p \in Slots, JoinGameRefused(p) PROVE RoundLockMatchesRound'
  BY <1>4 DEF JoinGameRefused, StartObserver
<1>5. ASSUME NEW p \in Slots, NEW v \in BOOLEAN, JoinGame(p, v) PROVE RoundLockMatchesRound'
  BY <1>5 DEF JoinGame, Spawn
<1>6. ASSUME NEW p \in Slots, Spectate(p) PROVE RoundLockMatchesRound'
  BY <1>6 DEF Spectate, StartObserver
<1>7. ASSUME NEW p \in Slots, OpenTeamMenu(p) PROVE RoundLockMatchesRound'
  BY <1>7 DEF OpenTeamMenu
<1>8. ASSUME NEW p \in Slots, WelcomeCamAttack(p) PROVE RoundLockMatchesRound'
  BY <1>8 DEF WelcomeCamAttack, Spawn
<1>9. ASSUME NEW p \in Slots, DieByWorld(p) PROVE RoundLockMatchesRound'
  BY <1>9 DEF DieByWorld, Killed
<1>10. ASSUME NEW p \in Slots, NEW k \in Slots, DieByPlayer(p, k) PROVE RoundLockMatchesRound'
  BY <1>10 DEF DieByPlayer, Killed
<1>11. ASSUME NEW p \in Slots, Suicide(p) PROVE RoundLockMatchesRound'
  BY <1>11 DEF Suicide, Killed
<1>12. ASSUME NEW p \in Slots, DeathThink(p) PROVE RoundLockMatchesRound'
  <2>1. CASE noLives[p]
    <3>1. /\ team' = [team EXCEPT ![p] = "OBSERVER"]
          /\ StartObserver(p)
          /\ UNCHANGED <<roundVars, rulesVars, timers, connected, noLives, escaped>>
      BY <1>12, <2>1, Zenon DEF DeathThink
    <3> QED
      BY <3>1 DEF StartObserver
  <2>2. CASE ~noLives[p]
    <3>1. /\ team' = [team EXCEPT ![p] = "ZOMBIE"]
          /\ UNCHANGED <<observer, welcome>> /\ Spawn(p)
          /\ UNCHANGED <<roundVars, rulesVars, timers, connected, noLives, escaped>>
      BY <1>12, <2>2, Zenon DEF DeathThink
    <3> QED
      BY <3>1 DEF Spawn
  <2> QED
    BY <2>1, <2>2
<1>13. ASSUME NEW p \in Slots, Escape(p) PROVE RoundLockMatchesRound'
  BY <1>13 DEF Escape, StartObserver
<1>14. CASE ThinkWaiting
  BY <1>14 DEF ThinkWaiting, SetRoundState
<1>15. CASE ThinkStarting
  BY <1>15 DEF ThinkStarting, SetRoundState
<1>16. CASE ThinkPicked
  BY <1>16 DEF ThinkPicked, SetRoundState
<1>17. CASE ThinkBegunPost
  BY <1>17 DEF ThinkBegunPost, SetRoundState
<1>18. CASE ThinkBegun
  BY <1>18 DEF ThinkBegun, JudgeRound
<1>19. ASSUME NEW p \in Slots, DraftZombie(p) PROVE RoundLockMatchesRound'
  BY <1>19 DEF DraftZombie, JudgeRound, Spawn
<1>20. CASE DraftNobody
  BY <1>20 DEF DraftNobody
<1>21. CASE ThinkRoundOver
  BY <1>21 DEF ThinkRoundOver, SetRoundState
<1>22. CASE ThinkRoundOverWait
  BY <1>22 DEF ThinkRoundOverWait, SetRoundState
<1>23. CASE ThinkRoundLimit
  BY <1>23 DEF ThinkRoundLimit, SetRoundState, ResetVolunteers
<1>24. CASE ThinkTimeLimit
  BY <1>24 DEF ThinkTimeLimit
<1>25. CASE ResetRound
  BY <1>25 DEF ResetRound, SetRoundState, ResetVolunteers, RestartRound
<1>26. CASE GameEnd
  BY <1>26 DEF GameEnd
<1>27. CASE Intermission
  BY <1>27 DEF Intermission
<1>28. ASSUME NEW t \in Timers, Elapse(t) PROVE RoundLockMatchesRound'
  BY <1>28 DEF Elapse
<1>29. CASE UNCHANGED vars
  BY <1>29
<1> HIDE DEF TypeOK, FreeSlots, RoundLockMatchesRound, RoundLocks, vars, roundVars, rulesVars, playerVars
<1>q. QED
  BY <1>1, <1>2, <1>3, <1>4, <1>5, <1>6, <1>7, <1>8, <1>9, <1>10, <1>11, <1>12, <1>13, <1>14, <1>15, <1>16, <1>17, <1>18, <1>19, <1>20, <1>21, <1>22, <1>23, <1>24, <1>25, <1>26, <1>27, <1>28, <1>29 DEF Next, Client, Think

\* A living player's input is locked exactly while the rules say so.
THEOREM LockMatchesRound == Spec => []RoundLockMatchesRound
<1>1. Init => RoundLockMatchesRound
  BY DEF Init, Vacant, RoundLockMatchesRound
<1> QED
  BY <1>1, TypeCorrect, FreeSlotsInvariant, LockStep, PTL DEF Spec

-----------------------------------------------------------------------------
(* The welcome cam, and who may join a running round *)

\* Who is in the welcome cam is no survivor: the cam is entered from the observer
\* team and left by joining; only the pick changes the team of somebody in it.
CamIsNotPlay == \A p \in Slots : welcome[p] => team[p] # "SURVIVIOR"

\* No step puts a survivor into the welcome cam.
LEMMA CamStep == TypeOK /\ FreeSlots /\ CamIsNotPlay /\ [Next]_vars => CamIsNotPlay'
<1> SUFFICES ASSUME TypeOK, FreeSlots, CamIsNotPlay, [Next]_vars PROVE CamIsNotPlay'
  OBVIOUS
<1> USE DEF TypeOK, FreeSlots, CamIsNotPlay, vars, roundVars, rulesVars, playerVars
<1>1. ASSUME NEW p \in Slots, ClientPutInServer(p) PROVE CamIsNotPlay'
  BY <1>1 DEF ClientPutInServer
<1>2. ASSUME NEW p \in Slots, InitHUD(p) PROVE CamIsNotPlay'
  BY <1>2 DEF InitHUD
<1>3. ASSUME NEW p \in Slots, ClientDisconnect(p) PROVE CamIsNotPlay'
  BY <1>3 DEF ClientDisconnect
<1>4. ASSUME NEW p \in Slots, JoinGameRefused(p) PROVE CamIsNotPlay'
  BY <1>4 DEF JoinGameRefused, StartObserver
<1>5. ASSUME NEW p \in Slots, NEW v \in BOOLEAN, JoinGame(p, v) PROVE CamIsNotPlay'
  BY <1>5 DEF JoinGame, Spawn
<1>6. ASSUME NEW p \in Slots, Spectate(p) PROVE CamIsNotPlay'
  BY <1>6 DEF Spectate, StartObserver
<1>7. ASSUME NEW p \in Slots, OpenTeamMenu(p) PROVE CamIsNotPlay'
  BY <1>7 DEF OpenTeamMenu
<1>8. ASSUME NEW p \in Slots, WelcomeCamAttack(p) PROVE CamIsNotPlay'
  BY <1>8 DEF WelcomeCamAttack, Spawn
<1>9. ASSUME NEW p \in Slots, DieByWorld(p) PROVE CamIsNotPlay'
  BY <1>9 DEF DieByWorld, Killed
<1>10. ASSUME NEW p \in Slots, NEW k \in Slots, DieByPlayer(p, k) PROVE CamIsNotPlay'
  BY <1>10 DEF DieByPlayer, Killed
<1>11. ASSUME NEW p \in Slots, Suicide(p) PROVE CamIsNotPlay'
  BY <1>11 DEF Suicide, Killed
<1>12. ASSUME NEW p \in Slots, DeathThink(p) PROVE CamIsNotPlay'
  BY <1>12 DEF DeathThink, StartObserver, Spawn
<1>13. ASSUME NEW p \in Slots, Escape(p) PROVE CamIsNotPlay'
  BY <1>13 DEF Escape, StartObserver
<1>14. CASE ThinkWaiting
  BY <1>14 DEF ThinkWaiting, SetRoundState
<1>15. CASE ThinkStarting
  BY <1>15 DEF ThinkStarting, SetRoundState
<1>16. CASE ThinkPicked
  BY <1>16 DEF ThinkPicked, SetRoundState
<1>17. CASE ThinkBegunPost
  BY <1>17 DEF ThinkBegunPost, SetRoundState
<1>18. CASE ThinkBegun
  BY <1>18 DEF ThinkBegun, JudgeRound
<1>19. ASSUME NEW p \in Slots, DraftZombie(p) PROVE CamIsNotPlay'
  BY <1>19 DEF DraftZombie, JudgeRound, Spawn
<1>20. CASE DraftNobody
  BY <1>20 DEF DraftNobody
<1>21. CASE ThinkRoundOver
  BY <1>21 DEF ThinkRoundOver, SetRoundState
<1>22. CASE ThinkRoundOverWait
  BY <1>22 DEF ThinkRoundOverWait, SetRoundState
<1>23. CASE ThinkRoundLimit
  BY <1>23 DEF ThinkRoundLimit, SetRoundState, ResetVolunteers
<1>24. CASE ThinkTimeLimit
  BY <1>24 DEF ThinkTimeLimit
<1>25. CASE ResetRound
  BY <1>25 DEF ResetRound, SetRoundState, ResetVolunteers, RestartRound
<1>26. CASE GameEnd
  BY <1>26 DEF GameEnd
<1>27. CASE Intermission
  BY <1>27 DEF Intermission
<1>28. ASSUME NEW t \in Timers, Elapse(t) PROVE CamIsNotPlay'
  BY <1>28 DEF Elapse
<1>29. CASE UNCHANGED vars
  BY <1>29
<1> HIDE DEF TypeOK, FreeSlots, CamIsNotPlay, vars, roundVars, rulesVars, playerVars
<1>q. QED
  BY <1>1, <1>2, <1>3, <1>4, <1>5, <1>6, <1>7, <1>8, <1>9, <1>10, <1>11, <1>12, <1>13, <1>14, <1>15, <1>16, <1>17, <1>18, <1>19, <1>20, <1>21, <1>22, <1>23, <1>24, <1>25, <1>26, <1>27, <1>28, <1>29 DEF Next, Client, Think

\* Nobody in the welcome cam is a survivor.
LEMMA CamInvariant == Spec => []CamIsNotPlay
<1>1. Init => CamIsNotPlay
  BY DEF Init, Vacant, CamIsNotPlay
<1> QED
  BY <1>1, TypeCorrect, FreeSlotsInvariant, CamStep, PTL DEF Spec

\* Among the steps of a running round, only "joingame" makes somebody a survivor in
\* play, and it asks for the first 20 seconds and for the list of those who left.
LEMMA JoinStep == TypeOK /\ FreeSlots /\ CamIsNotPlay /\ [Next]_vars =>
        \A p \in Slots : JoinsTheRound(p) => "RoundJustBegun" \in timers /\ p \notin leftMidRound
<1> DEFINE NoLateJoin == \A q \in Slots :
                JoinsTheRound(q) => "RoundJustBegun" \in timers /\ q \notin leftMidRound
<1> SUFFICES ASSUME TypeOK, FreeSlots, CamIsNotPlay, [Next]_vars PROVE NoLateJoin
  OBVIOUS
<1> USE DEF TypeOK, FreeSlots, CamIsNotPlay, JoinsTheRound, InPlay, vars, roundVars, rulesVars, playerVars
<1>1. ASSUME NEW p \in Slots, ClientPutInServer(p) PROVE NoLateJoin
  BY <1>1 DEF ClientPutInServer
<1>2. ASSUME NEW p \in Slots, InitHUD(p) PROVE NoLateJoin
  BY <1>2 DEF InitHUD
<1>3. ASSUME NEW p \in Slots, ClientDisconnect(p) PROVE NoLateJoin
  BY <1>3 DEF ClientDisconnect
<1>4. ASSUME NEW p \in Slots, JoinGameRefused(p) PROVE NoLateJoin
  BY <1>4 DEF JoinGameRefused, StartObserver
<1>5. ASSUME NEW p \in Slots, NEW v \in BOOLEAN, JoinGame(p, v) PROVE NoLateJoin
  BY <1>5 DEF JoinGame, Spawn, JoinsAsZombie
<1>6. ASSUME NEW p \in Slots, Spectate(p) PROVE NoLateJoin
  BY <1>6 DEF Spectate, StartObserver
<1>7. ASSUME NEW p \in Slots, OpenTeamMenu(p) PROVE NoLateJoin
  BY <1>7 DEF OpenTeamMenu
<1>8. ASSUME NEW p \in Slots, WelcomeCamAttack(p) PROVE NoLateJoin
  BY <1>8 DEF WelcomeCamAttack, Spawn
<1>9. ASSUME NEW p \in Slots, DieByWorld(p) PROVE NoLateJoin
  BY <1>9 DEF DieByWorld, Killed
<1>10. ASSUME NEW p \in Slots, NEW k \in Slots, DieByPlayer(p, k) PROVE NoLateJoin
  BY <1>10 DEF DieByPlayer, Killed
<1>11. ASSUME NEW p \in Slots, Suicide(p) PROVE NoLateJoin
  BY <1>11 DEF Suicide, Killed
<1>12. ASSUME NEW p \in Slots, DeathThink(p) PROVE NoLateJoin
  BY <1>12 DEF DeathThink, StartObserver, Spawn
<1>13. ASSUME NEW p \in Slots, Escape(p) PROVE NoLateJoin
  BY <1>13 DEF Escape, StartObserver
<1>14. CASE ThinkWaiting
  BY <1>14 DEF ThinkWaiting, SetRoundState
<1>15. CASE ThinkStarting
  BY <1>15 DEF ThinkStarting, SetRoundState
<1>16. CASE ThinkPicked
  BY <1>16 DEF ThinkPicked, SetRoundState
<1>17. CASE ThinkBegunPost
  BY <1>17 DEF ThinkBegunPost, SetRoundState
<1>18. CASE ThinkBegun
  BY <1>18 DEF ThinkBegun, JudgeRound
<1>19. ASSUME NEW p \in Slots, DraftZombie(p) PROVE NoLateJoin
  BY <1>19 DEF DraftZombie, JudgeRound, Spawn
<1>20. CASE DraftNobody
  BY <1>20 DEF DraftNobody
<1>21. CASE ThinkRoundOver
  BY <1>21 DEF ThinkRoundOver, SetRoundState
<1>22. CASE ThinkRoundOverWait
  BY <1>22 DEF ThinkRoundOverWait, SetRoundState
<1>23. CASE ThinkRoundLimit
  BY <1>23 DEF ThinkRoundLimit, SetRoundState, ResetVolunteers
<1>24. CASE ThinkTimeLimit
  BY <1>24 DEF ThinkTimeLimit
<1>25. CASE ResetRound
  BY <1>25 DEF ResetRound, SetRoundState, ResetVolunteers, RestartRound
<1>26. CASE GameEnd
  BY <1>26 DEF GameEnd
<1>27. CASE Intermission
  BY <1>27 DEF Intermission
<1>28. ASSUME NEW t \in Timers, Elapse(t) PROVE NoLateJoin
  BY <1>28 DEF Elapse
<1>29. CASE UNCHANGED vars
  BY <1>29
<1> HIDE DEF TypeOK, FreeSlots, CamIsNotPlay, JoinsTheRound, InPlay, vars, roundVars, rulesVars, playerVars
<1>q. QED
  BY <1>1, <1>2, <1>3, <1>4, <1>5, <1>6, <1>7, <1>8, <1>9, <1>10, <1>11, <1>12, <1>13, <1>14, <1>15, <1>16, <1>17, <1>18, <1>19, <1>20, <1>21, <1>22, <1>23, <1>24, <1>25, <1>26, <1>27, <1>28, <1>29 DEF Next, Client, Think

\* While the round runs nobody becomes a survivor after its first 20 seconds, nor
\* earlier from a slot whose client left this round.
THEOREM LateJoinersAreZombies == Spec => NoLateSurvivors
  BY TypeCorrect, FreeSlotsInvariant, CamInvariant, JoinStep, PTL DEF Spec, NoLateSurvivors

-----------------------------------------------------------------------------
(* Escapes *)

\* EscapedWatches, with the two facts that keep every command of an escaped player out
EscapedStaysOut ==
  \A p \in Slots : escaped[p] => observer[p] /\ ~welcome[p] /\ team[p] # "OBSERVER"

\* No command, death or draft takes a player who escaped out of the observer mode.
LEMMA EscapeStep == TypeOK /\ FreeSlots /\ EscapedStaysOut /\ [Next]_vars => EscapedStaysOut'
<1> SUFFICES ASSUME TypeOK, FreeSlots, EscapedStaysOut, [Next]_vars PROVE EscapedStaysOut'
  OBVIOUS
<1> USE DEF TypeOK, FreeSlots, EscapedStaysOut, vars, roundVars, rulesVars, playerVars
<1>1. ASSUME NEW p \in Slots, ClientPutInServer(p) PROVE EscapedStaysOut'
  BY <1>1 DEF ClientPutInServer
<1>2. ASSUME NEW p \in Slots, InitHUD(p) PROVE EscapedStaysOut'
  BY <1>2 DEF InitHUD
<1>3. ASSUME NEW p \in Slots, ClientDisconnect(p) PROVE EscapedStaysOut'
  BY <1>3 DEF ClientDisconnect
<1>4. ASSUME NEW p \in Slots, JoinGameRefused(p) PROVE EscapedStaysOut'
  BY <1>4 DEF JoinGameRefused, StartObserver, MayJoin
<1>5. ASSUME NEW p \in Slots, NEW v \in BOOLEAN, JoinGame(p, v) PROVE EscapedStaysOut'
  BY <1>5 DEF JoinGame, Spawn, MayJoin
<1>6. ASSUME NEW p \in Slots, Spectate(p) PROVE EscapedStaysOut'
  BY <1>6 DEF Spectate, StartObserver
<1>7. ASSUME NEW p \in Slots, OpenTeamMenu(p) PROVE EscapedStaysOut'
  BY <1>7 DEF OpenTeamMenu
<1>8. ASSUME NEW p \in Slots, WelcomeCamAttack(p) PROVE EscapedStaysOut'
  BY <1>8 DEF WelcomeCamAttack, Spawn
<1>9. ASSUME NEW p \in Slots, DieByWorld(p) PROVE EscapedStaysOut'
  BY <1>9 DEF DieByWorld, Killed
<1>10. ASSUME NEW p \in Slots, NEW k \in Slots, DieByPlayer(p, k) PROVE EscapedStaysOut'
  BY <1>10 DEF DieByPlayer, Killed
<1>11. ASSUME NEW p \in Slots, Suicide(p) PROVE EscapedStaysOut'
  BY <1>11 DEF Suicide, Killed
<1>12. ASSUME NEW p \in Slots, DeathThink(p) PROVE EscapedStaysOut'
  BY <1>12 DEF DeathThink, StartObserver, Spawn
<1>13. ASSUME NEW p \in Slots, Escape(p) PROVE EscapedStaysOut'
  BY <1>13 DEF Escape, StartObserver, Living, OnTeam
<1>14. CASE ThinkWaiting
  BY <1>14 DEF ThinkWaiting, SetRoundState
<1>15. CASE ThinkStarting
  BY <1>15 DEF ThinkStarting, SetRoundState
<1>16. CASE ThinkPicked
  BY <1>16 DEF ThinkPicked, SetRoundState
<1>17. CASE ThinkBegunPost
  BY <1>17 DEF ThinkBegunPost, SetRoundState
<1>18. CASE ThinkBegun
  BY <1>18 DEF ThinkBegun, JudgeRound
<1>19. ASSUME NEW p \in Slots, DraftZombie(p) PROVE EscapedStaysOut'
  BY <1>19 DEF DraftZombie, JudgeRound, Spawn
<1>20. CASE DraftNobody
  BY <1>20 DEF DraftNobody
<1>21. CASE ThinkRoundOver
  BY <1>21 DEF ThinkRoundOver, SetRoundState
<1>22. CASE ThinkRoundOverWait
  BY <1>22 DEF ThinkRoundOverWait, SetRoundState
<1>23. CASE ThinkRoundLimit
  BY <1>23 DEF ThinkRoundLimit, SetRoundState, ResetVolunteers
<1>24. CASE ThinkTimeLimit
  BY <1>24 DEF ThinkTimeLimit
<1>25. CASE ResetRound
  BY <1>25 DEF ResetRound, SetRoundState, ResetVolunteers, RestartRound
<1>26. CASE GameEnd
  BY <1>26 DEF GameEnd
<1>27. CASE Intermission
  BY <1>27 DEF Intermission
<1>28. ASSUME NEW t \in Timers, Elapse(t) PROVE EscapedStaysOut'
  BY <1>28 DEF Elapse
<1>29. CASE UNCHANGED vars
  BY <1>29
<1> HIDE DEF TypeOK, FreeSlots, EscapedStaysOut, vars, roundVars, rulesVars, playerVars
<1>q. QED
  BY <1>1, <1>2, <1>3, <1>4, <1>5, <1>6, <1>7, <1>8, <1>9, <1>10, <1>11, <1>12, <1>13, <1>14, <1>15, <1>16, <1>17, <1>18, <1>19, <1>20, <1>21, <1>22, <1>23, <1>24, <1>25, <1>26, <1>27, <1>28, <1>29 DEF Next, Client, Think

\* Who escaped watches the rest of the round.
THEOREM EscapeIsFinal == Spec => []EscapedWatches
<1>1. Init => EscapedStaysOut
  BY DEF Init, Vacant, EscapedStaysOut
<1>2. EscapedStaysOut => EscapedWatches
  BY DEF EscapedStaysOut, EscapedWatches
<1> QED
  BY <1>1, <1>2, TypeCorrect, FreeSlotsInvariant, EscapeStep, PTL DEF Spec

\* On the survivor team only who escaped watches: every other way into the observer mode
\* starts on the observer team, or leads there.
WatchersEscaped == \A p \in Slots : team[p] = "SURVIVIOR" /\ observer[p] => escaped[p]

\* No step sends a survivor to watch who has not escaped.
LEMMA WatchersStep == TypeOK /\ FreeSlots /\ CamIsNotPlay /\ WatchersEscaped /\ [Next]_vars => WatchersEscaped'
<1> SUFFICES ASSUME TypeOK, FreeSlots, CamIsNotPlay, WatchersEscaped, [Next]_vars PROVE WatchersEscaped'
  OBVIOUS
<1> USE DEF TypeOK, FreeSlots, CamIsNotPlay, WatchersEscaped, vars, roundVars, rulesVars, playerVars
<1>1. ASSUME NEW p \in Slots, ClientPutInServer(p) PROVE WatchersEscaped'
  BY <1>1 DEF ClientPutInServer
<1>2. ASSUME NEW p \in Slots, InitHUD(p) PROVE WatchersEscaped'
  BY <1>2 DEF InitHUD
<1>3. ASSUME NEW p \in Slots, ClientDisconnect(p) PROVE WatchersEscaped'
  BY <1>3 DEF ClientDisconnect
<1>4. ASSUME NEW p \in Slots, JoinGameRefused(p) PROVE WatchersEscaped'
  BY <1>4 DEF JoinGameRefused, StartObserver, MayJoin
<1>5. ASSUME NEW p \in Slots, NEW v \in BOOLEAN, JoinGame(p, v) PROVE WatchersEscaped'
  BY <1>5 DEF JoinGame, Spawn, MayJoin
<1>6. ASSUME NEW p \in Slots, Spectate(p) PROVE WatchersEscaped'
  BY <1>6 DEF Spectate, StartObserver
<1>7. ASSUME NEW p \in Slots, OpenTeamMenu(p) PROVE WatchersEscaped'
  BY <1>7 DEF OpenTeamMenu
<1>8. ASSUME NEW p \in Slots, WelcomeCamAttack(p) PROVE WatchersEscaped'
  BY <1>8 DEF WelcomeCamAttack, Spawn
<1>9. ASSUME NEW p \in Slots, DieByWorld(p) PROVE WatchersEscaped'
  BY <1>9 DEF DieByWorld, Killed
<1>10. ASSUME NEW p \in Slots, NEW k \in Slots, DieByPlayer(p, k) PROVE WatchersEscaped'
  BY <1>10 DEF DieByPlayer, Killed
<1>11. ASSUME NEW p \in Slots, Suicide(p) PROVE WatchersEscaped'
  BY <1>11 DEF Suicide, Killed
<1>12. ASSUME NEW p \in Slots, DeathThink(p) PROVE WatchersEscaped'
  BY <1>12 DEF DeathThink, StartObserver, Spawn
<1>13. ASSUME NEW p \in Slots, Escape(p) PROVE WatchersEscaped'
  BY <1>13 DEF Escape, StartObserver, Living, OnTeam
<1>14. CASE ThinkWaiting
  BY <1>14 DEF ThinkWaiting, SetRoundState
<1>15. CASE ThinkStarting
  BY <1>15 DEF ThinkStarting, SetRoundState
<1>16. CASE ThinkPicked
  BY <1>16 DEF ThinkPicked, SetRoundState
<1>17. CASE ThinkBegunPost
  BY <1>17 DEF ThinkBegunPost, SetRoundState
<1>18. CASE ThinkBegun
  BY <1>18 DEF ThinkBegun, JudgeRound
<1>19. ASSUME NEW p \in Slots, DraftZombie(p) PROVE WatchersEscaped'
  BY <1>19 DEF DraftZombie, JudgeRound, Spawn
<1>20. CASE DraftNobody
  BY <1>20 DEF DraftNobody
<1>21. CASE ThinkRoundOver
  BY <1>21 DEF ThinkRoundOver, SetRoundState
<1>22. CASE ThinkRoundOverWait
  BY <1>22 DEF ThinkRoundOverWait, SetRoundState
<1>23. CASE ThinkRoundLimit
  BY <1>23 DEF ThinkRoundLimit, SetRoundState, ResetVolunteers
<1>24. CASE ThinkTimeLimit
  BY <1>24 DEF ThinkTimeLimit
<1>25. CASE ResetRound
  BY <1>25 DEF ResetRound, SetRoundState, ResetVolunteers, RestartRound
<1>26. CASE GameEnd
  BY <1>26 DEF GameEnd
<1>27. CASE Intermission
  BY <1>27 DEF Intermission
<1>28. ASSUME NEW t \in Timers, Elapse(t) PROVE WatchersEscaped'
  BY <1>28 DEF Elapse
<1>29. CASE UNCHANGED vars
  BY <1>29
<1> HIDE DEF TypeOK, FreeSlots, CamIsNotPlay, WatchersEscaped, vars, roundVars, rulesVars, playerVars
<1>q. QED
  BY <1>1, <1>2, <1>3, <1>4, <1>5, <1>6, <1>7, <1>8, <1>9, <1>10, <1>11, <1>12, <1>13, <1>14, <1>15, <1>16, <1>17, <1>18, <1>19, <1>20, <1>21, <1>22, <1>23, <1>24, <1>25, <1>26, <1>27, <1>28, <1>29 DEF Next, Client, Think

\* Who is on the survivor team and watches has escaped.
LEMMA WatchersInvariant == Spec => []WatchersEscaped
<1>1. Init => WatchersEscaped
  BY DEF Init, Vacant, WatchersEscaped
<1> QED
  BY <1>1, TypeCorrect, FreeSlotsInvariant, CamInvariant, WatchersStep, PTL DEF Spec

\* What OnlyTheEscapedMissOut says of one step
MissesOut == \E p \in Slots : team[p] = "SURVIVIOR" /\ team'[p] = "ZOMBIE" /\ observer'[p] /\ ~escaped[p]

\* No pick, draft or death makes a watching zombie of a player who has not escaped.
LEMMA MissOutStep == TypeOK /\ CamIsNotPlay /\ WatchersEscaped /\ [Next]_vars => ~MissesOut
<1> SUFFICES ASSUME TypeOK, CamIsNotPlay, WatchersEscaped, [Next]_vars PROVE ~MissesOut
  OBVIOUS
<1> USE DEF TypeOK, CamIsNotPlay, WatchersEscaped, MissesOut, vars, roundVars, rulesVars, playerVars
<1>1. ASSUME NEW p \in Slots, ClientPutInServer(p) PROVE ~MissesOut
  BY <1>1 DEF ClientPutInServer
<1>2. ASSUME NEW p \in Slots, InitHUD(p) PROVE ~MissesOut
  BY <1>2 DEF InitHUD
<1>3. ASSUME NEW p \in Slots, ClientDisconnect(p) PROVE ~MissesOut
  BY <1>3 DEF ClientDisconnect
<1>4. ASSUME NEW p \in Slots, JoinGameRefused(p) PROVE ~MissesOut
  BY <1>4 DEF JoinGameRefused, StartObserver, MayJoin
<1>5. ASSUME NEW p \in Slots, NEW v \in BOOLEAN, JoinGame(p, v) PROVE ~MissesOut
  BY <1>5 DEF JoinGame, Spawn, MayJoin
<1>6. ASSUME NEW p \in Slots, Spectate(p) PROVE ~MissesOut
  BY <1>6 DEF Spectate, StartObserver
<1>7. ASSUME NEW p \in Slots, OpenTeamMenu(p) PROVE ~MissesOut
  BY <1>7 DEF OpenTeamMenu
<1>8. ASSUME NEW p \in Slots, WelcomeCamAttack(p) PROVE ~MissesOut
  BY <1>8 DEF WelcomeCamAttack, Spawn
<1>9. ASSUME NEW p \in Slots, DieByWorld(p) PROVE ~MissesOut
  BY <1>9 DEF DieByWorld, Killed
<1>10. ASSUME NEW p \in Slots, NEW k \in Slots, DieByPlayer(p, k) PROVE ~MissesOut
  BY <1>10 DEF DieByPlayer, Killed
<1>11. ASSUME NEW p \in Slots, Suicide(p) PROVE ~MissesOut
  BY <1>11 DEF Suicide, Killed
<1>12. ASSUME NEW p \in Slots, DeathThink(p) PROVE ~MissesOut
  BY <1>12 DEF DeathThink, StartObserver, Spawn
<1>13. ASSUME NEW p \in Slots, Escape(p) PROVE ~MissesOut
  BY <1>13 DEF Escape, StartObserver
<1>14. CASE ThinkWaiting
  BY <1>14 DEF ThinkWaiting, SetRoundState
<1>15. CASE ThinkStarting
  BY <1>15 DEF ThinkStarting, SetRoundState
<1>16. CASE ThinkPicked
  BY <1>16 DEF ThinkPicked, SetRoundState
<1>17. CASE ThinkBegunPost
  BY <1>17 DEF ThinkBegunPost, SetRoundState
<1>18. CASE ThinkBegun
  BY <1>18 DEF ThinkBegun, JudgeRound
<1>19. ASSUME NEW p \in Slots, DraftZombie(p) PROVE ~MissesOut
  BY <1>19 DEF DraftZombie, JudgeRound, Spawn
<1>20. CASE DraftNobody
  BY <1>20 DEF DraftNobody
<1>21. CASE ThinkRoundOver
  BY <1>21 DEF ThinkRoundOver, SetRoundState
<1>22. CASE ThinkRoundOverWait
  BY <1>22 DEF ThinkRoundOverWait, SetRoundState
<1>23. CASE ThinkRoundLimit
  BY <1>23 DEF ThinkRoundLimit, SetRoundState, ResetVolunteers
<1>24. CASE ThinkTimeLimit
  BY <1>24 DEF ThinkTimeLimit
<1>25. CASE ResetRound
  BY <1>25 DEF ResetRound, SetRoundState, ResetVolunteers, RestartRound
<1>26. CASE GameEnd
  BY <1>26 DEF GameEnd
<1>27. CASE Intermission
  BY <1>27 DEF Intermission
<1>28. ASSUME NEW t \in Timers, Elapse(t) PROVE ~MissesOut
  BY <1>28 DEF Elapse
<1>29. CASE UNCHANGED vars
  BY <1>29
<1> HIDE DEF TypeOK, CamIsNotPlay, WatchersEscaped, MissesOut, vars, roundVars, rulesVars, playerVars
<1>q. QED
  BY <1>1, <1>2, <1>3, <1>4, <1>5, <1>6, <1>7, <1>8, <1>9, <1>10, <1>11, <1>12, <1>13, <1>14, <1>15, <1>16, <1>17, <1>18, <1>19, <1>20, <1>21, <1>22, <1>23, <1>24, <1>25, <1>26, <1>27, <1>28, <1>29 DEF Next, Client, Think

\* Only a player who has escaped becomes a zombie that watches: the exception that the run
\* RoundFlow_spectator shows is the only one.
THEOREM OnlyEscapesMissOut == Spec => OnlyTheEscapedMissOut
<1>1. TypeOK /\ CamIsNotPlay /\ WatchersEscaped /\ [Next]_vars =>
        \A p \in Slots : team[p] = "SURVIVIOR" /\ team'[p] = "ZOMBIE" /\ observer'[p] => escaped[p]
  BY MissOutStep DEF MissesOut
<1> QED
  BY <1>1, TypeCorrect, CamInvariant, WatchersInvariant, PTL DEF Spec, OnlyTheEscapedMissOut

-----------------------------------------------------------------------------
(* Lives *)

\* With fresh volunteers everybody in the welcome cam is on the observer team, and
\* then a zombie out of lives has no way back.
LivesRunOut ==
  /\ \A p \in Slots : welcome[p] => team[p] = "OBSERVER"
  /\ OutOfLives

\* With fresh volunteers, no step returns a zombie without lives to the game before
\* the reset.
LEMMA LivesStep == TypeOK /\ FreeSlots /\ RoundFlags /\ FreshVolunteers /\ LivesRunOut /\ [Next]_vars => LivesRunOut'
<1> SUFFICES ASSUME TypeOK, FreeSlots, RoundFlags, FreshVolunteers, LivesRunOut, [Next]_vars PROVE LivesRunOut'
  OBVIOUS
<1> USE DEF TypeOK, FreeSlots, LivesRunOut, OutOfLives, vars, roundVars, rulesVars, playerVars
<1>1. ASSUME NEW p \in Slots, ClientPutInServer(p) PROVE LivesRunOut'
  BY <1>1 DEF ClientPutInServer
<1>2. ASSUME NEW p \in Slots, InitHUD(p) PROVE LivesRunOut'
  BY <1>2 DEF InitHUD
<1>3. ASSUME NEW p \in Slots, ClientDisconnect(p) PROVE LivesRunOut'
  BY <1>3 DEF ClientDisconnect
<1>4. ASSUME NEW p \in Slots, JoinGameRefused(p) PROVE LivesRunOut'
  BY <1>4 DEF JoinGameRefused, StartObserver
<1>5. ASSUME NEW p \in Slots, NEW v \in BOOLEAN, JoinGame(p, v) PROVE LivesRunOut'
  BY <1>5 DEF JoinGame, Spawn, NoLivesLeft
<1>6. ASSUME NEW p \in Slots, Spectate(p) PROVE LivesRunOut'
  BY <1>6 DEF Spectate, StartObserver
<1>7. ASSUME NEW p \in Slots, OpenTeamMenu(p) PROVE LivesRunOut'
  BY <1>7 DEF OpenTeamMenu
<1>8. ASSUME NEW p \in Slots, WelcomeCamAttack(p) PROVE LivesRunOut'
  BY <1>8 DEF WelcomeCamAttack, Spawn
<1>9. ASSUME NEW p \in Slots, DieByWorld(p) PROVE LivesRunOut'
  BY <1>9 DEF DieByWorld, Killed
<1>10. ASSUME NEW p \in Slots, NEW k \in Slots, DieByPlayer(p, k) PROVE LivesRunOut'
  BY <1>10 DEF DieByPlayer, Killed
<1>11. ASSUME NEW p \in Slots, Suicide(p) PROVE LivesRunOut'
  BY <1>11 DEF Suicide, Killed
<1>12. ASSUME NEW p \in Slots, DeathThink(p) PROVE LivesRunOut'
  BY <1>12 DEF DeathThink, StartObserver, Spawn
<1>13. ASSUME NEW p \in Slots, Escape(p) PROVE LivesRunOut'
  BY <1>13 DEF Escape, StartObserver, Living, OnTeam
<1>14. CASE ThinkWaiting
  BY <1>14 DEF ThinkWaiting, SetRoundState
<1>15. CASE ThinkStarting
  <2>1. PICK zs \in Picks :
          /\ team' = [p \in Slots |-> IF p \in zs THEN "ZOMBIE" ELSE team[p]]
          /\ dead' = [p \in Slots |-> dead[p] /\ p \notin zs]
    BY <1>15 DEF ThinkStarting
  <2>2. \A p \in Slots : p \in zs => ~welcome[p]
    BY PicksConnected DEF FreshVolunteers, Living, OnTeam
  <2>3. roundState \in BeforeTheRound
    BY <1>15 DEF ThinkStarting, BeforeTheRound, RoundStates
  <2>4. \A p \in Slots : ~noLives[p]
    BY <2>3 DEF RoundFlags
  <2> QED
    BY <1>15, <2>1, <2>2, <2>4 DEF ThinkStarting
<1>16. CASE ThinkPicked
  BY <1>16 DEF ThinkPicked, SetRoundState
<1>17. CASE ThinkBegunPost
  BY <1>17 DEF ThinkBegunPost, SetRoundState
<1>18. CASE ThinkBegun
  BY <1>18 DEF ThinkBegun, JudgeRound
<1>19. ASSUME NEW p \in Slots, DraftZombie(p) PROVE LivesRunOut'
  BY <1>19 DEF DraftZombie, JudgeRound, Spawn, OnTeam
<1>20. CASE DraftNobody
  BY <1>20 DEF DraftNobody
<1>21. CASE ThinkRoundOver
  BY <1>21 DEF ThinkRoundOver, SetRoundState
<1>22. CASE ThinkRoundOverWait
  BY <1>22 DEF ThinkRoundOverWait, SetRoundState
<1>23. CASE ThinkRoundLimit
  BY <1>23 DEF ThinkRoundLimit, SetRoundState, ResetVolunteers
<1>24. CASE ThinkTimeLimit
  BY <1>24 DEF ThinkTimeLimit
<1>25. CASE ResetRound
  BY <1>25 DEF ResetRound, SetRoundState, ResetVolunteers, RestartRound
<1>26. CASE GameEnd
  BY <1>26 DEF GameEnd
<1>27. CASE Intermission
  BY <1>27 DEF Intermission
<1>28. ASSUME NEW t \in Timers, Elapse(t) PROVE LivesRunOut'
  BY <1>28 DEF Elapse
<1>29. CASE UNCHANGED vars
  BY <1>29
<1> HIDE DEF TypeOK, FreeSlots, LivesRunOut, OutOfLives, vars, roundVars, rulesVars, playerVars
<1>q. QED
  BY <1>1, <1>2, <1>3, <1>4, <1>5, <1>6, <1>7, <1>8, <1>9, <1>10, <1>11, <1>12, <1>13, <1>14, <1>15, <1>16, <1>17, <1>18, <1>19, <1>20, <1>21, <1>22, <1>23, <1>24, <1>25, <1>26, <1>27, <1>28, <1>29 DEF Next, Client, Think

\* A zombie that died without a life left does not play again in this round, unless
\* a stale volunteer entry put a zombie into the welcome cam.
THEOREM NoLifeAfterTheLast == Spec => OutOfLivesStaysOut
<1>1. Init => LivesRunOut
  BY DEF Init, Vacant, LivesRunOut, OutOfLives
<1>2. LivesRunOut => OutOfLives
  BY DEF LivesRunOut
<1> QED
  BY <1>1, <1>2, TypeCorrect, FreeSlotsInvariant, RoundFlagsInvariant, LivesStep, PTL
     DEF Spec, OutOfLivesStaysOut

-----------------------------------------------------------------------------
(* RoundFlow implements RoundPhases *)

\* Every step of the round flow is one of RoundPhases, or leaves its variables alone.
LEMMA PhaseStep == TypeOK /\ RoundFlags /\ [Next]_vars => [Phases!PhaseNext]_Phases!phaseVars
<1> SUFFICES ASSUME TypeOK, RoundFlags, [Next]_vars PROVE [Phases!PhaseNext]_Phases!phaseVars
  OBVIOUS
<1> USE DEF TypeOK, RoundFlags, PickedOncePerRound, Phase, Serving, Thinking, Over, BeforeTheRound, RoundStates, Phases!phaseVars, Phases!PhaseNext, Phases!Begin, Phases!Verdict, Phases!NextRound, Phases!EndMatch, vars, roundVars, rulesVars, playerVars
<1>1. ASSUME NEW p \in Slots, ClientPutInServer(p) PROVE [Phases!PhaseNext]_Phases!phaseVars
  BY <1>1 DEF ClientPutInServer
<1>2. ASSUME NEW p \in Slots, InitHUD(p) PROVE [Phases!PhaseNext]_Phases!phaseVars
  BY <1>2 DEF InitHUD
<1>3. ASSUME NEW p \in Slots, ClientDisconnect(p) PROVE [Phases!PhaseNext]_Phases!phaseVars
  BY <1>3 DEF ClientDisconnect
<1>4. ASSUME NEW p \in Slots, JoinGameRefused(p) PROVE [Phases!PhaseNext]_Phases!phaseVars
  BY <1>4 DEF JoinGameRefused, StartObserver, MayJoin
<1>5. ASSUME NEW p \in Slots, NEW v \in BOOLEAN, JoinGame(p, v) PROVE [Phases!PhaseNext]_Phases!phaseVars
  BY <1>5 DEF JoinGame, Spawn, MayJoin
<1>6. ASSUME NEW p \in Slots, Spectate(p) PROVE [Phases!PhaseNext]_Phases!phaseVars
  BY <1>6 DEF Spectate, StartObserver
<1>7. ASSUME NEW p \in Slots, OpenTeamMenu(p) PROVE [Phases!PhaseNext]_Phases!phaseVars
  BY <1>7 DEF OpenTeamMenu
<1>8. ASSUME NEW p \in Slots, WelcomeCamAttack(p) PROVE [Phases!PhaseNext]_Phases!phaseVars
  BY <1>8 DEF WelcomeCamAttack, Spawn
<1>9. ASSUME NEW p \in Slots, DieByWorld(p) PROVE [Phases!PhaseNext]_Phases!phaseVars
  BY <1>9 DEF DieByWorld, Killed, CanTakeDamage
<1>10. ASSUME NEW p \in Slots, NEW k \in Slots, DieByPlayer(p, k) PROVE [Phases!PhaseNext]_Phases!phaseVars
  BY <1>10 DEF DieByPlayer, Killed, CanTakeDamage
<1>11. ASSUME NEW p \in Slots, Suicide(p) PROVE [Phases!PhaseNext]_Phases!phaseVars
  BY <1>11 DEF Suicide, Killed
<1>12. ASSUME NEW p \in Slots, DeathThink(p) PROVE [Phases!PhaseNext]_Phases!phaseVars
  BY <1>12 DEF DeathThink, StartObserver, Spawn
<1>13. ASSUME NEW p \in Slots, Escape(p) PROVE [Phases!PhaseNext]_Phases!phaseVars
  BY <1>13 DEF Escape, StartObserver
<1>14. CASE ThinkWaiting
  BY <1>14 DEF ThinkWaiting, SetRoundState
<1>15. CASE ThinkStarting
  BY <1>15 DEF ThinkStarting, SetRoundState
<1>16. CASE ThinkPicked
  BY <1>16 DEF ThinkPicked, SetRoundState
<1>17. CASE ThinkBegunPost
  BY <1>17 DEF ThinkBegunPost, SetRoundState
<1>18. CASE ThinkBegun
  BY <1>18 DEF ThinkBegun, JudgeRound
<1>19. ASSUME NEW p \in Slots, DraftZombie(p) PROVE [Phases!PhaseNext]_Phases!phaseVars
  BY <1>19 DEF DraftZombie, JudgeRound, Spawn
<1>20. CASE DraftNobody
  BY <1>20 DEF DraftNobody
<1>21. CASE ThinkRoundOver
  BY <1>21 DEF ThinkRoundOver, SetRoundState
<1>22. CASE ThinkRoundOverWait
  BY <1>22 DEF ThinkRoundOverWait, SetRoundState
<1>23. CASE ThinkRoundLimit
  BY <1>23 DEF ThinkRoundLimit, SetRoundState, ResetVolunteers
<1>24. CASE ThinkTimeLimit
  BY <1>24 DEF ThinkTimeLimit
<1>25. CASE ResetRound
  BY <1>25, ConstantsAssumption DEF ResetRound, SetRoundState, ResetVolunteers, RestartRound, LimitReached
<1>26. CASE GameEnd
  BY <1>26 DEF GameEnd
<1>27. CASE Intermission
  BY <1>27 DEF Intermission
<1>28. ASSUME NEW t \in Timers, Elapse(t) PROVE [Phases!PhaseNext]_Phases!phaseVars
  BY <1>28 DEF Elapse
<1>29. CASE UNCHANGED vars
  BY <1>29
<1> HIDE DEF TypeOK, RoundFlags, PickedOncePerRound, Phase, Serving, Thinking, Over, BeforeTheRound, RoundStates, Phases!phaseVars, Phases!PhaseNext, Phases!Begin, Phases!Verdict, Phases!NextRound, Phases!EndMatch, vars, roundVars, rulesVars, playerVars
<1>q. QED
  BY <1>1, <1>2, <1>3, <1>4, <1>5, <1>6, <1>7, <1>8, <1>9, <1>10, <1>11, <1>12, <1>13, <1>14, <1>15, <1>16, <1>17, <1>18, <1>19, <1>20, <1>21, <1>22, <1>23, <1>24, <1>25, <1>26, <1>27, <1>28, <1>29 DEF Next, Client, Think

\* Every behaviour of the rounds is one that RoundPhases allows: phases in order, one
\* pick per round, rounds counted and limited.
THEOREM RoundFlowImplementsPhases == Spec => RoundsFollowPhases
<1>1. Init => Phases!PhaseInit
  BY DEF Init, Phases!PhaseInit, Phase, Serving
<1> QED
  BY <1>1, TypeCorrect, RoundFlagsInvariant, PhaseStep, PTL
     DEF Spec, RoundsFollowPhases, Phases!PhaseSpec
-----------------------------------------------------------------------------
(* RoundFlow sends the signals of RoundSignals *)

\* SetRoundState tells the map of rounds that begin, are over, begun or not, and are put
\* back, in this order.
THEOREM RoundSendsSignals == Spec => Signals!SignalSpec
<1> DEFINE signal == CASE roundState = "RoundHasBegun" -> "begun"
                       [] roundState = "RoundIsOver"   -> "over"
                       [] roundState \in BeforeTheRound -> "waiting"
<1> USE DEF BeforeTheRound, RoundStates
<1>1. Init => signal = "waiting"
  BY DEF Init
<1>2. TypeOK /\ RoundFlags /\ [Next]_vars =>
        [Signals!Begin \/ Signals!Over \/ Signals!Reset]_signal
  <2> SUFFICES ASSUME TypeOK, RoundFlags, Next, roundState' # roundState
               PROVE  [Signals!Begin \/ Signals!Over \/ Signals!Reset]_signal
    BY DEF vars, roundVars
  <2>1. ~(\E p \in Slots : Client(p))
    BY DEF Client, ClientPutInServer, InitHUD, ClientDisconnect, JoinGameRefused, JoinGame, Spawn,
           Spectate, OpenTeamMenu, WelcomeCamAttack, DieByWorld, DieByPlayer, Suicide, Killed,
           DeathThink, Escape, roundVars
  <2>2. ~(GameEnd \/ Intermission \/ \E t \in Timers : Elapse(t))
    BY DEF GameEnd, Intermission, Elapse, vars, roundVars
  <2>3. CASE ThinkWaiting \/ ThinkStarting \/ ThinkPicked \/ ThinkBegunPost
    BY <2>3 DEF ThinkWaiting, ThinkStarting, ThinkPicked, ThinkBegunPost, SetRoundState,
                Signals!Begin
  <2>4. CASE ThinkRoundOver \/ ThinkRoundOverWait \/ ThinkRoundLimit
    BY <2>4 DEF ThinkRoundOver, ThinkRoundOverWait, ThinkRoundLimit, SetRoundState, Signals!Over,
                TypeOK
  <2>5. CASE ResetRound
    BY <2>5 DEF ResetRound, SetRoundState, RoundFlags, Signals!Reset
  <2>6. ~(ThinkBegun \/ (\E p \in Slots : DraftZombie(p)) \/ DraftNobody \/ ThinkTimeLimit)
    BY DEF ThinkBegun, DraftZombie, Spawn, DraftNobody, ThinkTimeLimit, roundVars
  <2> QED
    BY <2>1, <2>2, <2>3, <2>4, <2>5, <2>6 DEF Next, Think
<1> QED
  BY <1>1, <1>2, TypeCorrect, RoundFlagsInvariant, PTL DEF Spec, Signals!SignalSpec

-----------------------------------------------------------------------------
(* RoundFlow picks zombies as OnePick says *)

\* A round's zombies are picked at one stroke, once, as OnePick allows, which is what
\* ZombieSelection comes to (PickAlwaysOneStep there): the two models agree on the pick.
THEOREM RoundTakesOnePick == Spec => ThePick!PickSpec
<1>1. Init => ~hasPicked
  BY DEF Init
<1>2. TypeOK /\ FreeSlots /\ RoundFlags /\ ThinkStarting => ThePick!Pick
  <2> SUFFICES ASSUME TypeOK, FreeSlots, RoundFlags, ThinkStarting PROVE ThePick!Pick
    OBVIOUS
  <2>1. PICK zs \in Picks :
          /\ team' = [p \in Slots |-> IF p \in zs THEN "ZOMBIE" ELSE team[p]]
          /\ dead' = [p \in Slots |-> dead[p] /\ p \notin zs]
    BY DEF ThinkStarting
  <2>2. ~hasPicked /\ hasPicked' = TRUE /\ volunteers' = {} /\ connected' = connected
    BY DEF ThinkStarting, RoundFlags, PickedOncePerRound
  <2>3. zs \subseteq Slots /\ (\A p \in zs : connected[p])
    BY PicksConnected DEF Picks, ThePick!Outcomes, ThePick!Pool, Living, OnTeam, TypeOK
  <2>4. OnTeam("ZOMBIE")' = OnTeam("ZOMBIE") \cup zs
    BY <2>1, <2>2, <2>3 DEF OnTeam
  <2>5. Living("SURVIVIOR")' = Living("SURVIVIOR") \ zs
    BY <2>1, <2>2, <2>3 DEF Living, OnTeam
  <2> QED
    BY <2>2, <2>4, <2>5 DEF ThePick!Pick, Picks
<1>3. TypeOK /\ [Next]_vars /\ ~ThinkStarting => ThePick!Meanwhile
  <2> SUFFICES ASSUME TypeOK, [Next]_vars, ~ThinkStarting, hasPicked' PROVE hasPicked
    BY DEF ThePick!Meanwhile
  <2> USE DEF vars, rulesVars
  <2>1. ASSUME NEW p \in Slots, Client(p) PROVE hasPicked
    BY <2>1 DEF Client, ClientPutInServer, InitHUD, ClientDisconnect, JoinGameRefused, JoinGame,
                Spectate, OpenTeamMenu, WelcomeCamAttack, DieByWorld, DieByPlayer, Suicide, Killed,
                DeathThink, Escape
  <2>2. CASE Think
    BY <2>2 DEF Think, ThinkWaiting, ThinkPicked, ThinkBegunPost, ThinkBegun, DraftZombie,
                DraftNobody, ThinkRoundOver, ThinkRoundOverWait, ThinkRoundLimit, ThinkTimeLimit,
                ResetRound, ResetVolunteers
  <2>3. ASSUME GameEnd \/ Intermission \/ (\E t \in Timers : Elapse(t)) \/ UNCHANGED vars
        PROVE  hasPicked
    BY <2>3 DEF GameEnd, Intermission, Elapse
  <2> QED
    BY <2>1, <2>2, <2>3 DEF Next
<1> QED
  BY <1>1, <1>2, <1>3, TypeCorrect, FreeSlotsInvariant, RoundFlagsInvariant, PTL
     DEF Spec, ThePick!PickSpec
=============================================================================
