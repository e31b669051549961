----------------------------- MODULE Broadcasts -----------------------------
(***************************************************************************)
(* What the clients are told of players, teams and rounds: the game rules  *)
(* queue broadcasts and send a few in each frame (zp_gamerules.cpp), each  *)
(* client keeps a scoreboard (client_viewport.cpp).  Messages are sent to  *)
(* all and reach each client in the order they are sent in, so one client, *)
(* Viewer, stands for all.                                                 *)
(***************************************************************************)
EXTENDS Integers, Sequences

CONSTANTS
  MaxClients,  \* gpGlobals->maxClients
  Viewer,      \* the slot of the client whose scoreboard it is
  Sides,       \* the teams that play: survivors and zombies
  PerFrame,    \* MAX_BROADCASTS_PER_FRAME
  MaxPending   \* bound: players do nothing when more broadcasts than this are waiting

Slots == 1 .. MaxClients

ASSUME BroadcastsAssumption ==
  MaxClients \in Nat /\ Viewer \in Slots /\ PerFrame \in Nat \ {0} /\ MaxPending \in Nat

VARIABLES
  here,      \* of each slot: empty, in the server, or with its HUD initialised
  team,      \* pev->team
  watching,  \* pev->iuser1: an observer
  queue,     \* m_vecDeferredBroadcasts
  thinking,  \* the game rules are in Think; the players' commands and frames come in between
  left,      \* how many broadcasts this frame may still send
  next,      \* the player that ResetRound is at, 0 outside it
  board,     \* of each slot: the team's name and number, as the viewer knows them
  overtaken  \* history: entries ahead of a RoundResetPost that were to tell what came after it

vars == <<here, team, watching, queue, thinking, left, next, board, overtaken>>

Teams   == {"observer"} \cup Sides
Reset   == [type |-> "RoundResetPost", slot |-> 0]
Entries == [type : {"TeamInfo", "ScoreInfo", "Spectator"}, slot : Slots] \cup {Reset}
Lines   == [name : Teams \cup {"", "Players"}, number : Teams \cup {"none"}]

\* No broadcast is in the queue twice, which bounds it.
TypeOK ==
  /\ here \in [Slots -> {"out", "put", "in"}]
  /\ team \in [Slots -> Teams] /\ watching \in [Slots -> BOOLEAN]
  /\ queue \in Seq(Entries)
  /\ \A i, j \in 1 .. Len(queue) : queue[i] = queue[j] => i = j
  /\ thinking \in BOOLEAN /\ left \in 0 .. PerFrame /\ next \in 0 .. MaxClients + 1
  /\ board \in [Slots -> Lines] /\ overtaken \subseteq Entries

Nothing == [name |-> "", number |-> "none"]

Init ==
  /\ here = [s \in Slots |-> "out"] /\ team = [s \in Slots |-> "observer"]
  /\ watching = [s \in Slots |-> FALSE]
  /\ queue = <<>> /\ thinking = FALSE /\ left = 0 /\ next = 0
  /\ board = [s \in Slots |-> Nothing] /\ overtaken = {}

-----------------------------------------------------------------------------
(* The queue *)

Has(q, e) == \E i \in 1 .. Len(q) : q[i] = e

\* Mutant: nothing is compared
MutQueueAll(q, e) == Append(q, e)

\* Mutant: the broadcast is queued anew, as what it tells is new
MutQueueAnew(q, e) == Append(SelectSeq(q, LAMBDA x : x # e), e)

\* A broadcast that is in the queue stays where it is
QueueDeferredBroadcast(q, e) == IF Has(q, e) THEN q ELSE Append(q, e)

TeamInfo(s)  == [type |-> "TeamInfo", slot |-> s]
ScoreInfo(s) == [type |-> "ScoreInfo", slot |-> s]
Spectator(s) == [type |-> "Spectator", slot |-> s]

\* Both do nothing while m_bDeferringRoundResetBroadcasts
SendPlayerTeamInfo(q, s) ==
  QueueDeferredBroadcast(QueueDeferredBroadcast(q, TeamInfo(s)), ScoreInfo(s))

\* An entry that a RoundResetPost follows
Ahead(e) == \E i, j \in 1 .. Len(queue) : i < j /\ queue[i] = e /\ queue[j] = Reset

\* What the entries of a player are to tell now comes too early, or does not
Told(s) ==
  overtaken' = (overtaken \ {TeamInfo(s), ScoreInfo(s)})
                 \cup {e \in {TeamInfo(s), ScoreInfo(s)} : Ahead(e)}

ThinkBegins ==
  /\ ~thinking /\ thinking' = TRUE /\ left' = PerFrame
  /\ UNCHANGED <<here, team, watching, queue, next, board, overtaken>>

NameOf(s) == IF watching[s] THEN "" ELSE team[s]

\* MsgFunc_RRndPost, MsgFunc_TeamInfo and MsgFunc_ScoreInfo; nothing is sent about a player
\* who is not here, and what is sent about one who is is what holds now.
Shown(e) ==
  CASE e = Reset -> [s \in Slots |-> [name |-> "observer", number |-> "observer"]]
    [] e.type = "TeamInfo" /\ here[e.slot] # "out" ->
         [board EXCEPT ![e.slot] = [name |-> NameOf(e.slot), number |-> board[e.slot].number]]
    [] e.type = "ScoreInfo" /\ here[e.slot] # "out" ->
         [board EXCEPT ![e.slot] = [name |-> board[e.slot].name, number |-> team[e.slot]]]
    [] OTHER -> board

\* Mutant: what concerns a player who left is not erased
MutProcessDeferredBroadcasts ==
  /\ left > 0 /\ queue # <<>> /\ next = 0
  /\ LET gone == Head(queue) # Reset /\ here[Head(queue).slot] = "out" IN
       \/ gone /\ left' = 0 /\ UNCHANGED <<queue, board>>
       \/ ~gone /\ left' = left - 1 /\ queue' = Tail(queue) /\ board' = Shown(Head(queue))
  /\ UNCHANGED <<here, team, watching, thinking, next, overtaken>>

\* One round of the loop
ProcessDeferredBroadcasts ==
  /\ left > 0 /\ queue # <<>> /\ next = 0
  /\ left' = left - 1 /\ queue' = Tail(queue) /\ board' = Shown(Head(queue))
  /\ UNCHANGED <<here, team, watching, thinking, next, overtaken>>

-----------------------------------------------------------------------------
(* ResetRound *)

\* The rest of Think: the round goes on, or is to be restarted
ThinkGoesOn ==
  /\ thinking /\ next = 0 /\ (left = 0 \/ queue = <<>>)
  /\ left' = 0
  /\ \/ thinking' = FALSE /\ next' = 0
     \/ thinking' = TRUE /\ next' = 1
  /\ UNCHANGED <<here, team, watching, queue, board, overtaken>>

\* StopObserver, ChangePlayerTeam and StartWelcomeCam, with m_bDeferringRoundResetBroadcasts
ResetPlayer ==
  /\ next \in Slots /\ next' = next + 1
  /\ IF here[next] = "out" THEN UNCHANGED <<team, watching, queue>>
     ELSE /\ team' = [team EXCEPT ![next] = "observer"]
          /\ watching' = [watching EXCEPT ![next] = FALSE]
          /\ queue' = QueueDeferredBroadcast(queue, Spectator(next))
  /\ UNCHANGED <<here, thinking, left, board, overtaken>>

ResetEnds ==
  /\ next = MaxClients + 1 /\ next' = 0 /\ thinking' = FALSE
  /\ queue' = QueueDeferredBroadcast(queue, Reset)
  /\ UNCHANGED <<here, team, watching, left, board, overtaken>>

-----------------------------------------------------------------------------
(* Players *)

\* Between two frames
Between == ~thinking /\ Len(queue) <= MaxPending

\* PlayerSpawn of a player who is not in the server yet: StartWelcomeCam
PutInServer(s) ==
  /\ Between /\ here[s] = "out" /\ here' = [here EXCEPT ![s] = "put"]
  /\ team' = [team EXCEPT ![s] = "observer"] /\ watching' = [watching EXCEPT ![s] = FALSE]
  /\ queue' = SendPlayerTeamInfo(queue, s) /\ Told(s)
  /\ board' = IF s = Viewer THEN [i \in Slots |-> Nothing] ELSE board
  /\ UNCHANGED <<thinking, left, next>>

\* All are told at once that the player is one of the "Players", as if there were no teams;
\* the player is told of all who are here.
InitHUD(s) ==
  /\ Between /\ here[s] = "put" /\ here' = [here EXCEPT ![s] = "in"]
  /\ team' = [team EXCEPT ![s] = "observer"]
  /\ queue' = SendPlayerTeamInfo(QueueDeferredBroadcast(queue, ScoreInfo(s)), s) /\ Told(s)
  /\ board' = IF s = Viewer
              THEN [i \in Slots |-> IF here[i] = "out" THEN board[i]
                                    ELSE [name   |-> IF watching[i] THEN "" ELSE team'[i],
                                          number |-> team[i]]]
              ELSE [board EXCEPT ![s] = [name   |-> IF watching[s] THEN "" ELSE "Players",
                                         number |-> board[s].number]]
  /\ UNCHANGED <<watching, thinking, left, next>>

\* Volunteers and chosen zombies, those who turn, respawn or are given a team by the map
ChangeTeam(s, t) ==
  /\ Between /\ here[s] # "out" /\ team' = [team EXCEPT ![s] = t]
  /\ queue' = SendPlayerTeamInfo(queue, s) /\ Told(s)
  /\ UNCHANGED <<here, watching, thinking, left, next, board>>

\* A spectator, a survivor who escaped, a zombie or an observer without lives
StartObserver(s, t) ==
  /\ Between /\ here[s] # "out" /\ ~watching[s] /\ t \in {team[s], "observer"}
  /\ team' = [team EXCEPT ![s] = t] /\ watching' = [watching EXCEPT ![s] = TRUE]
  /\ queue' = QueueDeferredBroadcast(SendPlayerTeamInfo(queue, s), Spectator(s)) /\ Told(s)
  /\ UNCHANGED <<here, thinking, left, next, board>>

\* Mutant: StopObserver tells that the player is no spectator, and no more
MutStopObserver(s, t) ==
  /\ Between /\ here[s] # "out" /\ watching[s] /\ team[s] = "observer"
  /\ team' = [team EXCEPT ![s] = t] /\ watching' = [watching EXCEPT ![s] = FALSE]
  /\ queue' = QueueDeferredBroadcast(queue, Spectator(s))
  /\ UNCHANGED <<here, thinking, left, next, board, overtaken>>

\* "joingame" and "open_teammenu" of an observer
StopObserver(s, t) ==
  /\ Between /\ here[s] # "out" /\ watching[s] /\ team[s] = "observer"
  /\ team' = [team EXCEPT ![s] = t] /\ watching' = [watching EXCEPT ![s] = FALSE]
  /\ queue' = SendPlayerTeamInfo(QueueDeferredBroadcast(queue, Spectator(s)), s) /\ Told(s)
  /\ UNCHANGED <<here, thinking, left, next, board>>

\* A kill, a death, points
SendScoreInfo(s) ==
  /\ Between /\ here[s] # "out"
  /\ queue' = QueueDeferredBroadcast(queue, ScoreInfo(s))
  /\ UNCHANGED <<here, team, watching, thinking, left, next, board, overtaken>>

ClientDisconnected(s) ==
  /\ Between /\ here[s] # "out" /\ here' = [here EXCEPT ![s] = "out"]
  /\ UNCHANGED <<team, watching, queue, thinking, left, next, board, overtaken>>

-----------------------------------------------------------------------------
Think == ThinkBegins \/ ProcessDeferredBroadcasts \/ ThinkGoesOn \/ ResetPlayer \/ ResetEnds

Player(s) ==
  \/ PutInServer(s) \/ InitHUD(s) \/ SendScoreInfo(s) \/ ClientDisconnected(s)
  \/ \E t \in Teams : ChangeTeam(s, t) \/ StartObserver(s, t) \/ StopObserver(s, t)

Next == Think \/ \E s \in Slots : Player(s)

\* The game rules think in every frame; nothing makes a player move.
Spec == Init /\ [][Next]_vars /\ WF_vars(Think)

-----------------------------------------------------------------------------
(* Properties *)

\* When nothing is left to send, the scoreboard is right for every player who is here.
\* Not so for a player who joins a team in the frames after ResetRound while an entry of his
\* from before is still in the queue: the clients are told his new team first, and then to
\* forget all teams.
BoardAgrees ==
  queue = <<>> /\ here[Viewer] = "in" =>
    \A s \in Slots : here[s] # "out" =>
      /\ TeamInfo(s) \in overtaken \/ board[s].name = NameOf(s)
      /\ ScoreInfo(s) \in overtaken \/ board[s].number = team[s]

\* A queue to which entries were added behind those there were
Continues(q, r) == Len(q) <= Len(r) /\ \A i \in 1 .. Len(q) : r[i] = q[i]

\* No broadcast is lost or overtaken in the queue: whoever queues what, of whatever is there
\* already, each entry keeps its place, and moves up only when the first is sent.
KeepsItsPlace == [][Continues(queue, queue') \/ queue' = Tail(queue)]_vars

\* Whatever is queued is sent, though a few are sent in a frame and more come in
EverySent == \A e \in Entries : Has(queue, e) ~> ~Has(queue, e)
=============================================================================
