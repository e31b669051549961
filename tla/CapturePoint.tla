---------------------------- MODULE CapturePoint ----------------------------
(***************************************************************************)
(* A point that survivors capture by standing in it (the map entity        *)
(* trigger_capture_point), the beacon that shows its progress              *)
(* (info_beacon), and the beacon as one client draws it.  Time goes in     *)
(* ticks; a variable that the code compares with the time is what is left  *)
(* until then, 0 when it has come.                                         *)
(***************************************************************************)
EXTENDS Integers, Sequences, FiniteSets

CONSTANTS
  Clients,          \* the players who may stand in the point
  Delay,            \* between two steps of a capture, and after a zombie was there: 2 s
  Stay,             \* a player has touched the point lately: 0.15 s
  Every,            \* between two thinks of the point: 0.1 s
  FirstThink,       \* before the first of them: 1 s
  Frame,            \* the longest frame
  PerPlayer,        \* what each player in the point takes off Delay: 0.2 s
  MaxRate,          \* what all of them take off at most: 1.5 s
  Full,             \* the progress that captures the point: 100 steps
  StartsEnabled,    \* key "enabled" of the point
  StartsLit,        \* SP_START_ENABLED of the beacon
  ChecksZombies,    \* SF_CHECK_ZOMBIES of the point
  MapUses,          \* the uses that the map makes by itself, of the point and of the beacon
  Scripted          \* the progress and the bar that its script sets

ASSUME CapturePointAssumption ==
  /\ {Delay, Stay, Every, FirstThink, Frame, PerPlayer, MaxRate, Full} \subseteq Nat \ {0}
  /\ Every <= FirstThink /\ MaxRate < Delay
  /\ FirstThink + Frame <= Delay /\ Stay + Every + Frame - 1 <= Delay
  /\ {StartsEnabled, StartsLit, ChecksZombies} \subseteq BOOLEAN
  /\ MapUses \subseteq {"on", "off", "toggle"} /\ Scripted \subseteq (0 .. Full) \X BOOLEAN

VARIABLES
  phase,        \* of the round: waiting (for the players, or starting), begun, over, or
                \* dropped: over and never begun
  resetQueued,  \* the clients have yet to be told that the round was reset
  enabled,      \* m_Enabled
  checking,     \* m_CheckZombies
  nextCheck,    \* m_flNextCheck
  touching,     \* m_List: each client and still_touching
  thinkIn,      \* pev->nextthink
  rate,         \* m_flCaptureDecreaseRate
  lit,          \* m_bActive of the beacon
  forcedOff,    \* m_bForcedOff of the beacon
  health,       \* pev->health of the beacon: the progress
  bar,          \* m_bShowHealth of the beacon
  viewer,       \* the client: not there, connected, or in the game
  drawn,        \* the beacon as the client has it
  contested,    \* history: how long a zombie's touch still holds the capture up
  missed        \* history: the map used the beacon itself before the round had begun

timeVars   == <<nextCheck, touching, thinkIn, rate>>
beaconVars == <<lit, forcedOff, health, bar>>
viewVars   == <<phase, resetQueued, viewer, missed>>
pointVars  == <<timeVars, beaconVars, viewVars, enabled, checking, drawn, contested>>

Drawing(l, h, b) == [lit |-> l, health |-> h, bar |-> b]
Nothing == Drawing(FALSE, 0, FALSE)

PointTypeOK ==
  /\ phase \in {"waiting", "begun", "over", "dropped"} /\ resetQueued \in BOOLEAN
  /\ enabled \in BOOLEAN /\ checking \in BOOLEAN
  /\ nextCheck \in 0 .. Delay /\ contested \in 0 .. Delay
  /\ touching \in Seq([client : Clients, left : 0 .. Stay])
  /\ thinkIn \in 1 .. FirstThink /\ rate \in 0 .. MaxRate
  /\ lit \in BOOLEAN /\ forcedOff \in BOOLEAN /\ health \in 0 .. Full /\ bar \in BOOLEAN
  /\ viewer \in {"out", "lobby", "in"} /\ missed \in BOOLEAN
  /\ drawn \in [lit : BOOLEAN, health : 0 .. Full, bar : BOOLEAN]

PointInit ==
  /\ phase = "waiting" /\ resetQueued = FALSE
  /\ enabled = StartsEnabled /\ checking = TRUE /\ nextCheck = 0 /\ contested = 0
  /\ touching = <<>> /\ thinkIn = FirstThink /\ rate = 0
  /\ lit = StartsLit /\ forcedOff = FALSE /\ health = 0 /\ bar = FALSE
  /\ viewer = "out" /\ drawn = Nothing /\ missed = FALSE

-----------------------------------------------------------------------------
(* The beacon *)

\* To all clients: the beacon as it is after this step
UpdateMessageState ==
  drawn' = IF viewer = "out" THEN drawn ELSE Drawing(lit', health', bar')

\* What a use makes of an active flag; one that was forced off stays off but for USE_ON.
Used(active, type) == CASE type = "on" -> TRUE [] type = "off" -> FALSE [] OTHER -> ~active

UseBeacon(type) ==
  /\ forcedOff' = (type = "off" \/ (type = "toggle" /\ forcedOff))
  /\ lit' = (Used(lit, type) /\ ~forcedOff')

\* A part of the map of its own: a trigger, or a prop_objective that was taken
MapUsesBeacon(type) ==
  /\ UseBeacon(type) /\ UNCHANGED <<health, bar>> /\ UpdateMessageState
  /\ missed' = (missed \/ phase = "waiting")
  /\ UNCHANGED <<timeVars, phase, resetQueued, viewer, enabled, checking, contested>>

\* The beacon's inputs Increment, Decrement, Set and ShowBar
OnScriptCallBack(h, b) ==
  /\ health' = h /\ bar' = b /\ UNCHANGED <<lit, forcedOff>> /\ UpdateMessageState
  /\ UNCHANGED <<timeVars, viewVars, enabled, checking, contested>>

-----------------------------------------------------------------------------
(* The point *)

\* Use, by the map; the beacon follows
Use(type) ==
  /\ enabled' = Used(enabled, type) /\ nextCheck' = Delay
  /\ UseBeacon(IF enabled' THEN "on" ELSE "off") /\ UNCHANGED <<health, bar>>
  /\ UpdateMessageState
  /\ UNCHANGED <<touching, thinkIn, rate, viewVars, checking, contested>>

\* OnPlayerTouched
Touched(c) ==
  IF \E i \in 1 .. Len(touching) : touching[i].client = c
  THEN [i \in 1 .. Len(touching) |->
          IF touching[i].client = c THEN [client |-> c, left |-> Stay] ELSE touching[i]]
  ELSE Append(touching, [client |-> c, left |-> Stay])

Checking == ChecksZombies /\ checking

\* OnCaptureTouch, of anyone alive: nobody, or no zombie, has touched the point for a while.
CheckEnds ==
  /\ enabled /\ Checking /\ nextCheck = 0 /\ checking' = FALSE
  /\ UNCHANGED <<timeVars, beaconVars, viewVars, enabled, drawn, contested>>

\* Mutant: a zombie's touch does not set the time of the next check.
MutZombieTouch ==
  /\ enabled /\ (Checking => nextCheck > 0)
  /\ checking' = (checking \/ ~Checking) /\ contested' = Delay
  /\ UNCHANGED <<timeVars, beaconVars, viewVars, enabled, drawn>>

\* OnCaptureTouch of a zombie
ZombieTouch ==
  /\ enabled /\ (Checking => nextCheck > 0)
  /\ nextCheck' = Delay /\ checking' = (checking \/ ~Checking) /\ contested' = Delay
  /\ UNCHANGED <<touching, thinkIn, rate, beaconVars, viewVars, enabled, drawn>>

\* The rest of OnCaptureTouch, of a survivor
MayCapture == enabled /\ ~Checking /\ nextCheck = 0

\* Mutant: one step too many.
MutCaptureGoesOn(c) ==
  /\ MayCapture /\ health <= Full /\ health' = health + 1 /\ bar' = TRUE
  /\ UNCHANGED <<lit, forcedOff>> /\ UpdateMessageState
  /\ nextCheck' = Delay - rate /\ touching' = Touched(c)
  /\ UNCHANGED <<thinkIn, rate, viewVars, enabled, checking, contested>>

CaptureGoesOn(c) ==
  /\ MayCapture /\ health < Full /\ health' = health + 1 /\ bar' = TRUE
  /\ UNCHANGED <<lit, forcedOff>> /\ UpdateMessageState
  /\ nextCheck' = Delay - rate /\ touching' = Touched(c)
  /\ UNCHANGED <<thinkIn, rate, viewVars, enabled, checking, contested>>

\* The targets are fired, and the beacon is turned off.
Captured(c) ==
  /\ MayCapture /\ health >= Full /\ enabled' = FALSE
  /\ UseBeacon("off") /\ UNCHANGED <<health, bar>> /\ UpdateMessageState
  /\ nextCheck' = Delay - rate /\ touching' = Touched(c)
  /\ UNCHANGED <<thinkIn, rate, viewVars, checking, contested>>

\* OnCaptureThink erases from the list it goes through: the entry behind an erased one is not
\* looked at, so that in a run of players who left every second one stays.
Erased(q) ==
  {i \in 1 .. Len(q) : \E j \in 1 .. i :
     /\ \A k \in j .. i : q[k].left = 0
     /\ j > 1 => q[j - 1].left > 0
     /\ (i - j) % 2 = 0}

\* The entries of a list at some places, in order
At(q, S) ==
  [n \in 1 .. Cardinality(S) |-> q[CHOOSE i \in S : Cardinality({j \in S : j <= i}) = n]]

Counted(q) == {i \in 1 .. Len(q) : q[i].left > 0 /\ i - 1 \notin Erased(q)}

Least(a, b) == IF a < b THEN a ELSE b
Passed(t, d) == IF t > d THEN t - d ELSE 0

\* Mutant: who left stays on the list.
MutOnCaptureThink(q) ==
  /\ touching' = q
  /\ rate' = Least(PerPlayer * Cardinality(Counted(q)), MaxRate)
  /\ thinkIn' = Every

OnCaptureThink(q) ==
  /\ touching' = At(q, (1 .. Len(q)) \ Erased(q))
  /\ rate' = Least(PerPlayer * Cardinality(Counted(q)), MaxRate)
  /\ thinkIn' = Every

\* A frame
Tick(d) ==
  LET older == [i \in 1 .. Len(touching) |->
                  [client |-> touching[i].client, left |-> Passed(touching[i].left, d)]] IN
  /\ nextCheck' = Passed(nextCheck, d) /\ contested' = Passed(contested, d)
  /\ \/ thinkIn > d /\ thinkIn' = thinkIn - d /\ touching' = older /\ UNCHANGED rate
     \/ thinkIn <= d /\ OnCaptureThink(older)
  /\ UNCHANGED <<beaconVars, viewVars, enabled, checking, drawn>>

-----------------------------------------------------------------------------
(* Rounds *)

\* CleanUpMap: the point is restarted, which uses the beacon, and then the beacon, which does not
\* tell.  RoundResetPost is sent some frames later, sooner than another round is over.
ResetRound ==
  /\ phase \in {"over", "dropped"} /\ ~resetQueued /\ phase' = "waiting" /\ resetQueued' = TRUE /\ missed' = FALSE
  /\ enabled' = StartsEnabled /\ checking' = TRUE /\ nextCheck' = Delay /\ rate' = 0
  /\ lit' = StartsLit /\ forcedOff' = FALSE /\ health' = 0 /\ bar' = FALSE
  /\ drawn' = IF viewer = "out" THEN drawn ELSE Drawing(StartsEnabled, 0, FALSE)
  /\ UNCHANGED <<touching, thinkIn, viewer, contested>>

\* MsgFunc_RRndPost
RoundResetPost ==
  /\ resetQueued /\ resetQueued' = FALSE
  /\ drawn' = IF viewer = "out" THEN drawn ELSE Nothing
  /\ UNCHANGED <<timeVars, beaconVars, phase, viewer, missed, enabled, checking, contested>>

\* OnGameModeRoundStart; mp_startdelay is longer than it takes to send the queue.
RoundBegins ==
  /\ phase = "waiting" /\ ~resetQueued /\ phase' = "begun"
  /\ IF enabled THEN UseBeacon("on") /\ nextCheck' = Delay
                ELSE UNCHANGED <<lit, forcedOff, nextCheck>>
  /\ UNCHANGED <<health, bar>>
  /\ IF StartsLit \/ enabled THEN UpdateMessageState ELSE UNCHANGED drawn
  /\ UNCHANGED <<touching, thinkIn, rate, resetQueued, viewer, missed, enabled, checking,
        contested>>

\* A game_end may call the round off before it has begun.
RoundIsOver ==
  /\ \/ phase = "begun" /\ phase' = "over"
     \/ phase = "waiting" /\ phase' = "dropped"
  /\ UNCHANGED <<timeVars, beaconVars, resetQueued, viewer, missed, enabled, checking, drawn,
                 contested>>

-----------------------------------------------------------------------------
(* The client *)

Connect ==
  /\ viewer = "out" /\ viewer' = "lobby" /\ drawn' = Nothing
  /\ UNCHANGED <<timeVars, beaconVars, phase, resetQueued, missed, enabled, checking, contested>>

\* Mutant: who comes late is not told.
MutJoinGame ==
  /\ viewer = "lobby" /\ viewer' = "in"
  /\ UNCHANGED <<timeVars, beaconVars, phase, resetQueued, missed, enabled, checking, drawn,
                 contested>>

\* "joingame": who comes late is told of a beacon that is active.
JoinGame ==
  /\ viewer = "lobby" /\ viewer' = "in"
  /\ drawn' = IF phase = "begun" /\ lit THEN Drawing(lit, health, bar) ELSE drawn
  /\ UNCHANGED <<timeVars, beaconVars, phase, resetQueued, missed, enabled, checking, contested>>

Disconnect ==
  /\ viewer # "out" /\ viewer' = "out"
  /\ UNCHANGED <<timeVars, beaconVars, phase, resetQueued, missed, enabled, checking, drawn,
                 contested>>

-----------------------------------------------------------------------------
\* All but the steps that concern the objectives too (MapEntities)
PointStep ==
  \/ CheckEnds \/ ZombieTouch \/ \E c \in Clients : CaptureGoesOn(c)
  \/ \E type \in MapUses : Use(type) \/ MapUsesBeacon(type)
  \/ \E hb \in Scripted : OnScriptCallBack(hb[1], hb[2])
  \/ \E d \in 1 .. Frame : Tick(d)
  \/ RoundResetPost \/ RoundIsOver \/ Disconnect

\* The point and its beacon alone: other entities may use the point.
PointNext ==
  \/ PointStep \/ ResetRound \/ RoundBegins \/ Connect \/ JoinGame
  \/ \E c \in Clients : Captured(c)
  \/ \E type \in {"on", "off", "toggle"} : Use(type)

PointSpec == PointInit /\ [][PointNext]_pointVars

Signals == INSTANCE RoundSignals WITH signal <- IF phase = "dropped" THEN "over" ELSE phase

-----------------------------------------------------------------------------
(* Properties *)

\* However many survivors stand in the point, a capture goes on at the same pace: the list holds
\* one of them at most, and by the time of the next step it is empty, and the rate 0.  It is also
\* why erasing from the list while going through it does no harm.
PaceIsOne == Len(touching) <= 1 /\ (nextCheck = 0 => touching = <<>> /\ rate = 0)

\* No step of a capture, and no capture, within Delay of a zombie's touch.  A touch that ends the
\* check does not count: the code takes the first player after a quiet time for a survivor.
ZombiesHoldItUp ==
  [][(\E c \in Clients : CaptureGoesOn(c) \/ Captured(c)) => contested = 0]_pointVars

\* While a round is on, a client in the game draws the beacon as it is, whenever he came, but for
\* what the map did to the beacon itself before the round had begun.
DrawnAsItIs ==
  phase = "begun" /\ viewer = "in" /\ ~missed =>
    drawn.lit = lit /\ (lit => drawn = Drawing(lit, health, bar))
=============================================================================
