---------------------------- MODULE MapEntities ----------------------------
(***************************************************************************)
(* A map of the objective mode: a capture point with its beacon and the    *)
(* objectives, for one of which (Goal) the point is captured, by way of an *)
(* info_objective_set; another one (Opener) has the point as its target,   *)
(* and uses it when it has ended.  One client watches.                     *)
(***************************************************************************)
EXTENDS CapturePoint, Objectives

CONSTANTS
  Goal, Opener,
  MapSets           \* what the map sets by itself: an objective and its state

ASSUME MapAssumption ==
  Goal \in Objs /\ Opener \in Objs \cup {None} /\ MapSets \subseteq Objs \X States

mapVars == <<pointVars, objVars>>

TypeOK == PointTypeOK /\ ObjTypeOK

Init == PointInit /\ ObjInit

Listens == viewer # "out"

-----------------------------------------------------------------------------
(* Where the two meet *)

\* A capture fires the targets of the point.
CaptureObjective(c) ==
  Captured(c) /\ SetState(Goal, "completed", Listens) /\ UNCHANGED fired

\* A second after it has ended, an objective fires its target.
ObjectiveThink(o) ==
  /\ CallNewObjective(o, Listens)
  /\ IF o = Opener THEN Use("toggle") ELSE UNCHANGED pointVars

CleanUpMap == ResetRound /\ Restart

\* mp_startdelay is longer than the second of a call that is due.
GameModeRoundStart ==
  /\ \A o \in calling : Ended(o)
  /\ RoundBegins /\ SetState(First, "open", Listens) /\ UNCHANGED fired

\* The client connects with the text he left with, if any: unlike the beacons, nothing clears it.
ClientConnects ==
  Connect /\ heard' = FALSE /\ UNCHANGED <<state, calling, fired, saved, told>>

\* Mutant: who comes late is not sent the text.
MutClientJoins == JoinGame /\ UNCHANGED objVars

\* Who comes late is sent the text.
ClientJoins ==
  /\ JoinGame /\ UNCHANGED <<state, calling, fired>>
  /\ IF phase = "begun" THEN Show(saved, TRUE) ELSE UNCHANGED textVars

-----------------------------------------------------------------------------
\* A trigger of the map, or its script, sets an objective.
MapSetsObjective(o, s) == SetState(o, s, Listens) /\ UNCHANGED <<fired, pointVars>>

Next ==
  \/ PointStep /\ UNCHANGED objVars
  \/ \E c \in Clients : CaptureObjective(c)
  \/ \E o \in Objs : ObjectiveThink(o)
  \/ \E os \in MapSets : MapSetsObjective(os[1], os[2])
  \/ CleanUpMap \/ GameModeRoundStart \/ ClientConnects \/ ClientJoins

\* The engine runs the thinks that are due.
Fairness == \A o \in Objs : WF_mapVars(ObjectiveThink(o))

Spec == Init /\ [][Next]_mapVars /\ Fairness

-----------------------------------------------------------------------------
(* Properties *)

\* In a round that has begun, an objective fires its target only for having ended in it, and
\* once: not again when the point is captured again, nor for what happened before the reset.
FiresForItsEnd ==
  [][\A o \in Objs : CallNewObjective(o, Listens) /\ phase \in {"begun", "over"} =>
       Ended(o) /\ o \notin fired]_mapVars

\* While a round is on, a client in the game reads the text that was shown last, whenever he
\* came.  Who came before the round and was told of none, because the first objective had ended
\* by then and the beginning showed it no more, reads what he knows from earlier, or nothing.
TextAsShown ==
  phase = "begun" /\ viewer = "in" => told = saved \/ (~heard /\ Ended(First))

\* The text of an objective that has ended, and that an open one follows
Overdue(o) ==
  saved.obj = o /\ Ended(o) /\ Successor(o) # None /\ ~Ended(Successor(o))

\* A call that shows the open one's instead is due, whatever has been set, called for or reset
\* in the meantime: no text outlives its objective for want of a call.
MoveIsDue == \A o \in Objs : Overdue(o) => o \in calling

\* It gives way to the other one's, unless that one ends by itself or the round is reset.
TextMovesOn == \A o \in Objs : Overdue(o) ~> ~Overdue(o)
=============================================================================
