----------------------------- MODULE Objectives -----------------------------
(***************************************************************************)
(* The objectives of a map (info_objective) in the objective mode: each    *)
(* ends once a round, and a second later fires its target and makes way    *)
(* for the objective that follows it; the game rules save the text shown   *)
(* last, for who joins late.                                               *)
(***************************************************************************)
EXTENDS Naturals

CONSTANTS
  Objs, None,
  First,            \* OBJECTIVE_MESSAGE_FIRST
  NextObj, AltObj,  \* of each objective the one that follows, None where there is none
  UsesAlt           \* those without OBJECTIVE_DONT_USE_ALT

ASSUME ObjectivesAssumption ==
  /\ None \notin Objs /\ First \in Objs /\ UsesAlt \subseteq Objs
  /\ NextObj \in [Objs -> Objs \cup {None}] /\ AltObj \in [Objs -> Objs \cup {None}]

VARIABLES
  state,    \* m_State
  calling,  \* the objectives whose CallNewObjective is due
  fired,    \* history: those that fired their target for having ended in this round
  saved,    \* m_savedobjtext and m_savedobjstate: the text shown last
  told,     \* the text one client has: his statics in CObjectiveText, which outlive a connection
  heard     \* history: he was told a text since he connected

textVars == <<saved, told, heard>>
objVars  == <<state, calling, fired, textVars>>

\* Normal and in progress differ in a colour only.
Ends == {"completed", "failed"}
States == {"open"} \cup Ends
Text(o, s) == [obj |-> o, state |-> s]
NoText == Text(None, "open")    \* none, or one of another map

ObjTypeOK ==
  /\ state \in [Objs -> States] /\ calling \subseteq Objs /\ fired \subseteq Objs
  /\ {saved, told} \subseteq [obj : Objs \cup {None}, state : States] /\ heard \in BOOLEAN

ObjInit ==
  /\ state = [o \in Objs |-> "open"] /\ calling = {} /\ fired = {}
  /\ saved = NoText /\ told = NoText /\ heard = FALSE

Ended(o) == state[o] \in Ends

\* UpdateMessageState: a text is sent to all clients, and saved.  listens: the client is connected
Show(t, listens) ==
  /\ saved' = t /\ told' = (IF listens THEN t ELSE told) /\ heard' = (heard \/ listens)

\* Mutant: an objective that has ended does not refuse.
MutSetState(o, s, listens) ==
  /\ state' = [state EXCEPT ![o] = s]
  /\ calling' = IF s \in Ends THEN calling \cup {o} ELSE calling
  /\ Show(Text(o, s), listens)

\* Mutant: only an objective that failed is called for.
MutSetFailed(o, s, listens) ==
  IF Ended(o) THEN UNCHANGED <<state, calling, textVars>>
  ELSE /\ state' = [state EXCEPT ![o] = s]
       /\ calling' = IF s = "failed" THEN calling \cup {o} ELSE calling
       /\ Show(Text(o, s), listens)

\* Use: an objective that has ended refuses.
SetState(o, s, listens) ==
  IF Ended(o) THEN UNCHANGED <<state, calling, textVars>>
  ELSE /\ state' = [state EXCEPT ![o] = s]
       /\ calling' = IF s \in Ends THEN calling \cup {o} ELSE calling
       /\ Show(Text(o, s), listens)

Successor(o) == IF state[o] = "failed" /\ o \in UsesAlt THEN AltObj[o] ELSE NextObj[o]

\* The target that it fires is in MapEntities.
CallNewObjective(o, listens) ==
  /\ o \in calling
  /\ fired' = IF Ended(o) THEN fired \cup {o} ELSE fired
  /\ LET n == Successor(o) IN
     IF n = None \/ Ended(n)
     THEN calling' = calling \ {o} /\ UNCHANGED <<state, textVars>>
     ELSE /\ calling' = calling \ {o} /\ state' = [state EXCEPT ![n] = "open"]
          /\ Show(Text(n, "open"), listens)

\* Restart of each of them, which does not stop a call that is due
Restart ==
  /\ state' = [o \in Objs |-> "open"] /\ fired' = {}
  /\ UNCHANGED <<calling, textVars>>
=============================================================================
