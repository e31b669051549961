------------------------------- MODULE OnePick -------------------------------
(***************************************************************************)
(* What the pick of zombies promises to the round: once between two resets *)
(* some players become zombies, at a stroke, and who they may be.  It is   *)
(* what RoundFlow takes the pick for and what the loop of ZombieSelection  *)
(* comes to.                                                               *)
(***************************************************************************)
EXTENDS Integers, FiniteSets

CONSTANTS
  Slots,      \* client slots
  PerZombie   \* one more zombie for so many survivors

VARIABLES
  here,       \* the slots that have a client
  living,     \* those whose player is a living survivor
  zombies,    \* those whose player is a zombie
  offered,    \* those that are in the list of volunteers
  picked      \* the pick of this round is over
pickVars == <<here, living, zombies, offered, picked>>

\* The first zombie is a volunteer if there is one, whatever became of the client since
First    == IF offered # {} THEN offered ELSE living
Pool     == living \cup (offered \cap here)
Quota(v) == Cardinality(living \ {v}) \div PerZombie

\* The first zombie and others up to the quota, volunteers or living survivors.  Nobody, if
\* there is nobody to take or the first entry drawn is of a client who has left.
Outcomes ==
  {zs \in SUBSET Pool :
     \/ zs = {} /\ (First = {} \/ ~ First \subseteq here)
     \/ \E v \in First \cap here : \E more \in SUBSET Pool :
          Cardinality(more) <= Quota(v) /\ zs = {v} \cup more}

Pick ==
  /\ ~picked /\ picked' = TRUE /\ here' = here /\ offered' = {}
  /\ \E zs \in Outcomes : zombies' = zombies \cup zs /\ living' = living \ zs

\* The rest of the round, and the reset that ends it
Meanwhile == picked' => picked

PickSpec == ~picked /\ [][Pick \/ Meanwhile]_pickVars
=============================================================================
