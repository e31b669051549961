--------------------------- MODULE ZombieSelection ---------------------------
(***************************************************************************)
(* Who becomes a zombie when a round starts: PickRandomVolunteer and       *)
(* ResetVolunteers (zp_gamerules.cpp) with the list of earlier zombies     *)
(* that CBaseGameMode keeps (zp_gamemodebase.cpp).  Volunteers are kept by *)
(* client slot, earlier zombies by the person's auth id, and slots change  *)
(* hands between the two.                                                  *)
(*                                                                         *)
(* PickRandomVolunteer runs in one frame; its goto loop is taken apart     *)
(* into one action per pass, during which nothing else happens.  RoundFlow *)
(* has what surrounds it and takes the pick in one step.                   *)
(***************************************************************************)
EXTENDS Integers, FiniteSets

CONSTANTS
  Slots,               \* client slots
  People,              \* the persons behind them, by auth id
  Nobody,              \* what a free slot holds
  SurvivorsPerZombie,  \* 6 in the source
  MaxOffers            \* bound: entries a slot may have in m_Volunteers

ASSUME SelectionAssumption ==
  /\ IsFiniteSet(Slots) /\ Nobody \notin People
  /\ SurvivorsPerZombie \in Nat \ {0, 1} /\ MaxOffers \in Nat \ {0}

VARIABLES
  who,         \* the person in each slot
  role,        \* of the player in it: team, and whether it is in play
  volunteers,  \* m_Volunteers: how often each slot is in the list
  chosen,      \* m_LastChoosenZombies: the persons in the list
  chosenSize,  \* ... and its length, a person may be in it more than once
  phase,       \* "before" the pick, "picking", "running" until the next round
  more,        \* iMoreRequired
  retried,     \* bFirstTry
  start        \* history, during a pick: who could be taken when it began

vars == <<who, role, volunteers, chosen, chosenSize, phase, more, retried, start>>

\* "dead" and "escaped" are on the survivor team, not alive; who escaped spectates
Roles == {"observer", "survivor", "dead", "escaped", "zombie"}

TypeOK ==
  /\ who \in [Slots -> People \cup {Nobody}]
  /\ role \in [Slots -> Roles]
  /\ volunteers \in [Slots -> 0 .. MaxOffers]
  /\ chosen \subseteq People /\ chosenSize \in 0 .. 2 * Cardinality(Slots)
  /\ phase \in {"before", "picking", "running"}
  /\ more \in -1 .. Cardinality(Slots)
  /\ retried \in BOOLEAN
  /\ start \in [living : SUBSET Slots, zombies : SUBSET Slots, offered : SUBSET Slots]

Present(p)       == who[p] # Nobody
LivingSurvivors  == {p \in Slots : Present(p) /\ role[p] = "survivor"}
Zombies          == {p \in Slots : Present(p) /\ role[p] = "zombie"}
NoVolunteers     == \A p \in Slots : volunteers[p] = 0
Offered          == {p \in Slots : volunteers[p] > 0}
NoPick           == [living |-> {}, zombies |-> {}, offered |-> {}]

\* The survivors that are not in the list of earlier zombies
Candidates == {p \in LivingSurvivors : who[p] \notin chosen}

Init ==
  /\ who = [p \in Slots |-> Nobody] /\ role = [p \in Slots |-> "observer"]
  /\ volunteers = [p \in Slots |-> 0]
  /\ chosen = {} /\ chosenSize = 0
  /\ phase = "before" /\ more = 0 /\ retried = FALSE /\ start = NoPick

-----------------------------------------------------------------------------
(* Clients; CBaseGameMode::RemoveFromList looks for an EntIndex that nothing ever
   sets, so a client that leaves stays in both lists *)

Connect(p, h) ==
  /\ phase # "picking" /\ ~Present(p) /\ \A q \in Slots : who[q] # h
  /\ who' = [who EXCEPT ![p] = h] /\ role' = [role EXCEPT ![p] = "observer"]
  /\ UNCHANGED <<volunteers, chosen, chosenSize, phase, more, retried, start>>

Disconnect(p) ==
  /\ phase # "picking" /\ Present(p)
  /\ who' = [who EXCEPT ![p] = Nobody] /\ role' = [role EXCEPT ![p] = "observer"]
  /\ UNCHANGED <<volunteers, chosen, chosenSize, phase, more, retried, start>>

\* "joingame", with or without "volunteer".  After the pick nothing reads the list
\* before ResetVolunteers clears it, so later offers are not recorded.
JoinGame(p, offer, t) ==
  /\ phase # "picking" /\ Present(p) /\ role[p] = "observer"
  /\ t = "survivor" \/ phase = "running"
  /\ offer => phase = "before" /\ volunteers[p] < MaxOffers
  /\ role' = [role EXCEPT ![p] = t]
  /\ volunteers' = IF offer THEN [volunteers EXCEPT ![p] = @ + 1] ELSE volunteers
  /\ UNCHANGED <<who, chosen, chosenSize, phase, more, retried, start>>

\* What happens to players in the meantime: death, the return as a zombie, escape
Fate(p) ==
  /\ phase # "picking" /\ Present(p)
  /\ \/ role[p] = "survivor" /\ role' = [role EXCEPT ![p] = "dead"]
     \/ role[p] = "dead" /\ role' = [role EXCEPT ![p] = "zombie"]
     \/ role[p] = "survivor" /\ phase = "running" /\ role' = [role EXCEPT ![p] = "escaped"]
  /\ UNCHANGED <<who, volunteers, chosen, chosenSize, phase, more, retried, start>>

-----------------------------------------------------------------------------
(* PickRandomVolunteer *)

PickRandomVolunteer ==
  /\ phase = "before"
  /\ phase' = "picking" /\ more' = 0 /\ retried' = FALSE
  /\ start' = [living |-> LivingSurvivors, zombies |-> Zombies, offered |-> Offered]
  /\ UNCHANGED <<who, role, volunteers, chosen, chosenSize>>

\* "We have no volunteers, so lets pick some random survivors"
TakeSurvivors ==
  /\ phase = "picking" /\ NoVolunteers /\ Candidates # {}
  /\ volunteers' = [p \in Slots |-> IF p \in Candidates THEN 1 ELSE 0]
  /\ UNCHANGED <<who, role, chosen, chosenSize, phase, more, retried, start>>

\* Mutant: bFirstTry is not set
MutTryAgain ==
  /\ phase = "picking" /\ NoVolunteers /\ Candidates = {} /\ ~retried
  /\ chosen' = {} /\ chosenSize' = 0
  /\ UNCHANGED <<who, role, volunteers, phase, more, retried, start>>

\* "Still zero? Reset the choosen list and try again."
TryAgain ==
  /\ phase = "picking" /\ NoVolunteers /\ Candidates = {} /\ ~retried
  /\ retried' = TRUE /\ chosen' = {} /\ chosenSize' = 0
  /\ UNCHANGED <<who, role, volunteers, phase, more, start>>

GiveUp ==
  /\ phase = "picking" /\ NoVolunteers /\ Candidates = {} /\ retried
  /\ phase' = "running" /\ start' = NoPick
  /\ UNCHANGED <<who, role, volunteers, chosen, chosenSize, more, retried>>

\* Mutant: the counter starts one too high
MutMoreRequired(survivors) == survivors \div SurvivorsPerZombie + 1

\* One more zombie for every full SurvivorsPerZombie survivors, counted after the
\* first draw; below that the counter stays at -1
MoreRequired(survivors) ==
  IF survivors >= SurvivorsPerZombie THEN survivors \div SurvivorsPerZombie ELSE -1

\* Another pass is made while more zombies are required
Continue(required) ==
  /\ more' = required
  /\ phase' = IF required > 0 THEN "picking" ELSE "running"
  /\ start' = IF required > 0 THEN start ELSE NoPick

\* A drawn entry whose client is there becomes a zombie
DrawPlayer(p) ==
  /\ phase = "picking" /\ volunteers[p] > 0 /\ Present(p)
  /\ volunteers' = [volunteers EXCEPT ![p] = @ - 1]
  /\ role' = [role EXCEPT ![p] = "zombie"]
  /\ chosen' = chosen \cup {who[p]} /\ chosenSize' = chosenSize + 1
  /\ Continue(IF more = 0 THEN MoreRequired(Cardinality(LivingSurvivors \ {p})) ELSE more - 1)
  /\ UNCHANGED <<who, retried>>

\* ... one whose client has left is dropped, and counts for nothing
DrawStale(p) ==
  /\ phase = "picking" /\ volunteers[p] > 0 /\ ~Present(p)
  /\ volunteers' = [volunteers EXCEPT ![p] = @ - 1]
  /\ Continue(more)
  /\ UNCHANGED <<who, role, chosen, chosenSize, retried>>

-----------------------------------------------------------------------------
\* Everyone but the players that spectate for their team
Counted == {p \in Slots : Present(p) /\ role[p] # "escaped"}

\* Mutant: > for >=
MutShouldClear == chosenSize > Cardinality(Counted)

\* ShouldClearChoosenZombies
ShouldClear == chosenSize >= Cardinality(Counted)

\* Mutant: the list of earlier zombies is never purged
MutResetRound ==
  /\ phase \in {"before", "running"} /\ phase' = "before"
  /\ volunteers' = [p \in Slots |-> 0] /\ role' = [p \in Slots |-> "observer"]
  /\ UNCHANGED <<who, chosen, chosenSize, more, retried, start>>

\* ResetVolunteers, at the end of a round whether it was picked for or not, and then
\* the part of ResetRound that sends everybody back to the observers
ResetRound ==
  /\ phase \in {"before", "running"}
  /\ volunteers' = [p \in Slots |-> 0]
  /\ chosen' = IF ShouldClear THEN {} ELSE chosen
  /\ chosenSize' = IF ShouldClear THEN 0 ELSE chosenSize
  /\ role' = [p \in Slots |-> "observer"]
  /\ phase' = "before"
  /\ UNCHANGED <<who, more, retried, start>>

Pass == TakeSurvivors \/ TryAgain \/ GiveUp \/ (\E p \in Slots : DrawPlayer(p) \/ DrawStale(p))

Next ==
  \/ \E p \in Slots : \/ \E h \in People : Connect(p, h)
                      \/ Disconnect(p)
                      \/ \E offer \in BOOLEAN, t \in {"survivor", "zombie"} : JoinGame(p, offer, t)
                      \/ Fate(p)
  \/ PickRandomVolunteer \/ Pass \/ ResetRound

Spec == Init /\ [][Next]_vars

\* A frame that has begun the pick finishes it
FairSpec == Spec /\ WF_vars(Pass)

-----------------------------------------------------------------------------
\* The goto loop of the pick ends, however many entries are stale and however often
\* the lists run empty on the way.
PickEnds == phase = "picking" ~> phase = "running"

\* The pick takes no more zombies than its quota of the survivors there are: as long
\* as it still wants more, enough survivors are left to give one and keep one.
QuotaIsCovered ==
  phase = "picking" /\ more > 0 => Cardinality(LivingSurvivors) >= more * SurvivorsPerZombie

\* m_LastChoosenZombies, which only whole rounds may shorten, is shorter than the
\* number of slots before each pick, though volunteers enter it again and again and
\* persons in it leave for good.
ListIsShort == phase = "before" => chosenSize < Cardinality(Slots) \/ Slots = {}

\* The entries that are left, and whether one is not a living survivor's
Entries == {e \in Slots \X (1 .. MaxOffers) : e[2] <= volunteers[e[1]]}
Others  == ~ Offered \subseteq LivingSurvivors

\* What a pass uses up: the second try, a survivor, or an entry of somebody else.  With only
\* survivors in the list the next pass has to take one.
Tries    == IF retried THEN 0 ELSE 1
Drawable == IF NoVolunteers THEN 1 ELSE IF Others THEN 1 + Cardinality(Entries) ELSE 0

\* Every pass of the goto loop that another one follows brings it closer to its end, though
\* it may fill the list of volunteers again, or empty the list of earlier zombies.
LoopRunsDown ==
  [][phase = "picking" /\ phase' = "picking" =>
       \/ Tries' < Tries
       \/ /\ Tries' = Tries
          /\ \/ Cardinality(LivingSurvivors') < Cardinality(LivingSurvivors)
             \/ /\ Cardinality(LivingSurvivors') = Cardinality(LivingSurvivors)
                /\ Drawable' < Drawable]_vars

ThePick == INSTANCE OnePick WITH
             PerZombie <- SurvivorsPerZombie,
             here    <- {p \in Slots : Present(p)},
             living  <- IF phase = "picking" THEN start.living ELSE LivingSurvivors,
             zombies <- IF phase = "picking" THEN start.zombies ELSE Zombies,
             offered <- CASE phase = "before" -> Offered [] phase = "picking" -> start.offered
                          [] phase = "running" -> {},
             picked  <- phase = "running"

\* The passes of the loop come to one pick of the kind RoundFlow takes: zombies are made of
\* volunteers who are there and of living survivors, up to the quota, and of nobody only if
\* there was nobody to take, or a stale entry to draw.
PickIsOneStep == ThePick!PickSpec

\* zp_gamerules.cpp:565, "We have no volunteers, so lets pick some random survivors":
\* a round that has living survivors to pick from does not start without a zombie.
RoundStartsWithAZombie ==
  [][phase = "picking" /\ phase' = "running" => (Zombies # {} \/ LivingSurvivors = {})']_vars
=============================================================================
