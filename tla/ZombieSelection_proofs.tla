----------------------- MODULE ZombieSelection_proofs -----------------------
(***************************************************************************)
(* Theorems about ZombieSelection, for any number of slots and persons:    *)
(* the pick keeps to its quota, and the list of earlier zombies is bounded *)
(* by the number of slots.                                                 *)
(***************************************************************************)
EXTENDS ZombieSelection, FiniteSetTheorems, TLAPS

\* Whole quotas fit into the number they are taken from
LEMMA WholeQuotas ==
  ASSUME NEW s \in Nat, NEW n \in Nat \ {0}
  PROVE  /\ s \div n \in Nat /\ (s \div n) * n <= s
         /\ s \div n <= s
         /\ s >= n => s \div n >= 1
  OBVIOUS

\* One zombie more costs one survivor, and a quota is at least that
LEMMA OneLess ==
  ASSUME NEW m \in Nat \ {0}, NEW n \in Nat \ {0}, NEW s \in Nat, s >= m * n
  PROVE  s - 1 >= (m - 1) * n
  OBVIOUS

\* Survivors are slots: there is a finite number of them, and one less than slots
\* when somebody else has been drawn.
LEMMA Survivors ==
  ASSUME TypeOK
  PROVE  /\ Cardinality(Slots) \in Nat
         /\ Cardinality(LivingSurvivors) \in 0 .. Cardinality(Slots)
         /\ \A p \in Slots :
              /\ Cardinality(LivingSurvivors \ {p}) \in 0 .. Cardinality(Slots) - 1
              /\ Cardinality(LivingSurvivors \ {p}) >= Cardinality(LivingSurvivors) - 1
<1>1. IsFiniteSet(Slots) /\ LivingSurvivors \subseteq Slots
  BY SelectionAssumption DEF LivingSurvivors
<1>2. IsFiniteSet(LivingSurvivors) /\ Cardinality(LivingSurvivors) <= Cardinality(Slots)
  BY <1>1, FS_Subset
<1>3. Cardinality(Slots) \in Nat /\ Cardinality(LivingSurvivors) \in Nat
  BY <1>1, <1>2, FS_CardinalityType
<1>4. ASSUME NEW p \in Slots
      PROVE  /\ Cardinality(LivingSurvivors \ {p}) \in 0 .. Cardinality(Slots) - 1
             /\ Cardinality(LivingSurvivors \ {p}) >= Cardinality(LivingSurvivors) - 1
  <2>1. /\ IsFiniteSet(Slots \ {p}) /\ Cardinality(Slots \ {p}) = Cardinality(Slots) - 1
        /\ IsFiniteSet(LivingSurvivors \ {p})
        /\ Cardinality(LivingSurvivors \ {p}) >= Cardinality(LivingSurvivors) - 1
    <3>1. /\ IsFiniteSet(Slots \ {p})
          /\ Cardinality(Slots \ {p}) = IF p \in Slots THEN Cardinality(Slots) - 1 ELSE Cardinality(Slots)
      BY <1>1, FS_RemoveElement
    <3>2. /\ IsFiniteSet(LivingSurvivors \ {p})
          /\ Cardinality(LivingSurvivors \ {p}) =
               IF p \in LivingSurvivors THEN Cardinality(LivingSurvivors) - 1 ELSE Cardinality(LivingSurvivors)
      BY <1>2, FS_RemoveElement
    <3> QED
      BY <1>3, <3>1, <3>2
  <2>2. Cardinality(LivingSurvivors \ {p}) <= Cardinality(Slots \ {p})
    <3>1. LivingSurvivors \ {p} \subseteq Slots \ {p}
      BY <1>1
    <3> QED
      BY <2>1, <3>1, FS_Subset
  <2>3. Cardinality(LivingSurvivors \ {p}) \in Nat
    BY <2>1, FS_CardinalityType
  <2> QED
    BY <1>3, <2>1, <2>2, <2>3
<1> QED
  BY <1>2, <1>3, <1>4

-----------------------------------------------------------------------------
\* The list has room for the zombies that are still to be drawn.  While none has been,
\* it is as short as before the pick; each draw makes the list longer by one and the
\* number still required smaller by one.
FewChosen == chosenSize < Cardinality(Slots) \/ Slots = {}
RoomForMore ==
  /\ phase = "before" => FewChosen
  /\ phase = "picking" => /\ more >= 0
                          /\ more = 0 => FewChosen
                          /\ more > 0 => chosenSize + more < 2 * Cardinality(Slots)

SelectionInv == TypeOK /\ RoomForMore /\ QuotaIsCovered

\* What is known of the players when a pick begins
Starts == [living : SUBSET Slots, zombies : SUBSET Slots, offered : SUBSET Slots]

\* Before the first client, the lists are empty.
LEMMA SelectionInit == Init => SelectionInv
<1> SUFFICES ASSUME Init PROVE SelectionInv
  OBVIOUS
<1>1. IsFiniteSet(Slots) /\ Cardinality(Slots) \in Nat
  BY SelectionAssumption, FS_CardinalityType
<1>2. Slots # {} => Cardinality(Slots) # 0
  BY <1>1, FS_EmptySet
<1>3. TypeOK
  <2>1. /\ who \in [Slots -> People \cup {Nobody}] /\ role \in [Slots -> Roles]
        /\ chosen \subseteq People
    BY DEF Init, Roles
  <2>2. volunteers \in [Slots -> 0 .. MaxOffers]
    BY SelectionAssumption DEF Init
  <2>3. chosenSize \in 0 .. 2 * Cardinality(Slots) /\ more \in -1 .. Cardinality(Slots)
    BY <1>1 DEF Init
  <2>4. phase \in {"before", "picking", "running"} /\ retried \in BOOLEAN
    BY DEF Init
  <2>5. start \in Starts
    BY DEF Init, NoPick, Starts
  <2> QED
    BY <2>1, <2>2, <2>3, <2>4, <2>5 DEF TypeOK, Starts
<1>4. RoomForMore
  BY <1>1, <1>2 DEF Init, RoomForMore, FewChosen
<1>5. QuotaIsCovered
  BY DEF Init, QuotaIsCovered
<1> QED
  BY <1>3, <1>4, <1>5 DEF SelectionInv

\* A draw: the zombie goes onto the list, and the quota is taken from the survivors
\* that are left, or reduced by one.
LEMMA DrawKeeps ==
  ASSUME SelectionInv, NEW p \in Slots, DrawPlayer(p)
  PROVE  SelectionInv'
<1> DEFINE C == Cardinality(Slots)
           n == SurvivorsPerZombie
           s == Cardinality(LivingSurvivors \ {p})
           required == IF more = 0 THEN MoreRequired(s) ELSE more - 1
<1>1. TypeOK /\ RoomForMore /\ QuotaIsCovered
  BY DEF SelectionInv
<1>2. /\ C \in Nat /\ Cardinality(LivingSurvivors) \in Nat
      /\ s \in 0 .. C - 1 /\ s >= Cardinality(LivingSurvivors) - 1
  BY <1>1, Survivors
<1>3. n \in Nat \ {0} /\ Slots # {}
  BY SelectionAssumption
<1>4. LivingSurvivors' = LivingSurvivors \ {p}
  BY <1>1 DEF DrawPlayer, LivingSurvivors, Present, TypeOK
<1>5. /\ phase = "picking" /\ more' = required
      /\ phase' = IF required > 0 THEN "picking" ELSE "running"
      /\ chosenSize' = chosenSize + 1
  BY DEF DrawPlayer, Continue
<1>6. more \in Nat /\ chosenSize \in Nat
  BY <1>1, <1>5 DEF TypeOK, RoomForMore
<1>7. /\ required \in -1 .. C
      /\ required > 0 => s >= required * n /\ chosenSize + 1 + required < 2 * C
      /\ chosenSize + 1 <= 2 * C
  <2>1. CASE more = 0
    <3>1. /\ s \div n \in Nat /\ (s \div n) * n <= s /\ s \div n <= s
      BY <1>2, <1>3, WholeQuotas
    <3>2. required = IF s >= n THEN s \div n ELSE -1
      BY <2>1 DEF MoreRequired
    <3>3. chosenSize < C
      BY <1>1, <1>3, <1>5, <2>1 DEF RoomForMore, FewChosen
    <3> HIDE DEF s, C, n, required
    <3>4. required = -1 \/ required = s \div n
      BY <3>2
    <3>5. CASE required = -1
      BY <3>5, <1>2, <1>6, <3>3
    <3>6. CASE required = s \div n
      <4> DEFINE q == s \div n
      <4>1. q \in Nat /\ q * n <= s /\ q <= s /\ required = q
        BY <3>1, <3>6
      <4> HIDE DEF q
      <4>2. required \in -1 .. C
        BY <4>1, <1>2
      <4>3. s >= required * n
        BY <4>1, <1>2, <1>3
      <4>4. chosenSize + 1 + required < 2 * C /\ chosenSize + 1 <= 2 * C
        BY <4>1, <1>2, <1>6, <3>3
      <4> QED
        BY <4>2, <4>3, <4>4
    <3> QED
      BY <3>4, <3>5, <3>6
  <2>2. CASE more # 0
    <3>1. more \in Nat \ {0} /\ required = more - 1
      BY <1>6, <2>2
    <3>2. Cardinality(LivingSurvivors) >= more * n
      BY <1>1, <1>5, <3>1 DEF QuotaIsCovered
    <3>3. chosenSize + more < 2 * C
      BY <1>1, <1>5, <3>1 DEF RoomForMore
    <3>4. more <= C
      BY <1>1, <1>2 DEF TypeOK
    <3>5. Cardinality(LivingSurvivors) - 1 >= (more - 1) * n
      BY <1>2, <1>3, <3>1, <3>2, OneLess
    <3> DEFINE r == (more - 1) * n
    <3>6. r \in Int /\ required * n = r
      BY <1>3, <3>1
    <3>7. s >= r
      <4>1. Cardinality(LivingSurvivors) - 1 >= r
        BY <3>5
      <4> HIDE DEF s, r
      <4> QED
        BY <1>2, <3>6, <4>1
    <3> HIDE DEF s, C, n, required, r
    <3> QED
      BY <1>2, <1>6, <3>1, <3>3, <3>4, <3>6, <3>7
  <2> QED
    BY <2>1, <2>2
<1> HIDE DEF s, C, n, required
<1>8. TypeOK'
  <2>1. /\ who' \in [Slots -> People \cup {Nobody}] /\ role' \in [Slots -> Roles]
        /\ retried' \in BOOLEAN
    BY <1>1 DEF DrawPlayer, TypeOK, Roles
  <2>2. volunteers' \in [Slots -> 0 .. MaxOffers]
    BY <1>1, SelectionAssumption DEF DrawPlayer, TypeOK
  <2>3. chosen' \subseteq People
    BY <1>1 DEF DrawPlayer, Present, TypeOK
  <2>4. chosenSize' \in 0 .. 2 * Cardinality(Slots) /\ more' \in -1 .. Cardinality(Slots)
    BY <1>2, <1>5, <1>6, <1>7 DEF C
  <2>5. phase' \in {"before", "picking", "running"}
    BY <1>5
  <2>6. start' \in Starts
    BY <1>1 DEF DrawPlayer, Continue, TypeOK, NoPick, Starts
  <2> QED
    BY <2>1, <2>2, <2>3, <2>4, <2>5, <2>6 DEF TypeOK, Starts
<1>9. RoomForMore'
  <2>1. phase' # "before" /\ (phase' = "picking" => more' > 0 /\ chosenSize' + more' < 2 * Cardinality(Slots))
    BY <1>5, <1>7 DEF C
  <2>2. more' \in Int
    BY <1>5, <1>7, <1>2
  <2> QED
    BY <2>1, <2>2 DEF RoomForMore
<1>10. QuotaIsCovered'
  BY <1>4, <1>5, <1>7 DEF QuotaIsCovered, s, n
<1> QED
  BY <1>8, <1>9, <1>10 DEF SelectionInv

\* Every other step leaves the list and what is required alone, or empties the list.
LEMMA SelectionStep == SelectionInv /\ [Next]_vars => SelectionInv'
<1> SUFFICES ASSUME SelectionInv, [Next]_vars PROVE SelectionInv'
  OBVIOUS
<1>a. TypeOK /\ RoomForMore /\ QuotaIsCovered
  BY DEF SelectionInv
<1>b. IsFiniteSet(Slots) /\ Cardinality(Slots) \in Nat
  BY SelectionAssumption, FS_CardinalityType
<1>c. Slots # {} => Cardinality(Slots) # 0
  BY <1>b, FS_EmptySet
<1> USE <1>a, <1>b DEF SelectionInv, TypeOK, Roles, RoomForMore, FewChosen, QuotaIsCovered
<1>1. ASSUME NEW p \in Slots, NEW h \in People, Connect(p, h) PROVE SelectionInv'
  BY <1>1 DEF Connect
<1>2. ASSUME NEW p \in Slots, Disconnect(p) PROVE SelectionInv'
  BY <1>2 DEF Disconnect
<1>3. ASSUME NEW p \in Slots, NEW offer \in BOOLEAN, NEW t \in {"survivor", "zombie"},
             JoinGame(p, offer, t)
      PROVE  SelectionInv'
  <2>1. volunteers' \in [Slots -> 0 .. MaxOffers]
    BY <1>3, SelectionAssumption DEF JoinGame
  <2>2. role' \in [Slots -> Roles]
    BY <1>3 DEF JoinGame
  <2> QED
    BY <1>3, <2>1, <2>2 DEF JoinGame
<1>4. ASSUME NEW p \in Slots, Fate(p) PROVE SelectionInv'
  BY <1>4 DEF Fate
<1>5. CASE PickRandomVolunteer
  <2>1. /\ phase = "before" /\ phase' = "picking" /\ more' = 0 /\ retried' = FALSE
        /\ UNCHANGED <<who, role, volunteers, chosen, chosenSize>>
    BY <1>5 DEF PickRandomVolunteer
  <2>2. TypeOK'
    <3>1. 0 \in -1 .. Cardinality(Slots)
      BY <1>b
    <3>2. /\ who' \in [Slots -> People \cup {Nobody}] /\ role' \in [Slots -> Roles]
          /\ volunteers' \in [Slots -> 0 .. MaxOffers]
          /\ chosen' \subseteq People /\ chosenSize' \in 0 .. 2 * Cardinality(Slots)
      BY <1>a, <2>1
    <3>3. more' \in -1 .. Cardinality(Slots)
      BY <2>1, <3>1
    <3>4. phase' \in {"before", "picking", "running"} /\ retried' \in BOOLEAN
      BY <2>1
    <3>5. start' \in Starts
      BY <1>5 DEF PickRandomVolunteer, Starts, LivingSurvivors, Zombies, Offered
    <3> HIDE <1>a, <1>b DEF Roles
    <3> QED
      BY <3>2, <3>3, <3>4, <3>5 DEF TypeOK, Starts
  <2>3. RoomForMore' /\ QuotaIsCovered'
    BY <2>1
  <2> HIDE DEF TypeOK, RoomForMore, QuotaIsCovered
  <2> QED
    BY <2>2, <2>3
<1>6. CASE TakeSurvivors
  <2>1. volunteers' \in [Slots -> 0 .. MaxOffers]
    BY <1>6, SelectionAssumption DEF TakeSurvivors
  <2>2. LivingSurvivors' = LivingSurvivors
    BY <1>6 DEF TakeSurvivors, LivingSurvivors, Present
  <2> QED
    BY <1>6, <2>1, <2>2 DEF TakeSurvivors
<1>7. CASE TryAgain
  <2>1. LivingSurvivors' = LivingSurvivors
    BY <1>7 DEF TryAgain, LivingSurvivors, Present
  <2>2. chosenSize' = 0 /\ more' = more /\ phase' = "picking" /\ phase = "picking"
    BY <1>7 DEF TryAgain
  <2>3. chosenSize \in Nat /\ more \in Int
    OBVIOUS
  <2>4. RoomForMore'
    BY <1>c, <2>2, <2>3
  <2>5. TypeOK'
    BY <1>7, <2>2, <2>3 DEF TryAgain
  <2> QED
    BY <2>1, <2>2, <2>4, <2>5
<1>8. CASE GiveUp
  BY <1>8 DEF GiveUp, NoPick
<1>9. ASSUME NEW p \in Slots, DrawPlayer(p) PROVE SelectionInv'
  BY <1>9, DrawKeeps
<1>10. ASSUME NEW p \in Slots, DrawStale(p) PROVE SelectionInv'
  <2>1. volunteers' \in [Slots -> 0 .. MaxOffers]
    BY <1>10, SelectionAssumption DEF DrawStale
  <2>2. LivingSurvivors' = LivingSurvivors
    BY <1>10 DEF DrawStale, LivingSurvivors, Present
  <2> QED
    BY <1>10, <2>1, <2>2 DEF DrawStale, Continue, NoPick
<1>11. CASE ResetRound
  <2>1. /\ Cardinality(Counted) \in Nat /\ Cardinality(Counted) <= Cardinality(Slots)
    <3>1. Counted \subseteq Slots
      BY DEF Counted
    <3>2. IsFiniteSet(Counted) /\ Cardinality(Counted) <= Cardinality(Slots)
      BY <3>1, FS_Subset
    <3> QED
      BY <3>2, FS_CardinalityType
  <2>2. /\ chosenSize' = IF chosenSize >= Cardinality(Counted) THEN 0 ELSE chosenSize
        /\ chosen' \subseteq People /\ phase' = "before"
    BY <1>11 DEF ResetRound, ShouldClear
  <2>3. volunteers' \in [Slots -> 0 .. MaxOffers] /\ role' \in [Slots -> Roles]
    BY <1>11, SelectionAssumption DEF ResetRound
  <2>4. chosenSize \in Nat /\ chosenSize' \in 0 .. 2 * Cardinality(Slots) /\ FewChosen'
    BY <1>c, <2>1, <2>2
  <2> QED
    BY <1>11, <2>2, <2>3, <2>4 DEF ResetRound
<1>12. CASE UNCHANGED vars
  <2>1. LivingSurvivors' = LivingSurvivors
    BY <1>12 DEF vars, LivingSurvivors, Present
  <2> QED
    BY <1>12, <2>1 DEF vars
<1> QED
  BY <1>1, <1>2, <1>3, <1>4, <1>5, <1>6, <1>7, <1>8, <1>9, <1>10, <1>11, <1>12 DEF Next, Pass

\* Types, room on the list and the covered quota are invariant together.
LEMMA SelectionInvariant == Spec => []SelectionInv
  BY SelectionInit, SelectionStep, PTL DEF Spec

\* Every variable keeps its type; in particular the list of earlier zombies never holds
\* more than two entries per slot.
THEOREM SelectionTypeCorrect == Spec => []TypeOK
<1>1. SelectionInv => TypeOK
  BY DEF SelectionInv
<1> QED
  BY <1>1, SelectionInvariant, PTL

\* As long as PickRandomVolunteer requires more zombies, enough survivors are left for
\* the quota of each; iMoreRequired never outruns the survivors it was taken from.
THEOREM QuotaAlwaysCovered == Spec => []QuotaIsCovered
<1>1. SelectionInv => QuotaIsCovered
  BY DEF SelectionInv
<1> QED
  BY <1>1, SelectionInvariant, PTL

\* Before each pick the list of earlier zombies is shorter than the number of slots,
\* because ResetVolunteers clears it when it has reached the number of players.
THEOREM ListAlwaysShort == Spec => []ListIsShort
<1>1. SelectionInv => ListIsShort
  BY DEF SelectionInv, RoomForMore, FewChosen, ListIsShort
<1> QED
  BY <1>1, SelectionInvariant, PTL
-----------------------------------------------------------------------------
\* The entries of the volunteers are finitely many, and none is left when nobody has one
LEMMA EntriesCount ==
  ASSUME TypeOK
  PROVE  /\ IsFiniteSet(Entries) /\ Cardinality(Entries) \in Nat
         /\ ~NoVolunteers => Cardinality(Entries) > 0
<1>1. IsFiniteSet(Slots \X (1 .. MaxOffers))
  <2>1. IsFiniteSet(1 .. MaxOffers)
    BY SelectionAssumption, FS_Interval
  <2> QED
    BY <2>1, SelectionAssumption, FS_Product
<1>2. IsFiniteSet(Entries)
  BY <1>1, FS_Subset DEF Entries
<1>3. ASSUME ~NoVolunteers PROVE Entries # {}
  <2>1. PICK p \in Slots : volunteers[p] # 0
    BY <1>3 DEF NoVolunteers
  <2>2. volunteers[p] \in 1 .. MaxOffers
    BY <2>1, SelectionAssumption DEF TypeOK
  <2>3. <<p, volunteers[p]>> \in Entries
    BY <2>2 DEF Entries
  <2> QED
    BY <2>3
<1> QED
  BY <1>2, <1>3, FS_CardinalityType, FS_EmptySet

\* A pass that takes an entry out and leaves the survivors as they are: it was of somebody
\* else, so the entries are what is left to draw, and there is one less.
LEMMA EntryTaken ==
  ASSUME TypeOK, NEW p \in Slots, volunteers[p] > 0, p \notin LivingSurvivors,
         volunteers' = [volunteers EXCEPT ![p] = @ - 1]
  PROVE  Drawable' < Drawable
<1>1. volunteers[p] \in 1 .. MaxOffers /\ volunteers \in [Slots -> 0 .. MaxOffers]
  BY SelectionAssumption DEF TypeOK
<1>2. ~NoVolunteers /\ Others
  BY <1>1 DEF NoVolunteers, Others, Offered
<1>3. IsFiniteSet(Entries) /\ Cardinality(Entries) \in Nat /\ Cardinality(Entries) > 0
  BY <1>2, EntriesCount
<1>4. <<p, volunteers[p]>> \in Entries
  BY <1>1 DEF Entries
<1>5. Entries' = Entries \ {<<p, volunteers[p]>>}
  <2>1. ASSUME NEW q \in Slots, NEW i \in 1 .. MaxOffers
        PROVE  <<q, i>> \in Entries' <=> <<q, i>> \in Entries /\ <<q, i>> # <<p, volunteers[p]>>
    <3>1. CASE q = p
      <4>1. volunteers'[q] = volunteers[p] - 1
        BY <1>1, <3>1
      <4> QED
        BY <1>1, <3>1, <4>1, SelectionAssumption DEF Entries
    <3>2. CASE q # p
      BY <1>1, <3>2 DEF Entries
    <3> QED
      BY <3>1, <3>2
  <2> QED
    BY <2>1 DEF Entries
<1>6. Cardinality(Entries') = Cardinality(Entries) - 1
  BY <1>3, <1>4, <1>5, FS_RemoveElement
<1> QED
  BY <1>2, <1>3, <1>6 DEF Drawable

\* A pass of the loop that another one follows brings it closer to its end: it uses up the
\* second try, or a living survivor, or else an entry, or it fills the empty list with
\* survivors, one of whom the next pass takes.
LEMMA PassRunsDown ==
  ASSUME TypeOK, Pass, phase' = "picking"
  PROVE  \/ Tries' < Tries
         \/ /\ Tries' = Tries
            /\ \/ Cardinality(LivingSurvivors') < Cardinality(LivingSurvivors)
               \/ /\ Cardinality(LivingSurvivors') = Cardinality(LivingSurvivors)
                  /\ Drawable' < Drawable
<1>1. CASE TakeSurvivors
  <2>1. retried' = retried /\ LivingSurvivors' = LivingSurvivors
    BY <1>1 DEF TakeSurvivors, LivingSurvivors, Present
  <2>2. Offered' = Candidates /\ ~NoVolunteers'
    BY <1>1 DEF TakeSurvivors, Offered, NoVolunteers, Candidates, LivingSurvivors
  <2>3. Drawable = 1 /\ Drawable' = 0
    BY <1>1, <2>1, <2>2 DEF TakeSurvivors, Drawable, Others, Candidates
  <2> QED
    BY <2>1, <2>3 DEF Tries
<1>2. CASE TryAgain
  BY <1>2 DEF TryAgain, Tries
<1>3. CASE GiveUp
  BY <1>3 DEF GiveUp
<1>4. ASSUME NEW p \in Slots, DrawPlayer(p) \/ DrawStale(p)
      PROVE  /\ Tries' = Tries
             /\ \/ Cardinality(LivingSurvivors') < Cardinality(LivingSurvivors)
                \/ /\ Cardinality(LivingSurvivors') = Cardinality(LivingSurvivors)
                   /\ Drawable' < Drawable
  <2>1. /\ retried' = retried /\ volunteers[p] > 0
        /\ volunteers' = [volunteers EXCEPT ![p] = @ - 1]
    BY <1>4 DEF DrawPlayer, DrawStale
  <2>2. LivingSurvivors' = LivingSurvivors \ {p}
    BY <1>4 DEF DrawPlayer, DrawStale, LivingSurvivors, Present, TypeOK
  <2>3. IsFiniteSet(LivingSurvivors) /\ Cardinality(LivingSurvivors) \in Nat
    BY SelectionAssumption, FS_Subset, FS_CardinalityType DEF LivingSurvivors
  <2>4. CASE p \in LivingSurvivors
    <3>1. Cardinality(LivingSurvivors') = Cardinality(LivingSurvivors) - 1
      BY <2>2, <2>3, <2>4, FS_RemoveElement
    <3> QED
      BY <2>1, <2>3, <3>1 DEF Tries
  <2>5. CASE p \notin LivingSurvivors
    <3>1. LivingSurvivors' = LivingSurvivors
      BY <2>2, <2>5
    <3> QED
      BY <2>1, <2>5, <3>1, EntryTaken DEF Tries
  <2> QED
    BY <2>4, <2>5
<1> QED
  BY <1>1, <1>2, <1>3, <1>4 DEF Pass

\* The goto loop of PickRandomVolunteer cannot run for ever: each pass that another one
\* follows is smaller in the order of tries, survivors and entries, whatever the slots hold.
THEOREM LoopAlwaysRunsDown == Spec => LoopRunsDown
<1>1. ASSUME TypeOK, Next, phase = "picking", phase' = "picking"
      PROVE  \/ Tries' < Tries
             \/ /\ Tries' = Tries
                /\ \/ Cardinality(LivingSurvivors') < Cardinality(LivingSurvivors)
                   \/ /\ Cardinality(LivingSurvivors') = Cardinality(LivingSurvivors)
                      /\ Drawable' < Drawable
  <2>1. Pass
    BY <1>1 DEF Next, Connect, Disconnect, JoinGame, Fate, PickRandomVolunteer, ResetRound
  <2> QED
    BY <1>1, <2>1, PassRunsDown
<1>2. TypeOK /\ [Next]_vars =>
        [phase = "picking" /\ phase' = "picking" =>
       \/ Tries' < Tries
       \/ /\ Tries' = Tries
          /\ \/ Cardinality(LivingSurvivors') < Cardinality(LivingSurvivors)
             \/ /\ Cardinality(LivingSurvivors') = Cardinality(LivingSurvivors)
                /\ Drawable' < Drawable]_vars
  BY <1>1
<1> QED
  BY <1>2, SelectionTypeCorrect, PTL DEF Spec, LoopRunsDown
-----------------------------------------------------------------------------
(* The passes come to one pick of OnePick *)

\* What OnePick's operators are, in the middle of a pick
There          == {p \in Slots : Present(p)}
FirstOnes      == IF start.offered # {} THEN start.offered ELSE start.living
Takable        == start.living \cup (start.offered \cap There)
QuotaBeside(v) == Cardinality(start.living \ {v}) \div SurvivorsPerZombie

\* The zombies drawn so far are the first one, v, and a set z beside it, which together
\* with what is still required keeps to the quota.
DrawnAre(v, z) ==
  /\ v \in FirstOnes \cap There /\ z \in SUBSET Takable
  /\ LivingSurvivors = start.living \ ({v} \cup z)
  /\ Zombies = start.zombies \cup {v} \cup z
  /\ Cardinality(z) + more <= QuotaBeside(v)

\* Nobody is drawn yet: the entries are those of the volunteers, or of survivors if there
\* were no volunteers, and after the second try every survivor may be taken.
NoneDrawn ==
  /\ LivingSurvivors = start.living /\ Zombies = start.zombies
  /\ Offered \subseteq FirstOnes /\ (start.offered # {} => Offered # {})
  /\ retried => chosen = {}

PickInv ==
  phase = "picking" =>
    /\ more >= 0 /\ Offered \subseteq start.offered \cup start.living
    /\ start.living \subseteq There
    /\ more = 0 => NoneDrawn
    /\ more > 0 => \E v \in Slots, z \in SUBSET Slots : DrawnAre(v, z)

\* What is known when a pick is over: nobody was taken, for one of two reasons, or a first
\* zombie and others up to the quota.
Concluded ==
  \E zs \in SUBSET Takable :
    /\ \/ zs = {} /\ (FirstOnes = {} \/ ~ FirstOnes \subseteq There)
       \/ \E v \in FirstOnes \cap There, z \in SUBSET Takable :
            Cardinality(z) <= QuotaBeside(v) /\ zs = {v} \cup z
    /\ LivingSurvivors' = start.living \ zs /\ Zombies' = start.zombies \cup zs

\* One drawn zombie more, whether it is the first or a later one
LEMMA DrawTakesOne ==
  ASSUME SelectionInv, PickInv, NEW p \in Slots, DrawPlayer(p)
  PROVE  IF phase' = "picking" THEN PickInv' ELSE Concluded
<1> DEFINE required == IF more = 0 THEN MoreRequired(Cardinality(LivingSurvivors \ {p})) ELSE more - 1
<1>1. TypeOK /\ phase = "picking" /\ more \in Nat
  BY DEF SelectionInv, TypeOK, DrawPlayer, PickInv
<1>2. /\ volunteers[p] > 0 /\ p \in There /\ There' = There /\ p \in Offered
      /\ Offered' \subseteq Offered
  BY <1>1 DEF DrawPlayer, There, Present, Offered, TypeOK
<1>3. LivingSurvivors' = LivingSurvivors \ {p} /\ Zombies' = Zombies \cup {p}
  BY <1>1, <1>2 DEF DrawPlayer, LivingSurvivors, Zombies, Present, TypeOK, There
<1>4. more' = required /\ phase' = IF required > 0 THEN "picking" ELSE "running"
  BY DEF DrawPlayer, Continue
<1>5. required > 0 => start' = start
  BY DEF DrawPlayer, Continue
<1>6. p \in Takable
  BY <1>1, <1>2 DEF PickInv, Takable
<1>7. start.living \in SUBSET Slots /\ IsFiniteSet(start.living)
  BY <1>1, SelectionAssumption, FS_Subset DEF TypeOK
<1>8. Takable \in SUBSET Slots
  BY <1>7 DEF Takable, There
<1>9. required \in Int
  <2>1. more' \in -1 .. Cardinality(Slots)
    BY DrawKeeps DEF SelectionInv, TypeOK
  <2>2. Cardinality(Slots) \in Nat
    BY SelectionAssumption, FS_CardinalityType
  <2> HIDE DEF required
  <2> QED
    BY <1>4, <2>1, <2>2
<1>10. \E v \in FirstOnes \cap There, z \in SUBSET Takable :
         /\ LivingSurvivors' = start.living \ ({v} \cup z)
         /\ Zombies' = start.zombies \cup {v} \cup z
         /\ Cardinality(z) \in Nat /\ QuotaBeside(v) \in Nat
         /\ required > 0 => Cardinality(z) + required <= QuotaBeside(v)
         /\ Cardinality(z) <= QuotaBeside(v)
  <2>1. CASE more = 0
    <3>1. NoneDrawn
      BY <1>1, <2>1 DEF PickInv
    <3>2. p \in FirstOnes \cap There
      BY <1>2, <3>1 DEF NoneDrawn
    <3>3. Cardinality(start.living \ {p}) \in Nat
      BY <1>7, FS_RemoveElement, FS_CardinalityType
    <3>4. QuotaBeside(p) \in Nat
      BY <3>3, SelectionAssumption, WholeQuotas DEF QuotaBeside
    <3>5. required = -1 \/ required = QuotaBeside(p)
      BY <2>1, <3>1 DEF NoneDrawn, MoreRequired, QuotaBeside
    <3>6. Cardinality({}) = 0
      BY FS_EmptySet
    <3>7. /\ LivingSurvivors' = start.living \ ({p} \cup {})
          /\ Zombies' = start.zombies \cup {p} \cup {}
      BY <1>3, <3>1 DEF NoneDrawn
    <3> HIDE DEF required
    <3> QED
      BY <3>2, <3>4, <3>5, <3>6, <3>7, <1>9
  <2>2. CASE more # 0
    <3>1. PICK v \in Slots, z \in SUBSET Slots : DrawnAre(v, z)
      BY <1>1, <2>2 DEF PickInv
    <3>2. IsFiniteSet(z) /\ Cardinality(z) \in Nat
      BY SelectionAssumption, FS_Subset, FS_CardinalityType
    <3>3. /\ IsFiniteSet(z \cup {p})
          /\ Cardinality(z \cup {p}) \in Nat /\ Cardinality(z \cup {p}) <= Cardinality(z) + 1
      <4>1. /\ IsFiniteSet(z \cup {p})
            /\ Cardinality(z \cup {p}) = IF p \in z THEN Cardinality(z) ELSE Cardinality(z) + 1
        BY <3>2, FS_AddElement
      <4> QED
        BY <3>2, <4>1
    <3>4. QuotaBeside(v) \in Nat
      <4>1. Cardinality(start.living \ {v}) \in Nat
        BY <1>7, FS_RemoveElement, FS_CardinalityType
      <4> QED
        BY <4>1, SelectionAssumption, WholeQuotas DEF QuotaBeside
    <3>5. /\ v \in FirstOnes \cap There /\ z \cup {p} \in SUBSET Takable
          /\ LivingSurvivors' = start.living \ ({v} \cup (z \cup {p}))
          /\ Zombies' = start.zombies \cup {v} \cup (z \cup {p})
      BY <1>3, <1>6, <3>1 DEF DrawnAre
    <3>6. Cardinality(z) + more <= QuotaBeside(v) /\ required = more - 1
      BY <2>2, <3>1 DEF DrawnAre
    <3>7. /\ Cardinality(z \cup {p}) + required <= QuotaBeside(v)
          /\ Cardinality(z \cup {p}) <= QuotaBeside(v)
      BY <1>1, <2>2, <3>2, <3>3, <3>4, <3>6
    <3> QED
      BY <3>3, <3>4, <3>5, <3>7
  <2> QED
    BY <2>1, <2>2
<1> HIDE DEF required
<1>11. PICK v \in FirstOnes \cap There, z \in SUBSET Takable :
         /\ LivingSurvivors' = start.living \ ({v} \cup z)
         /\ Zombies' = start.zombies \cup {v} \cup z
         /\ Cardinality(z) \in Nat /\ QuotaBeside(v) \in Nat
         /\ required > 0 => Cardinality(z) + required <= QuotaBeside(v)
         /\ Cardinality(z) <= QuotaBeside(v)
  BY <1>10
<1>12. CASE required > 0
  <2>1. /\ FirstOnes' = FirstOnes /\ Takable' = Takable /\ QuotaBeside(v)' = QuotaBeside(v)
        /\ start' = start
    BY <1>2, <1>5, <1>12 DEF FirstOnes, Takable, QuotaBeside
  <2>2. DrawnAre(v, z)'
    BY <1>2, <1>4, <1>11, <1>12, <2>1 DEF DrawnAre
  <2>3. v \in Slots /\ z \in SUBSET Slots
    BY <1>8 DEF There
  <2>4. \E w \in Slots, y \in SUBSET Slots : DrawnAre(w, y)'
    BY <2>2, <2>3
  <2> QED
    BY <1>1, <1>2, <1>4, <1>9, <1>12, <2>1, <2>4 DEF PickInv
<1>13. CASE ~(required > 0)
  <2>1. {v} \cup z \in SUBSET Takable
    BY DEF FirstOnes, Takable
  <2>2. start.living \ ({v} \cup z) = LivingSurvivors' /\ start.zombies \cup ({v} \cup z) = Zombies'
    BY <1>11
  <2>3. Concluded
    BY <1>11, <2>1, <2>2 DEF Concluded
  <2> QED
    BY <1>4, <1>13, <2>3
<1> QED
  BY <1>12, <1>13

\* While the pick goes on, what a pass leaves alone stays as it was when the pick began.
LEMMA PickCarriesOver ==
  ASSUME PickInv, phase = "picking", UNCHANGED <<who, role, more, start>>,
         Offered' \subseteq start.offered \cup start.living,
         more = 0 => NoneDrawn'
  PROVE  PickInv'
<1>1. /\ LivingSurvivors' = LivingSurvivors /\ Zombies' = Zombies /\ There' = There
      /\ FirstOnes' = FirstOnes /\ Takable' = Takable
      /\ \A v \in Slots : QuotaBeside(v)' = QuotaBeside(v)
  BY DEF LivingSurvivors, Zombies, There, Present, FirstOnes, Takable, QuotaBeside
<1>2. \A v \in Slots, z \in SUBSET Slots : DrawnAre(v, z) => DrawnAre(v, z)'
  BY <1>1 DEF DrawnAre
<1> QED
  BY <1>1, <1>2 DEF PickInv

\* Every pass that is not the last keeps what is known of the zombies drawn so far; the
\* last one concludes the pick.
LEMMA PassTakesWhoMayBe ==
  ASSUME SelectionInv, PickInv, Pass
  PROVE  IF phase' = "picking" THEN PickInv' ELSE Concluded
<1>1. TypeOK /\ phase = "picking" /\ more \in Nat /\ Offered \subseteq start.offered \cup start.living
  <2>1. phase = "picking"
    BY DEF Pass, TakeSurvivors, TryAgain, GiveUp, DrawPlayer, DrawStale
  <2>2. TypeOK /\ more \in Int
    BY DEF SelectionInv, TypeOK
  <2> QED
    BY <2>1, <2>2 DEF PickInv
<1>2. CASE TakeSurvivors
  <2>1. /\ phase' = phase /\ UNCHANGED <<who, role, more, start>> /\ retried' = retried
        /\ chosen' = chosen /\ Offered = {} /\ Offered' = Candidates /\ Candidates # {}
    BY <1>1, <1>2 DEF TakeSurvivors, Offered, NoVolunteers, Candidates, LivingSurvivors, TypeOK
  <2>2. LivingSurvivors \subseteq start.living
    BY <1>1 DEF PickInv, NoneDrawn, DrawnAre
  <2>3. Offered' \subseteq start.living
    BY <2>1, <2>2 DEF Candidates
  <2>4. ASSUME more = 0 PROVE NoneDrawn'
    <3>1. NoneDrawn
      BY <1>1, <2>4 DEF PickInv
    <3> QED
      BY <2>1, <2>3, <3>1 DEF NoneDrawn, FirstOnes, LivingSurvivors, Zombies, Present
  <2> QED
    BY <1>1, <2>1, <2>3, <2>4, PickCarriesOver
<1>3. CASE TryAgain
  <2>1. /\ phase' = phase /\ UNCHANGED <<who, role, more, start, volunteers>> /\ chosen' = {}
        /\ Offered' = Offered
    BY <1>3 DEF TryAgain, Offered
  <2>2. ASSUME more = 0 PROVE NoneDrawn'
    <3>1. NoneDrawn
      BY <1>1, <2>2 DEF PickInv
    <3> QED
      BY <2>1, <3>1 DEF NoneDrawn, FirstOnes, LivingSurvivors, Zombies, Present
  <2> QED
    BY <1>1, <2>1, <2>2, PickCarriesOver
<1>4. CASE GiveUp
  <2>1. /\ phase' = "running" /\ UNCHANGED <<who, role>> /\ Offered = {} /\ retried
        /\ Candidates = {}
    BY <1>1, <1>4 DEF GiveUp, Offered, NoVolunteers
  <2>2. LivingSurvivors' = LivingSurvivors /\ Zombies' = Zombies
    BY <2>1 DEF LivingSurvivors, Zombies, Present
  <2>3. CASE more = 0
    <3>1. NoneDrawn
      BY <1>1, <2>3 DEF PickInv
    <3>2. start.offered = {} /\ chosen = {} /\ start.living = {}
      BY <2>1, <3>1 DEF NoneDrawn, Candidates
    <3>3. FirstOnes = {} /\ {} \in SUBSET Takable
      BY <3>2 DEF FirstOnes
    <3>4. LivingSurvivors' = start.living \ {} /\ Zombies' = start.zombies \cup {}
      BY <2>2, <3>1 DEF NoneDrawn
    <3> QED
      BY <2>1, <3>3, <3>4 DEF Concluded
  <2>4. CASE more # 0
    <3>1. PICK v \in Slots, z \in SUBSET Slots : DrawnAre(v, z)
      BY <1>1, <2>4 DEF PickInv
    <3>2. Cardinality(z) \in Nat /\ QuotaBeside(v) \in Nat
      <4>1. IsFiniteSet(z) /\ IsFiniteSet(start.living)
        BY <1>1, SelectionAssumption, FS_Subset DEF TypeOK
      <4>2. Cardinality(z) \in Nat /\ Cardinality(start.living \ {v}) \in Nat
        BY <4>1, FS_RemoveElement, FS_CardinalityType
      <4> QED
        BY <4>2, SelectionAssumption, WholeQuotas DEF QuotaBeside
    <3>3. Cardinality(z) <= QuotaBeside(v)
      BY <1>1, <3>1, <3>2 DEF DrawnAre
    <3>4. {v} \cup z \in SUBSET Takable /\ v \in FirstOnes \cap There /\ z \in SUBSET Takable
      BY <3>1 DEF DrawnAre, FirstOnes, Takable
    <3>5. /\ LivingSurvivors' = start.living \ ({v} \cup z)
          /\ Zombies' = start.zombies \cup ({v} \cup z)
      BY <2>2, <3>1 DEF DrawnAre
    <3> QED
      BY <2>1, <3>3, <3>4, <3>5 DEF Concluded
  <2> QED
    BY <2>3, <2>4
<1>5. ASSUME NEW p \in Slots, DrawPlayer(p)
      PROVE  IF phase' = "picking" THEN PickInv' ELSE Concluded
  BY <1>5, DrawTakesOne
<1>6. ASSUME NEW p \in Slots, DrawStale(p)
      PROVE  IF phase' = "picking" THEN PickInv' ELSE Concluded
  <2>1. /\ more' = more /\ UNCHANGED <<who, role>> /\ p \in Offered /\ p \notin There
        /\ phase' = IF more > 0 THEN "picking" ELSE "running"
        /\ more > 0 => start' = start
    BY <1>6 DEF DrawStale, Continue, Offered, There
  <2>2. Offered' \subseteq Offered
    BY <1>1, <1>6 DEF DrawStale, Offered, TypeOK
  <2>3. CASE more = 0
    <3>1. NoneDrawn
      BY <1>1, <2>3 DEF PickInv
    <3>2. ~ FirstOnes \subseteq There /\ {} \in SUBSET Takable
      BY <2>1, <3>1 DEF NoneDrawn
    <3>3. LivingSurvivors' = start.living \ {} /\ Zombies' = start.zombies \cup {}
      BY <2>1, <3>1 DEF NoneDrawn, LivingSurvivors, Zombies, Present
    <3>4. Concluded
      BY <3>2, <3>3 DEF Concluded
    <3> QED
      BY <2>1, <2>3, <3>4
  <2>4. CASE more # 0
    <3>1. phase' = "picking" /\ start' = start
      BY <1>1, <2>1, <2>4
    <3> QED
      BY <1>1, <2>1, <2>2, <2>4, <3>1, PickCarriesOver
  <2> QED
    BY <2>3, <2>4
<1> QED
  BY <1>2, <1>3, <1>4, <1>5, <1>6 DEF Pass

\* When the pick begins nobody is drawn; outside a pick nothing is claimed.
LEMMA PickInvStep == SelectionInv /\ PickInv /\ [Next]_vars => PickInv'
<1> SUFFICES ASSUME SelectionInv, PickInv, [Next]_vars, phase' = "picking" PROVE PickInv'
  BY DEF PickInv
<1>1. CASE Pass
  BY <1>1, PassTakesWhoMayBe
<1>2. CASE PickRandomVolunteer
  <2>1. /\ UNCHANGED <<who, role, volunteers>> /\ more' = 0 /\ retried' = FALSE
        /\ start' = [living |-> LivingSurvivors, zombies |-> Zombies, offered |-> Offered]
    BY <1>2 DEF PickRandomVolunteer
  <2>2. /\ LivingSurvivors' = start'.living /\ Zombies' = start'.zombies /\ Offered' = start'.offered
        /\ start'.living \subseteq There'
    BY <2>1 DEF LivingSurvivors, Zombies, Offered, Present, There
  <2>3. NoneDrawn'
    BY <2>1, <2>2 DEF NoneDrawn, FirstOnes
  <2> QED
    BY <2>1, <2>2, <2>3 DEF PickInv
<1>3. CASE UNCHANGED vars
  <2>1. UNCHANGED <<who, role, more, start>> /\ Offered' = Offered /\ phase = "picking"
    BY <1>3 DEF vars, Offered
  <2>2. NoneDrawn => NoneDrawn'
    BY <1>3, <2>1 DEF vars, NoneDrawn, LivingSurvivors, Zombies, Present, FirstOnes
  <2> QED
    BY <2>1, <2>2, PickCarriesOver DEF PickInv
<1>4. ASSUME Next, ~Pass, ~PickRandomVolunteer PROVE FALSE
  BY <1>4 DEF Next, Connect, Disconnect, JoinGame, Fate, ResetRound
<1> QED
  BY <1>1, <1>2, <1>3, <1>4

\* What is known of the zombies drawn so far holds throughout.
LEMMA PickInvariant == Spec => [](SelectionInv /\ PickInv)
<1>1. Init => PickInv
  BY DEF Init, PickInv
<1> QED
  BY <1>1, PickInvStep, SelectionInvariant, PTL DEF Spec

\* OnePick counts with the same Cardinality
LEMMA SameCount == \A S : ThePick!Cardinality(S) = Cardinality(S)
  BY DEF ThePick!Cardinality, Cardinality

\* The conclusion of a pick is OnePick's step, all other steps leave the pick as it is.
LEMMA StepIsOnePicks ==
  ASSUME SelectionInv, PickInv, [Next]_vars
  PROVE  [ThePick!Pick \/ ThePick!Meanwhile]_(ThePick!pickVars)
<1>1. TypeOK
  BY DEF SelectionInv
<1>2. CASE Pass /\ phase' = "picking"
  <2>1. phase = "picking" /\ UNCHANGED <<who, start>>
    BY <1>2 DEF Pass, TakeSurvivors, TryAgain, GiveUp, DrawPlayer, DrawStale, Continue
  <2>2. {p \in Slots : Present(p)}' = {p \in Slots : Present(p)}
    BY <2>1 DEF Present
  <2> QED
    BY <1>2, <2>1, <2>2 DEF ThePick!pickVars
<1>3. CASE Pass /\ phase' # "picking"
  <2>1. phase = "picking" /\ phase' = "running" /\ who' = who
    <3>1. TakeSurvivors \/ TryAgain => phase = "picking" /\ phase' = "picking"
      BY DEF TakeSurvivors, TryAgain
    <3>2. GiveUp => phase = "picking" /\ phase' = "running" /\ who' = who
      BY DEF GiveUp
    <3>3. ASSUME NEW p \in Slots, DrawPlayer(p) \/ DrawStale(p)
          PROVE  phase = "picking" /\ phase' \in {"picking", "running"} /\ who' = who
      <4> DEFINE c(r) == phase' = IF r > 0 THEN "picking" ELSE "running"
      <4>1. \E r : c(r)
        BY <3>3 DEF DrawPlayer, DrawStale, Continue
      <4>2. phase = "picking" /\ who' = who
        BY <3>3 DEF DrawPlayer, DrawStale
      <4> QED
        BY <4>1, <4>2
    <3> QED
      BY <1>3, <3>1, <3>2, <3>3 DEF Pass
  <2>2. {p \in Slots : Present(p)}' = {p \in Slots : Present(p)}
    BY <2>1 DEF Present
  <2>3. PICK zs \in SUBSET Takable :
          /\ \/ zs = {} /\ (FirstOnes = {} \/ ~ FirstOnes \subseteq There)
             \/ \E v \in FirstOnes \cap There, z \in SUBSET Takable :
                  Cardinality(z) <= QuotaBeside(v) /\ zs = {v} \cup z
          /\ LivingSurvivors' = start.living \ zs /\ Zombies' = start.zombies \cup zs
    BY <1>3, PassTakesWhoMayBe DEF Concluded
  <2>4. zs \in ThePick!Outcomes
    <3>1. ThePick!First = FirstOnes /\ ThePick!Pool = Takable
      BY <2>1 DEF ThePick!First, ThePick!Pool, FirstOnes, Takable, There
    <3>2. \A v \in Slots : ThePick!Quota(v) = QuotaBeside(v)
      <4>1. start.living = IF phase = "picking" THEN start.living ELSE LivingSurvivors
        BY <2>1
      <4> QED
        BY <4>1, SameCount DEF ThePick!Quota, QuotaBeside
    <3> QED
      BY <2>3, <3>1, <3>2, SameCount DEF ThePick!Outcomes, There
  <2>5. ThePick!Pick
    BY <2>1, <2>2, <2>3, <2>4 DEF ThePick!Pick
  <2> QED
    BY <2>5
<1>4. CASE ~Pass
  <2>1. phase' = "running" => phase = "running"
    BY <1>1, <1>4 DEF Next, Connect, Disconnect, JoinGame, Fate, PickRandomVolunteer, ResetRound, vars
  <2> QED
    BY <2>1 DEF ThePick!Meanwhile
<1> QED
  BY <1>2, <1>3, <1>4

\* PickRandomVolunteer, pass by pass, implements the one step that RoundFlow takes for it:
\* the zombies are volunteers who are there and living survivors, at most one more than the
\* quota of the survivors that the first one leaves.
THEOREM PickAlwaysOneStep == Spec => PickIsOneStep
<1>1. Init => ~(phase = "running")
  BY DEF Init
<1>2. SelectionInv /\ PickInv /\ [Next]_vars => [ThePick!Pick \/ ThePick!Meanwhile]_(ThePick!pickVars)
  BY StepIsOnePicks
<1> QED
  BY <1>1, <1>2, PickInvariant, PTL DEF Spec, PickIsOneStep, ThePick!PickSpec
=============================================================================
