------------------------- MODULE MapEntities_proofs -------------------------
(***************************************************************************)
(* Theorems about MapEntities, for any times, any number of players, any   *)
(* objectives and any uses that the map makes of them.                     *)
(***************************************************************************)
EXTENDS MapEntities, FiniteSetTheorems, TLAPS

-----------------------------------------------------------------------------
(* The list of the players who touched the point *)

\* Nothing is left of a list of which no place is taken, ...
LEMMA AtNone == ASSUME NEW q PROVE At(q, {}) = <<>>
<1>1. Cardinality({}) = 0
  BY FS_EmptySet
<1> QED
  BY <1>1 DEF At

\* ... and all of a list of one if its place is.
LEMMA AtOne == ASSUME NEW e PROVE At(<<e>>, {1}) = <<e>>
<1>1. Cardinality({1}) = 1
  BY FS_Singleton
<1>2. \A i \in {1} : {j \in {1} : j <= i} = {1}
  OBVIOUS
<1>3. (CHOOSE i \in {1} : Cardinality({j \in {1} : j <= i}) = 1) = 1
  BY <1>1, <1>2
<1>4. At(<<e>>,
      {1}) = [n \in 1 .. 1 |-> <<e>>[CHOOSE i \in {1} : Cardinality({j \in {1} : j <= i}) = n]]
  BY <1>1 DEF At
<1>5. \A n \in 1 .. 1 : <<e>>[CHOOSE i \in {1} : Cardinality({j \in {1} : j <= i}) = n] = e
  <2>1. \A n \in 1 .. 1 : n = 1
    OBVIOUS
  <2>2. <<e>>[1] = e
    OBVIOUS
  <2> QED
    BY <1>3, <2>1, <2>2
<1>6. At(<<e>>, {1}) = [n \in 1 .. 1 |-> e]
  BY <1>4, <1>5, Zenon
<1>7. [n \in 1 .. 1 |-> e] = <<e>>
  OBVIOUS
<1> QED
  BY <1>6, <1>7

\* Nothing is erased from an empty list, ...
LEMMA ErasedNone == Erased(<<>>) = {}
  BY DEF Erased

\* ... and from a list of one its entry, if its time is up.
LEMMA ErasedOne ==
  ASSUME NEW e
  PROVE  Erased(<<e>>) = IF e.left = 0 THEN {1} ELSE {}
<1>1. Len(<<e>>) = 1 /\ <<e>>[1] = e
  OBVIOUS
<1>2. CASE e.left = 0
  <2>1. 1 \in Erased(<<e>>)
    <3>1. \E j \in 1 .. 1 :
            /\ \A k \in j .. 1 : <<e>>[k].left = 0
            /\ j > 1 => <<e>>[j - 1].left > 0
            /\ (1 - j) % 2 = 0
      <4>1. (1 - 1) % 2 = 0
        OBVIOUS
      <4>2. \A k \in 1 .. 1 : <<e>>[k].left = 0
        BY <1>2
      <4> QED
        BY <4>1, <4>2
    <3> QED
      BY <1>1, <3>1 DEF Erased
  <2>2. Erased(<<e>>) \subseteq {1}
    BY <1>1 DEF Erased
  <2> QED
    BY <1>2, <2>1, <2>2
<1>3. CASE e.left # 0
  <2>1. Erased(<<e>>) \subseteq {1}
    BY <1>1 DEF Erased
  <2>2. 1 \notin Erased(<<e>>)
    BY <1>1, <1>3 DEF Erased
  <2> QED
    BY <1>3, <2>1, <2>2
<1> QED
  BY <1>2, <1>3

\* A list of one: the think erases who left, and counts who did not.
LEMMA ThinkOne ==
  ASSUME NEW e, OnCaptureThink(<<e>>)
  PROVE  /\ touching' = IF e.left = 0 THEN <<>> ELSE <<e>>
         /\ rate' \in 0 .. MaxRate /\ (~(e.left > 0) => rate' = 0)
<1>1. Len(<<e>>) = 1 /\ <<e>>[1] = e
  OBVIOUS
<1>2. touching' = At(<<e>>, (1 .. Len(<<e>>)) \ Erased(<<e>>))
  BY DEF OnCaptureThink
<1>3. touching' = IF e.left = 0 THEN <<>> ELSE <<e>>
  <2>1. CASE e.left = 0
    <3>1. (1 .. Len(<<e>>)) \ Erased(<<e>>) = {}
      BY <1>1, <2>1, ErasedOne
    <3>2. touching' = <<>>
      BY <1>2, <3>1, AtNone, Zenon
    <3> QED
      BY <2>1, <3>2
  <2>2. CASE e.left # 0
    <3>1. (1 .. Len(<<e>>)) \ Erased(<<e>>) = {1}
      BY <1>1, <2>2, ErasedOne
    <3>2. touching' = <<e>>
      BY <1>2, <3>1, AtOne, Zenon
    <3> QED
      BY <2>2, <3>2
  <2> QED
    BY <2>1, <2>2
<1>4. ASSUME ~(e.left > 0) PROVE rate' = 0
  <2>1. Counted(<<e>>) = {}
    BY <1>1, <1>4 DEF Counted
  <2>2. Cardinality(Counted(<<e>>)) = 0
    BY <2>1, FS_EmptySet
  <2> QED
    BY <2>2, CapturePointAssumption DEF OnCaptureThink, Least
<1>5. rate' \in 0 .. MaxRate
  <2>1. Counted(<<e>>) \subseteq {1}
    BY <1>1 DEF Counted
  <2>2. Counted(<<e>>) = {} \/ Counted(<<e>>) = {1}
    BY <2>1
  <2>3. Cardinality(Counted(<<e>>)) \in {0, 1}
    BY <2>2, FS_EmptySet, FS_Singleton
  <2> QED
    BY <2>3, CapturePointAssumption DEF OnCaptureThink, Least
<1> QED
  BY <1>3, <1>4, <1>5

\* An empty list stays empty, and the rate 0.
LEMMA ThinkNone ==
  ASSUME OnCaptureThink(<<>>)
  PROVE  touching' = <<>> /\ rate' = 0
<1>1. (1 .. Len(<<>>)) \ Erased(<<>>) = {} /\ Counted(<<>>) = {}
  BY ErasedNone DEF Counted
<1>2. Cardinality(Counted(<<>>)) = 0
  BY <1>1, FS_EmptySet
<1> QED
  BY <1>1, <1>2, AtNone, CapturePointAssumption DEF OnCaptureThink, Least

-----------------------------------------------------------------------------
(* Times *)

\* The times, and how they fit together
LEMMA Times ==
  /\ Delay \in Nat /\ Stay \in Nat /\ Every \in Nat /\ FirstThink \in Nat /\ Frame \in Nat
  /\ PerPlayer \in Nat /\ MaxRate \in Nat /\ Full \in Nat
  /\ Delay > 0 /\ Every > 0 /\ FirstThink > 0 /\ Frame > 0 /\ Full > 0
  /\ Every <= FirstThink /\ MaxRate < Delay
  /\ FirstThink + Frame <= Delay /\ Stay + Every + Frame - 1 <= Delay
  BY CapturePointAssumption

Entry(c, l) == [client |-> c, left |-> l]

\* Who is on the list leaves it before the next step of a capture: the think comes first, and
\* takes the entry off, or comes again before the entry's time is up.
Held(c, l) ==
  /\ touching = <<Entry(c, l)>> /\ nextCheck >= thinkIn + Frame
  /\ l > thinkIn => nextCheck >= l + Every + Frame - 1

TimeInv ==
  /\ nextCheck \in 0 .. Delay /\ contested \in 0 .. nextCheck
  /\ thinkIn \in 1 .. FirstThink /\ rate \in 0 .. MaxRate
  /\ \/ touching = <<>> /\ rate = 0
     \/ \E c \in Clients, l \in 0 .. Stay : Held(c, l)

\* By the time of the next step of a capture nobody is on the list.
LEMMA NobodyAtACheck ==
  ASSUME TimeInv
  PROVE  /\ PaceIsOne /\ (nextCheck = 0 => contested = 0)
         /\ touching \in Seq([client : Clients, left : 0 .. Stay])
<1>1. nextCheck = 0 => contested = 0
  BY DEF TimeInv
<1>2. CASE touching = <<>> /\ rate = 0
  BY <1>1, <1>2 DEF PaceIsOne
<1>3. ASSUME NEW c \in Clients, NEW l \in 0 .. Stay, Held(c, l)
      PROVE  PaceIsOne /\ touching \in Seq([client : Clients, left : 0 .. Stay])
  <2>1. nextCheck # 0
    BY <1>3, Times DEF Held, TimeInv
  <2>2. Entry(c, l) \in [client : Clients, left : 0 .. Stay]
    BY DEF Entry
  <2> QED
    BY <1>3, <2>1, <2>2 DEF Held, PaceIsOne
<1> QED
  BY <1>1, <1>2, <1>3 DEF TimeInv

\* The step leaves the times alone, or starts the delay again.
LEMMA DelayAgain ==
  ASSUME TimeInv, UNCHANGED <<touching, thinkIn>>,
         \/ UNCHANGED <<nextCheck, rate, contested>>
         \/ /\ nextCheck' = Delay /\ rate' \in {rate, 0} /\ contested' \in {contested, Delay}
  PROVE  TimeInv'
<1>1. nextCheck' >= nextCheck /\ nextCheck' \in 0 .. Delay /\ contested' \in 0 .. nextCheck'
  BY Times DEF TimeInv
<1>2. rate' \in 0 .. MaxRate /\ thinkIn' \in 1 .. FirstThink /\ (rate = 0 => rate' = 0)
  BY Times DEF TimeInv
<1>3. CASE touching = <<>> /\ rate = 0
  BY <1>1, <1>2, <1>3 DEF TimeInv
<1>4. ASSUME NEW c \in Clients, NEW l \in 0 .. Stay, Held(c, l)
      PROVE  Held(c, l)'
  BY <1>1, <1>4, Times DEF Held, TimeInv, Entry
<1> QED
  BY <1>1, <1>2, <1>3, <1>4 DEF TimeInv

\* A survivor's touch finds the list empty, and puts him on it.
LEMMA TouchPutsOn ==
  ASSUME TimeInv, NEW c \in Clients, nextCheck = 0,
         nextCheck' = Delay - rate, touching' = Touched(c), UNCHANGED <<thinkIn, rate, contested>>
  PROVE  TimeInv'
<1>1. touching = <<>> /\ rate = 0 /\ contested = 0
  <2>1. ASSUME NEW d \in Clients, NEW l \in 0 .. Stay, Held(d, l) PROVE FALSE
    BY <2>1, Times DEF Held, TimeInv
  <2> QED
    BY <2>1 DEF TimeInv
<1>2. touching' = <<Entry(c, Stay)>>
  BY <1>1 DEF Touched, Entry
<1>3. nextCheck' = Delay
  BY <1>1, Times
<1>4. Held(c, Stay)'
  BY <1>2, <1>3, Times DEF Held, TimeInv, Entry
<1> QED
  BY <1>1, <1>3, <1>4, Times DEF TimeInv

\* A frame keeps the times in order, whether the point thinks in it or not.
LEMMA FramePasses ==
  ASSUME TimeInv, NEW d \in 1 .. Frame, Tick(d)
  PROVE  TimeInv'
<1> DEFINE older == [i \in 1 .. Len(touching) |->
                       [client |-> touching[i].client, left |-> Passed(touching[i].left, d)]]
<1>1. /\ nextCheck' \in 0 .. Delay /\ contested' \in 0 .. nextCheck'
      /\ nextCheck' >= nextCheck - d
  BY Times DEF Tick, Passed, TimeInv
<1>2. CASE touching = <<>> /\ rate = 0
  <2>1. older = <<>>
    BY <1>2
  <2>2. CASE thinkIn > d /\ thinkIn' = thinkIn - d /\ touching' = older /\ UNCHANGED rate
    BY <1>1, <1>2, <2>1, <2>2, Times DEF TimeInv
  <2>3. CASE thinkIn <= d /\ OnCaptureThink(older)
    <3>1. OnCaptureThink(<<>>)
      BY <2>1, <2>3
    <3>2. thinkIn' = Every
      BY <2>3 DEF OnCaptureThink
    <3> QED
      BY <1>1, <3>1, <3>2, ThinkNone, Times DEF TimeInv
  <2> QED
    BY <2>2, <2>3 DEF Tick
<1>3. ASSUME NEW c \in Clients, NEW l \in 0 .. Stay, Held(c, l)
      PROVE  TimeInv'
  <2> DEFINE m == Passed(l, d)
  <2>1. m \in 0 .. Stay /\ (m > 0 => m = l - d)
    BY Times DEF Passed
  <2>2. Len(touching) = 1 /\ touching[1] = Entry(c, l)
    BY <1>3 DEF Held
  <2>3. older = <<Entry(c, m)>>
    <3>1. Entry(c, l).client = c /\ Entry(c, l).left = l
      BY DEF Entry
    <3>2. older = [i \in 1 .. 1 |-> Entry(c, m)]
      <4>1. \A i \in 1 .. 1 : touching[i] = Entry(c, l)
        BY <2>2
      <4> QED
        BY <2>2, <3>1, <4>1 DEF Entry
    <3> QED
      BY <3>2
  <2>4. CASE thinkIn > d /\ thinkIn' = thinkIn - d /\ touching' = older /\ UNCHANGED rate
    <3>1. Held(c, m)'
      <4>1. touching' = <<Entry(c, m)>>'
        BY <2>3, <2>4 DEF Entry
      <4>2. (nextCheck >= thinkIn + Frame)'
        BY <1>1, <1>3, <2>4, Times DEF Held, TimeInv
      <4>3. (m > thinkIn => nextCheck >= m + Every + Frame - 1)'
        BY <1>1, <1>3, <2>1, <2>4, Times DEF Held, TimeInv
      <4> QED
        BY <4>1, <4>2, <4>3 DEF Held
    <3>2. thinkIn' \in 1 .. FirstThink /\ rate' \in 0 .. MaxRate
      BY <2>4, Times DEF TimeInv
    <3> QED
      BY <1>1, <2>1, <3>1, <3>2 DEF TimeInv
  <2>5. CASE thinkIn <= d /\ OnCaptureThink(older)
    <3>1. OnCaptureThink(<<Entry(c, m)>>)
      BY <2>3, <2>5
    <3>2. Entry(c, m).left = m
      BY DEF Entry
    <3>3. /\ touching' = IF m = 0 THEN <<>> ELSE <<Entry(c, m)>>
          /\ rate' \in 0 .. MaxRate /\ (~(m > 0) => rate' = 0)
      BY <3>1, <3>2, ThinkOne
    <3>4. thinkIn' = Every
      BY <2>5 DEF OnCaptureThink
    <3>5. CASE m = 0
      BY <1>1, <2>1, <3>3, <3>4, <3>5, Times DEF TimeInv
    <3>6. CASE m # 0
      <4>1. nextCheck' >= Every + Frame /\ (m > Every => nextCheck' >= m + Every + Frame - 1)
        BY <1>1, <1>3, <2>1, <2>5, <3>6, Times DEF Held, TimeInv
      <4>2. Held(c, m)'
        BY <3>3, <3>4, <3>6, <4>1 DEF Held, Entry
      <4> QED
        BY <1>1, <2>1, <3>3, <3>4, <4>2, Times DEF TimeInv
    <3> QED
      BY <3>5, <3>6
  <2> QED
    BY <2>4, <2>5 DEF Tick
<1> QED
  BY <1>2, <1>3 DEF TimeInv

-----------------------------------------------------------------------------
(* The beacon and its drawing *)

PointTypes ==
  /\ phase \in {"waiting", "begun", "over", "dropped"} /\ resetQueued \in BOOLEAN
  /\ enabled \in BOOLEAN /\ checking \in BOOLEAN
  /\ lit \in BOOLEAN /\ forcedOff \in BOOLEAN /\ health \in 0 .. Full /\ bar \in BOOLEAN
  /\ viewer \in {"out", "lobby", "in"} /\ missed \in BOOLEAN
  /\ drawn \in [lit : BOOLEAN, health : 0 .. Full, bar : BOOLEAN]

\* But for a reset that is on its way, a client that draws the beacon draws it as it is.
NotStale ==
  viewer # "out" /\ ~resetQueued => ~drawn.lit \/ drawn = Drawing(lit, health, bar)

\* Before a round has begun the beacon is lit where its beginning tells of it.
LitForAReason == phase = "waiting" /\ lit => enabled \/ StartsLit \/ missed

DrawnInv ==
  NotStale /\ LitForAReason /\ DrawnAsItIs /\ (resetQueued => phase \in {"waiting", "dropped"})

\* What the map starts with is of its type.
LEMMA Starts == 0 \in 0 .. Full /\ StartsEnabled \in BOOLEAN /\ StartsLit \in BOOLEAN
<1>1. 0 \in 0 .. Full
  BY Times
<1>2. StartsEnabled \in BOOLEAN /\ StartsLit \in BOOLEAN
  BY CapturePointAssumption
<1> QED
  BY <1>1, <1>2

\* A drawing is of its type, and says what it is of.
LEMMA DrawingIs ==
  ASSUME NEW l \in BOOLEAN, NEW h \in 0 .. Full, NEW b \in BOOLEAN
  PROVE  /\ Drawing(l, h, b) \in [lit : BOOLEAN, health : 0 .. Full, bar : BOOLEAN]
         /\ Drawing(l, h, b).lit = l
  BY DEF Drawing

\* So is the drawing of nothing.
LEMMA NothingIs ==
  Nothing \in [lit : BOOLEAN, health : 0 .. Full, bar : BOOLEAN] /\ ~Nothing.lit
  BY Times DEF Nothing, Drawing

\* What a use makes of a flag is a flag.
LEMMA UsedIs ==
  ASSUME PointTypes, NEW type, UseBeacon(type)
  PROVE  /\ lit' \in BOOLEAN /\ forcedOff' \in BOOLEAN
         /\ type = "off" => ~lit'
<1>1. forcedOff' \in BOOLEAN
  BY DEF UseBeacon, PointTypes
<1>2. lit' \in BOOLEAN
  BY DEF UseBeacon
<1>3. type = "off" => ~lit'
  BY DEF UseBeacon, Used
<1> QED
  BY <1>1, <1>2, <1>3

\* The clients are told.
LEMMA Told ==
  ASSUME PointTypes, DrawnInv, UpdateMessageState, UNCHANGED <<phase, resetQueued, viewer>>,
         lit' \in BOOLEAN, health' \in 0 .. Full, bar' \in BOOLEAN, LitForAReason'
  PROVE  DrawnInv' /\ drawn' \in [lit : BOOLEAN, health : 0 .. Full, bar : BOOLEAN]
<1>1. CASE viewer = "out"
  BY <1>1 DEF DrawnInv, NotStale, DrawnAsItIs, UpdateMessageState, PointTypes
<1>2. CASE viewer # "out"
  <2>1. drawn' = Drawing(lit', health', bar')
    BY <1>2 DEF UpdateMessageState
  <2>2. drawn' \in [lit : BOOLEAN, health : 0 .. Full, bar : BOOLEAN] /\ drawn'.lit = lit'
    BY <2>1, DrawingIs
  <2>3. Drawing(lit, health, bar)' = Drawing(lit', health', bar')
    BY DEF Drawing
  <2>4. NotStale'
    BY <2>1, <2>3 DEF NotStale
  <2>5. DrawnAsItIs'
    BY <2>1, <2>2, <2>3 DEF DrawnAsItIs
  <2> QED
    BY <2>2, <2>4, <2>5 DEF DrawnInv
<1> QED
  BY <1>1, <1>2

PointInv == TimeInv /\ PointTypes /\ DrawnInv

\* The point is in order at first, ...
LEMMA PointInitInv == ASSUME PointInit PROVE PointInv
<1>1. TimeInv
  BY Times DEF PointInit, TimeInv
<1>2. PointTypes
  <2>1. 0 \in 0 .. Full /\ StartsEnabled \in BOOLEAN /\ StartsLit \in BOOLEAN
    BY Starts
  <2> QED
    BY <2>1, NothingIs DEF PointInit, PointTypes
<1>3. DrawnInv
  BY NothingIs DEF PointInit, DrawnInv, NotStale, LitForAReason, DrawnAsItIs
<1> QED
  BY <1>1, <1>2, <1>3 DEF PointInv

-----------------------------------------------------------------------------
(* The steps *)

\* Neither the beacon nor the round changes.
LEMMA BeaconStays ==
  ASSUME PointTypes, DrawnInv, UNCHANGED <<beaconVars, viewVars, enabled, drawn>>,
         checking' \in BOOLEAN
  PROVE  PointTypes' /\ DrawnInv'
  BY DEF PointTypes, DrawnInv, NotStale, LitForAReason, DrawnAsItIs, Drawing, beaconVars, viewVars

\* ... and stays so when it is used, ...
LEMMA UseInv == ASSUME PointInv, NEW type, Use(type) PROVE PointInv'
<1>1. TimeInv'
  BY DelayAgain DEF PointInv, Use
<1>2. PointTypes /\ DrawnInv
  BY DEF PointInv
<1>3. /\ enabled' \in BOOLEAN /\ UNCHANGED <<phase, resetQueued, viewer, missed, checking>>
      /\ health' \in 0 .. Full /\ bar' \in BOOLEAN
  BY <1>2 DEF Use, Used, PointTypes, viewVars
<1>4. lit' \in BOOLEAN /\ forcedOff' \in BOOLEAN /\ (~enabled' => ~lit')
  BY <1>2, UsedIs DEF Use
<1>5. LitForAReason'
  BY <1>3, <1>4 DEF LitForAReason
<1>6. DrawnInv' /\ drawn' \in [lit : BOOLEAN, health : 0 .. Full, bar : BOOLEAN]
  BY <1>2, <1>3, <1>4, <1>5, Told DEF Use
<1>7. PointTypes'
  BY <1>2, <1>3, <1>4, <1>6 DEF PointTypes
<1> QED
  BY <1>1, <1>6, <1>7 DEF PointInv

\* ... when the map uses the beacon, ...
LEMMA MapUsesBeaconInv == ASSUME PointInv, NEW type, MapUsesBeacon(type) PROVE PointInv'
<1>1. TimeInv'
  BY DelayAgain DEF PointInv, MapUsesBeacon, timeVars
<1>2. PointTypes /\ DrawnInv
  BY DEF PointInv
<1>3. /\ UNCHANGED <<phase, resetQueued, viewer, checking, enabled, health, bar>>
      /\ missed' \in BOOLEAN /\ (phase = "waiting" => missed')
  BY <1>2 DEF MapUsesBeacon, PointTypes
<1>4. lit' \in BOOLEAN /\ forcedOff' \in BOOLEAN
  BY <1>2, UsedIs DEF MapUsesBeacon
<1>5. LitForAReason'
  BY <1>3 DEF LitForAReason
<1>6. health' \in 0 .. Full /\ bar' \in BOOLEAN
  BY <1>2, <1>3 DEF PointTypes
<1>7. DrawnInv' /\ drawn' \in [lit : BOOLEAN, health : 0 .. Full, bar : BOOLEAN]
  BY <1>2, <1>3, <1>4, <1>5, <1>6, Told DEF MapUsesBeacon
<1>8. PointTypes'
  BY <1>2, <1>3, <1>4, <1>6, <1>7 DEF PointTypes
<1> QED
  BY <1>1, <1>7, <1>8 DEF PointInv

\* ... when the script sets the progress, ...
LEMMA ScriptInv ==
  ASSUME PointInv, NEW hb \in Scripted, OnScriptCallBack(hb[1], hb[2]) PROVE PointInv'
<1>1. TimeInv'
  BY DelayAgain DEF PointInv, OnScriptCallBack, timeVars
<1>2. PointTypes /\ DrawnInv
  BY DEF PointInv
<1>3. /\ UNCHANGED <<phase, resetQueued, viewer, missed, checking, enabled, lit, forcedOff>>
      /\ health' \in 0 .. Full /\ bar' \in BOOLEAN
  BY CapturePointAssumption DEF OnScriptCallBack, viewVars
<1>4. LitForAReason' /\ lit' \in BOOLEAN
  BY <1>2, <1>3 DEF DrawnInv, LitForAReason, PointTypes
<1>5. DrawnInv' /\ drawn' \in [lit : BOOLEAN, health : 0 .. Full, bar : BOOLEAN]
  BY <1>2, <1>3, <1>4, Told DEF OnScriptCallBack
<1>6. PointTypes'
  BY <1>2, <1>3, <1>5 DEF PointTypes
<1> QED
  BY <1>1, <1>5, <1>6 DEF PointInv

\* ... at each step of a capture, ...
LEMMA CaptureGoesOnInv == ASSUME PointInv, NEW c \in Clients, CaptureGoesOn(c) PROVE PointInv'
<1>1. TimeInv'
  BY TouchPutsOn DEF PointInv, CaptureGoesOn, MayCapture
<1>2. PointTypes /\ DrawnInv
  BY DEF PointInv
<1>3. /\ UNCHANGED <<phase, resetQueued, viewer, missed, checking, enabled, lit, forcedOff>>
      /\ health' \in 0 .. Full /\ bar' \in BOOLEAN
  BY <1>2, Times DEF CaptureGoesOn, viewVars, PointTypes
<1>4. LitForAReason' /\ lit' \in BOOLEAN
  BY <1>2, <1>3 DEF DrawnInv, LitForAReason, PointTypes
<1>5. DrawnInv' /\ drawn' \in [lit : BOOLEAN, health : 0 .. Full, bar : BOOLEAN]
  BY <1>2, <1>3, <1>4, Told DEF CaptureGoesOn
<1>6. PointTypes'
  BY <1>2, <1>3, <1>5 DEF PointTypes
<1> QED
  BY <1>1, <1>5, <1>6 DEF PointInv

\* ... at the last of them, ...
LEMMA CapturedInv == ASSUME PointInv, NEW c \in Clients, Captured(c) PROVE PointInv'
<1>1. TimeInv'
  BY TouchPutsOn DEF PointInv, Captured, MayCapture
<1>2. PointTypes /\ DrawnInv
  BY DEF PointInv
<1>3. /\ UNCHANGED <<phase, resetQueued, viewer, missed, checking>> /\ enabled' = FALSE
      /\ health' \in 0 .. Full /\ bar' \in BOOLEAN
  BY <1>2 DEF Captured, viewVars, PointTypes
<1>4. lit' \in BOOLEAN /\ forcedOff' \in BOOLEAN /\ ~lit'
  BY <1>2, UsedIs DEF Captured
<1>5. LitForAReason'
  BY <1>4 DEF LitForAReason
<1>6. DrawnInv' /\ drawn' \in [lit : BOOLEAN, health : 0 .. Full, bar : BOOLEAN]
  BY <1>2, <1>3, <1>4, <1>5, Told DEF Captured
<1>7. PointTypes'
  BY <1>2, <1>3, <1>4, <1>6 DEF PointTypes
<1> QED
  BY <1>1, <1>6, <1>7 DEF PointInv

\* ... at the reset, ...
LEMMA ResetRoundInv == ASSUME PointInv, ResetRound PROVE PointInv'
<1>1. TimeInv'
  BY DelayAgain DEF PointInv, ResetRound
<1>2. PointTypes /\ DrawnInv
  BY DEF PointInv
<1>3. /\ phase' = "waiting" /\ resetQueued' = TRUE /\ missed' = FALSE /\ lit' = StartsLit
      /\ StartsLit \in BOOLEAN /\ StartsEnabled \in BOOLEAN
  BY CapturePointAssumption DEF ResetRound
<1>4. drawn' \in [lit : BOOLEAN, health : 0 .. Full, bar : BOOLEAN]
  <2>1. Drawing(StartsEnabled, 0, FALSE) \in [lit : BOOLEAN, health : 0 .. Full, bar : BOOLEAN]
    BY Starts, DrawingIs
  <2> QED
    BY <1>2, <2>1 DEF ResetRound, PointTypes
<1>5. PointTypes'
  BY <1>2, <1>4, Starts DEF ResetRound, PointTypes
<1>6. DrawnInv'
  BY <1>3 DEF DrawnInv, NotStale, LitForAReason, DrawnAsItIs
<1> QED
  BY <1>1, <1>5, <1>6 DEF PointInv

\* ... when the clients are told of the reset, ...
LEMMA RoundResetPostInv == ASSUME PointInv, RoundResetPost PROVE PointInv'
<1>1. TimeInv'
  BY DelayAgain DEF PointInv, RoundResetPost, timeVars
<1>2. PointTypes /\ DrawnInv
  BY DEF PointInv
<1>3. /\ resetQueued /\ resetQueued' = FALSE /\ phase \in {"waiting", "dropped"}
      /\ UNCHANGED <<lit, forcedOff, health, bar, phase, viewer, missed, enabled, checking>>
  BY <1>2 DEF RoundResetPost, beaconVars, DrawnInv
<1>4. drawn' = IF viewer = "out" THEN drawn ELSE Nothing
  BY DEF RoundResetPost
<1>5. PointTypes'
  BY <1>2, <1>3, <1>4, NothingIs DEF PointTypes
<1>6. NotStale'
  BY <1>3, <1>4, NothingIs DEF NotStale
<1>7. LitForAReason' /\ DrawnAsItIs'
  BY <1>2, <1>3 DEF DrawnInv, LitForAReason, DrawnAsItIs
<1> QED
  BY <1>1, <1>3, <1>5, <1>6, <1>7 DEF PointInv, DrawnInv

\* ... at the beginning of a round, ...
LEMMA RoundBeginsInv == ASSUME PointInv, RoundBegins PROVE PointInv'
<1>1. TimeInv'
  <2>1. CASE enabled
    BY <2>1, DelayAgain DEF PointInv, RoundBegins
  <2>2. CASE ~enabled
    BY <2>2, DelayAgain DEF PointInv, RoundBegins
  <2> QED
    BY <2>1, <2>2
<1>2. PointTypes /\ DrawnInv
  BY DEF PointInv
<1>3. /\ phase = "waiting" /\ phase' = "begun" /\ ~resetQueued
      /\ UNCHANGED <<resetQueued, viewer, missed, enabled, checking, health, bar>>
  BY DEF RoundBegins
<1>4. lit' \in BOOLEAN /\ forcedOff' \in BOOLEAN
  <2>1. CASE enabled
    BY <1>2, <2>1, UsedIs DEF RoundBegins
  <2>2. CASE ~enabled
    BY <1>2, <2>2 DEF RoundBegins, PointTypes
  <2> QED
    BY <2>1, <2>2
<1>5. LitForAReason'
  BY <1>3 DEF LitForAReason
<1>6. health' \in 0 .. Full /\ bar' \in BOOLEAN
  BY <1>2, <1>3 DEF PointTypes
<1>7. CASE StartsLit \/ enabled
  <2>1. drawn' = IF viewer = "out" THEN drawn ELSE Drawing(lit', health', bar')
    BY <1>7 DEF RoundBegins, UpdateMessageState
  <2>2. Drawing(lit, health, bar)' = Drawing(lit', health', bar')
    BY DEF Drawing
  <2>3. /\ Drawing(lit', health', bar') \in [lit : BOOLEAN, health : 0 .. Full, bar : BOOLEAN]
        /\ Drawing(lit', health', bar').lit = lit'
    BY <1>4, <1>6, DrawingIs
  <2>4. PointTypes'
    BY <1>2, <1>3, <1>4, <1>6, <2>1, <2>3 DEF PointTypes
  <2>5. NotStale'
    BY <1>3, <2>1, <2>2 DEF NotStale
  <2>6. DrawnAsItIs'
    BY <1>3, <2>1, <2>2, <2>3 DEF DrawnAsItIs
  <2> QED
    BY <1>1, <1>3, <1>5, <2>4, <2>5, <2>6 DEF PointInv, DrawnInv
<1>8. CASE ~(StartsLit \/ enabled)
  <2>1. UNCHANGED <<drawn, lit, forcedOff, health, bar>>
    BY <1>8, <1>3 DEF RoundBegins
  <2>2. Drawing(lit, health, bar)' = Drawing(lit, health, bar)
    BY <2>1 DEF Drawing
  <2>3. PointTypes'
    BY <1>2, <1>3, <2>1 DEF PointTypes
  <2>4. NotStale'
    BY <1>2, <1>3, <2>1, <2>2 DEF NotStale, DrawnInv
  <2>5. ~missed /\ viewer # "out" => ~lit /\ ~drawn.lit
    <3>1. ~missed => ~lit
      BY <1>2, <1>3, <1>8 DEF DrawnInv, LitForAReason
    <3>2. drawn = Drawing(lit, health, bar) => drawn.lit = lit
      BY <1>2, DrawingIs DEF PointTypes
    <3> QED
      BY <1>2, <1>3, <3>1, <3>2 DEF DrawnInv, NotStale
  <2>6. drawn.lit \in BOOLEAN
    BY <1>2 DEF PointTypes
  <2>7. DrawnAsItIs'
    BY <1>2, <1>3, <2>1, <2>5, <2>6 DEF DrawnAsItIs, PointTypes
  <2> QED
    BY <1>1, <1>3, <1>5, <2>3, <2>4, <2>7 DEF PointInv, DrawnInv
<1> QED
  BY <1>7, <1>8

\* ... at its end, ...
LEMMA RoundIsOverInv == ASSUME PointInv, RoundIsOver PROVE PointInv'
<1>1. TimeInv'
  BY DelayAgain DEF PointInv, RoundIsOver, timeVars
<1> QED
  BY <1>1 DEF PointInv, RoundIsOver, PointTypes, DrawnInv, NotStale, LitForAReason, DrawnAsItIs,
     Drawing, beaconVars

\* ... when the client connects, ...
LEMMA ConnectInv == ASSUME PointInv, Connect PROVE PointInv'
<1>1. TimeInv'
  BY DelayAgain DEF PointInv, Connect, timeVars
<1>2. PointTypes'
  BY NothingIs DEF PointInv, PointTypes, Connect, beaconVars
<1>3. DrawnInv'
  BY NothingIs DEF PointInv, DrawnInv, NotStale, LitForAReason, DrawnAsItIs, Connect, beaconVars
<1> QED
  BY <1>1, <1>2, <1>3 DEF PointInv

\* ... joins the game, ...
LEMMA JoinGameInv == ASSUME PointInv, JoinGame PROVE PointInv'
<1>1. TimeInv'
  BY DelayAgain DEF PointInv, JoinGame, timeVars
<1>2. PointTypes /\ DrawnInv
  BY DEF PointInv
<1>3. /\ viewer = "lobby" /\ viewer' = "in"
      /\ UNCHANGED <<lit, forcedOff, health, bar, phase, resetQueued, missed, enabled, checking>>
  BY DEF JoinGame, beaconVars
<1>4. Drawing(lit, health, bar)' = Drawing(lit, health, bar)
  BY <1>3 DEF Drawing
<1>5. /\ Drawing(lit, health, bar) \in [lit : BOOLEAN, health : 0 .. Full, bar : BOOLEAN]
      /\ Drawing(lit, health, bar).lit = lit
  BY <1>2, DrawingIs DEF PointTypes
<1>6. drawn' = IF phase = "begun" /\ lit THEN Drawing(lit, health, bar) ELSE drawn
  BY DEF JoinGame
<1>7. PointTypes'
  BY <1>2, <1>3, <1>5, <1>6 DEF PointTypes
<1>8. NotStale'
  BY <1>2, <1>3, <1>4, <1>6 DEF NotStale, DrawnInv
<1>9. LitForAReason'
  BY <1>2, <1>3 DEF DrawnInv, LitForAReason
<1>10. DrawnAsItIs'
  <2>1. CASE phase = "begun" /\ lit
    BY <1>3, <1>4, <1>5, <1>6, <2>1 DEF DrawnAsItIs
  <2>2. CASE phase = "begun" /\ ~lit
    <3>1. ~resetQueued
      BY <1>2, <2>2 DEF DrawnInv
    <3>2. ~drawn.lit
      BY <1>2, <1>3, <1>5, <2>2, <3>1 DEF DrawnInv, NotStale
    <3>3. drawn.lit \in BOOLEAN
      BY <1>2 DEF PointTypes
    <3> QED
      BY <1>2, <1>3, <1>6, <2>2, <3>2, <3>3 DEF DrawnAsItIs, PointTypes
  <2>3. CASE phase # "begun"
    BY <1>3, <2>3 DEF DrawnAsItIs
  <2> QED
    BY <2>1, <2>2, <2>3
<1> QED
  BY <1>1, <1>2, <1>3, <1>7, <1>8, <1>9, <1>10 DEF PointInv, DrawnInv

\* ... and leaves: ...
LEMMA DisconnectInv == ASSUME PointInv, Disconnect PROVE PointInv'
<1>1. TimeInv'
  BY DelayAgain DEF PointInv, Disconnect, timeVars
<1> QED
  BY <1>1 DEF PointInv, Disconnect, PointTypes, DrawnInv, NotStale, LitForAReason, DrawnAsItIs,
     Drawing, beaconVars

\* ... at every step.
LEMMA PointStepInv == ASSUME PointInv, [PointNext]_pointVars PROVE PointInv'
<1> USE DEF PointInv
<1>1. CASE CheckEnds
  <2>1. TimeInv'
    BY <1>1, DelayAgain DEF CheckEnds, timeVars
  <2>2. PointTypes' /\ DrawnInv'
    BY <1>1, BeaconStays DEF CheckEnds
  <2> QED
    BY <2>1, <2>2
<1>2. CASE ZombieTouch
  <2>1. TimeInv'
    BY <1>2, DelayAgain DEF ZombieTouch
  <2>2. checking' \in BOOLEAN
    BY <1>2 DEF ZombieTouch, PointTypes
  <2>3. PointTypes' /\ DrawnInv'
    BY <1>2, <2>2, BeaconStays DEF ZombieTouch
  <2> QED
    BY <2>1, <2>3
<1>3. ASSUME NEW d \in 1 .. Frame, Tick(d) PROVE PointInv'
  <2>1. TimeInv'
    BY <1>3, FramePasses
  <2>2. PointTypes' /\ DrawnInv'
    <3>1. UNCHANGED <<beaconVars, viewVars, enabled, drawn>> /\ checking' = checking
      BY <1>3 DEF Tick
    <3>2. checking' \in BOOLEAN
      BY <3>1 DEF PointTypes
    <3> QED
      BY <3>1, <3>2, BeaconStays
  <2> QED
    BY <2>1, <2>2
<1>4. CASE UNCHANGED pointVars
  <2>1. /\ UNCHANGED <<nextCheck, touching, thinkIn, rate, contested, checking>>
        /\ UNCHANGED <<beaconVars, viewVars, enabled, drawn>>
    BY <1>4 DEF pointVars, timeVars
  <2>2. checking' \in BOOLEAN
    BY <2>1 DEF PointTypes
  <2> QED
    BY <2>1, <2>2, DelayAgain, BeaconStays
<1> HIDE DEF PointInv
<1>5. CASE PointStep
  BY <1>1, <1>2, <1>3, <1>5, CaptureGoesOnInv, UseInv, MapUsesBeaconInv, ScriptInv,
     RoundResetPostInv, RoundIsOverInv, DisconnectInv DEF PointStep
<1> QED
  BY <1>4, <1>5, ResetRoundInv, RoundBeginsInv, ConnectInv, JoinGameInv, CapturedInv, UseInv
     DEF PointNext

-----------------------------------------------------------------------------
(* The objectives *)

FiredOnce == \A o \in fired : Ended(o) /\ o \notin calling
CallsHaveEnded == phase \in {"begun", "over"} => \A o \in calling : Ended(o)
ToldLast == Listens /\ heard => told = saved

ObjInv == ObjTypeOK /\ FiredOnce /\ CallsHaveEnded /\ ToldLast /\ TextAsShown

Texts == [obj : Objs \cup {None}, state : States]

\* A text is of its type.
LEMMA TextIs ==
  /\ NoText \in Texts
  /\ \A o \in Objs, s \in States : Text(o, s) \in Texts
  BY DEF NoText, Text, Texts, States

\* An objective is set, by the map or a capture, or at the beginning of a round the first one.
LEMMA SetStateInv ==
  ASSUME ObjInv, NEW o \in Objs, NEW s \in States, SetState(o, s, Listens), fired' = fired,
         viewer' = viewer,
         phase' \in {"begun", "over"} => phase \in {"begun", "over"} \/ \A x \in calling : Ended(x),
         phase' = "begun" => phase = "begun" \/ o = First
  PROVE  ObjInv'
<1> USE DEF ObjInv
<1>1. CASE Ended(o)
  <2>1. UNCHANGED <<state, calling, textVars>>
    BY <1>1 DEF SetState
  <2>2. \A x : Ended(x)' <=> Ended(x)
    BY <2>1 DEF Ended
  <2>3. ObjTypeOK' /\ FiredOnce' /\ CallsHaveEnded' /\ ToldLast'
    BY <2>1, <2>2 DEF ObjTypeOK, FiredOnce, CallsHaveEnded, ToldLast, Listens, textVars
  <2>4. TextAsShown'
    BY <1>1, <2>1, <2>2 DEF TextAsShown, ToldLast, Listens, textVars
  <2> QED
    BY <2>3, <2>4
<1>2. CASE ~Ended(o)
  <2>1. /\ state' = [state EXCEPT ![o] = s]
        /\ calling' = IF s \in Ends THEN calling \cup {o} ELSE calling
        /\ saved' = Text(o, s) /\ told' = (IF Listens THEN saved' ELSE told)
        /\ heard' = (heard \/ Listens)
    BY <1>2 DEF SetState, Show
  <2>2. state \in [Objs -> States] /\ calling \subseteq Objs /\ fired \subseteq Objs
    BY DEF ObjTypeOK
  <2>3. /\ state' \in [Objs -> States] /\ calling' \subseteq Objs /\ fired' \subseteq Objs
    BY <2>1, <2>2
  <2>4. \A x \in Objs : x # o => (Ended(x)' <=> Ended(x))
    BY <2>1, <2>2 DEF Ended
  <2>5. s \in Ends => Ended(o)'
    BY <2>1, <2>2 DEF Ended
  <2>6. ObjTypeOK'
    <3>1. {saved, told} \subseteq Texts
      BY DEF ObjTypeOK, Texts
    <3>2. saved' \in Texts /\ told' \in Texts /\ heard' \in BOOLEAN
      BY <2>1, <3>1, TextIs DEF ObjTypeOK, Listens
    <3> QED
      BY <2>3, <3>2 DEF ObjTypeOK, Texts
  <2>7. FiredOnce'
    BY <1>2, <2>1, <2>2, <2>4 DEF FiredOnce
  <2>8. CallsHaveEnded'
    <3> SUFFICES ASSUME phase' \in {"begun", "over"}, NEW x \in calling' PROVE Ended(x)'
      BY DEF CallsHaveEnded
    <3>1. \A y \in calling : Ended(y)
      BY DEF CallsHaveEnded
    <3>2. CASE x \in calling
      BY <1>2, <2>2, <2>4, <3>1, <3>2
    <3>3. CASE x \notin calling
      BY <2>1, <2>5, <3>3
    <3> QED
      BY <3>2, <3>3
  <2>9. ToldLast' /\ TextAsShown'
    BY <2>1 DEF ToldLast, TextAsShown, Listens
  <2> QED
    BY <2>6, <2>7, <2>8, <2>9
<1> QED
  BY <1>1, <1>2

\* A call that is due keeps the objectives in order.
LEMMA CallInv ==
  ASSUME ObjInv, NEW o \in Objs, CallNewObjective(o, Listens), UNCHANGED <<viewer, phase>>
  PROVE  ObjInv'
<1> USE DEF ObjInv
<1> DEFINE n == Successor(o)
<1>1. /\ state \in [Objs -> States] /\ calling \subseteq Objs /\ fired \subseteq Objs
      /\ n \in Objs \cup {None}
  BY ObjectivesAssumption DEF ObjTypeOK, Successor
<1>2. /\ o \in calling /\ calling' = calling \ {o}
      /\ fired' = IF Ended(o) THEN fired \cup {o} ELSE fired
  BY DEF CallNewObjective
<1>3. CASE n = None \/ Ended(n)
  <2>1. UNCHANGED <<state, textVars>>
    BY <1>3 DEF CallNewObjective
  <2>2. \A x : Ended(x)' <=> Ended(x)
    BY <2>1 DEF Ended
  <2>3. ObjTypeOK'
    BY <1>1, <1>2, <2>1 DEF ObjTypeOK, textVars
  <2>4. FiredOnce' /\ CallsHaveEnded'
    BY <1>2, <2>2 DEF FiredOnce, CallsHaveEnded
  <2>5. ToldLast' /\ TextAsShown'
    BY <2>1, <2>2 DEF ToldLast, TextAsShown, Listens, textVars
  <2> QED
    BY <2>3, <2>4, <2>5
<1>4. CASE ~(n = None \/ Ended(n))
  <2>1. /\ state' = [state EXCEPT ![n] = "open"] /\ saved' = Text(n, "open")
        /\ told' = (IF Listens THEN saved' ELSE told) /\ heard' = (heard \/ Listens)
    BY <1>4 DEF CallNewObjective, Show
  <2>2. n \in Objs
    BY <1>1, <1>4
  <2>3. \A x \in Objs : x # n => (Ended(x)' <=> Ended(x))
    BY <1>1, <2>1 DEF Ended
  <2>4. ObjTypeOK'
    <3>1. {saved, told} \subseteq Texts
      BY DEF ObjTypeOK, Texts
    <3>2. saved' \in Texts /\ told' \in Texts /\ heard' \in BOOLEAN
      BY <2>1, <2>2, <3>1, TextIs DEF States, ObjTypeOK, Listens
    <3>3. state' \in [Objs -> States]
      BY <1>1, <2>1 DEF States
    <3>4. calling' \subseteq Objs /\ fired' \subseteq Objs
      BY <1>1, <1>2
    <3> QED
      BY <3>2, <3>3, <3>4 DEF ObjTypeOK, Texts
  <2>5. FiredOnce'
    <3> SUFFICES ASSUME NEW x \in fired' PROVE Ended(x)' /\ x \notin calling'
      BY DEF FiredOnce
    <3>1. Ended(x) /\ x \notin calling' /\ x \in Objs
      BY <1>1, <1>2 DEF FiredOnce
    <3> QED
      BY <1>4, <2>3, <3>1
  <2>6. CallsHaveEnded'
    BY <1>1, <1>2, <1>4, <2>3 DEF CallsHaveEnded
  <2>7. ToldLast' /\ TextAsShown'
    BY <2>1 DEF ToldLast, TextAsShown, Listens
  <2> QED
    BY <2>4, <2>5, <2>6, <2>7
<1> QED
  BY <1>3, <1>4

-----------------------------------------------------------------------------
(* The map *)

MapInv == PointInv /\ ObjInv

\* What happens to the point in the map happens to it alone.
LEMMA StepOfPoint == ASSUME [Next]_mapVars PROVE [PointNext]_pointVars
<1>1. CASE UNCHANGED mapVars
  BY <1>1 DEF mapVars
<1>2. CASE Next
  <2>1. ASSUME NEW o \in Objs, ObjectiveThink(o) PROVE [PointNext]_pointVars
    BY <2>1 DEF ObjectiveThink, PointNext
  <2>2. ASSUME NEW os \in MapSets, MapSetsObjective(os[1], os[2]) PROVE [PointNext]_pointVars
    BY <2>2 DEF MapSetsObjective
  <2> QED
    BY <1>2, <2>1, <2>2 DEF Next, PointNext, CaptureObjective, CleanUpMap, GameModeRoundStart,
       ClientConnects, ClientJoins
<1> QED
  BY <1>1, <1>2

\* The objectives stay as they are, and the point does not concern them.
LEMMA ObjStays ==
  ASSUME ObjInv, UNCHANGED objVars,
         \/ phase' = phase
         \/ phase = "begun" /\ phase' = "over"
         \/ phase = "waiting" /\ phase' = "dropped",
         viewer' \in {viewer, "out"}
  PROVE  ObjInv'
<1>1. UNCHANGED <<state, calling, fired, saved, told, heard>>
  BY DEF objVars, textVars
<1>2. \A x : Ended(x)' <=> Ended(x)
  BY <1>1 DEF Ended
<1>3. ObjTypeOK' /\ FiredOnce' /\ CallsHaveEnded'
  BY <1>1, <1>2 DEF ObjInv, ObjTypeOK, FiredOnce, CallsHaveEnded
<1>4. ToldLast' /\ TextAsShown'
  BY <1>1, <1>2 DEF ObjInv, ToldLast, TextAsShown, Listens
<1> QED
  BY <1>3, <1>4 DEF ObjInv

\* The map is in order at first, ...
LEMMA MapInitInv == ASSUME Init PROVE MapInv
<1>1. PointInv
  BY PointInitInv DEF Init
<1>2. ObjTypeOK
  BY TextIs DEF Init, ObjInit, ObjTypeOK, Texts, States
<1>3. FiredOnce /\ CallsHaveEnded /\ ToldLast /\ TextAsShown
  BY DEF Init, ObjInit, PointInit, FiredOnce, CallsHaveEnded, ToldLast, TextAsShown, Listens
<1> QED
  BY <1>1, <1>2, <1>3 DEF MapInv, ObjInv

\* ... and at every step.
LEMMA MapStepInv == ASSUME MapInv, [Next]_mapVars PROVE MapInv'
<1>1. PointInv'
  BY StepOfPoint, PointStepInv DEF MapInv
<1>2. ObjInv
  BY DEF MapInv
<1>3. CASE UNCHANGED mapVars
  <2>1. UNCHANGED objVars /\ phase' = phase /\ viewer' = viewer
    BY <1>3 DEF mapVars, pointVars, viewVars
  <2>2. viewer' \in {viewer, "out"}
    BY <2>1
  <2>3. ObjInv'
    BY <1>2, <2>1, <2>2, ObjStays
  <2> QED
    BY <1>1, <2>3 DEF MapInv
<1>4. CASE PointStep /\ UNCHANGED objVars
  <2>1. ASSUME \/ CheckEnds \/ ZombieTouch \/ \E c \in Clients : CaptureGoesOn(c)
               \/ \E type \in MapUses : Use(type) \/ MapUsesBeacon(type)
               \/ \E hb \in Scripted : OnScriptCallBack(hb[1], hb[2])
               \/ \E d \in 1 .. Frame : Tick(d)
               \/ RoundResetPost
        PROVE  phase' = phase /\ viewer' = viewer
    BY <2>1 DEF CheckEnds, ZombieTouch, CaptureGoesOn, Use, MapUsesBeacon, OnScriptCallBack, Tick,
       RoundResetPost, viewVars
  <2>2. RoundIsOver => /\ \/ phase = "begun" /\ phase' = "over"
                          \/ phase = "waiting" /\ phase' = "dropped"
                       /\ viewer' = viewer
    BY DEF RoundIsOver
  <2>3. Disconnect => phase' = phase /\ viewer' = "out"
    BY DEF Disconnect
  <2>4. /\ \/ phase' = phase
           \/ phase = "begun" /\ phase' = "over"
           \/ phase = "waiting" /\ phase' = "dropped"
        /\ viewer' \in {viewer, "out"}
    BY <1>4, <2>1, <2>2, <2>3 DEF PointStep
  <2>5. ObjInv'
    BY <1>2, <1>4, <2>4, ObjStays
  <2> QED
    BY <1>1, <2>5 DEF MapInv
<1>5. ASSUME NEW c \in Clients, CaptureObjective(c) PROVE MapInv'
  <2>1. UNCHANGED <<phase, viewer, fired>> /\ SetState(Goal, "completed", Listens)
    BY <1>5 DEF CaptureObjective, Captured, viewVars
  <2>2. Goal \in Objs /\ "completed" \in States
    BY MapAssumption DEF States, Ends
  <2>3. ObjInv'
    BY <1>2, <2>1, <2>2, SetStateInv DEF ObjInv, CallsHaveEnded
  <2> QED
    BY <1>1, <2>3 DEF MapInv
<1>6. ASSUME NEW o \in Objs, ObjectiveThink(o) PROVE MapInv'
  <2>1. UNCHANGED <<viewer, phase>> /\ CallNewObjective(o, Listens)
    BY <1>6 DEF ObjectiveThink, Use, pointVars, viewVars
  <2> QED
    BY <1>1, <1>2, <2>1, CallInv DEF MapInv
<1>7. ASSUME NEW os \in MapSets, MapSetsObjective(os[1], os[2]) PROVE MapInv'
  <2>1. UNCHANGED <<phase, viewer, fired>> /\ SetState(os[1], os[2], Listens)
    BY <1>7 DEF MapSetsObjective, pointVars, viewVars
  <2>2. os[1] \in Objs /\ os[2] \in States
    BY MapAssumption
  <2>3. ObjInv'
    BY <1>2, <2>1, <2>2, SetStateInv DEF ObjInv, CallsHaveEnded
  <2> QED
    BY <1>1, <2>3 DEF MapInv
<1>8. CASE CleanUpMap
  <2>1. /\ phase' = "waiting" /\ viewer' = viewer /\ fired' = {}
        /\ state' = [o \in Objs |-> "open"] /\ UNCHANGED <<calling, saved, told, heard>>
    BY <1>8 DEF CleanUpMap, ResetRound, Restart, textVars
  <2>2. ObjTypeOK'
    BY <1>2, <2>1 DEF ObjInv, ObjTypeOK, States
  <2>3. FiredOnce' /\ CallsHaveEnded' /\ TextAsShown'
    BY <2>1 DEF FiredOnce, CallsHaveEnded, TextAsShown
  <2>4. ToldLast'
    BY <1>2, <2>1 DEF ObjInv, ToldLast, Listens
  <2> QED
    BY <1>1, <2>2, <2>3, <2>4 DEF MapInv, ObjInv
<1>9. CASE GameModeRoundStart
  <2>1. /\ \A o \in calling : Ended(o)
        /\ viewer' = viewer /\ fired' = fired /\ SetState(First, "open", Listens)
    BY <1>9 DEF GameModeRoundStart, RoundBegins
  <2>2. First \in Objs /\ "open" \in States
    BY ObjectivesAssumption DEF States
  <2>3. ObjInv'
    BY <1>2, <2>1, <2>2, SetStateInv
  <2> QED
    BY <1>1, <2>3 DEF MapInv
<1>10. CASE ClientConnects
  <2>1. phase' = phase /\ viewer' = "lobby" /\ heard' = FALSE
        /\ UNCHANGED <<state, calling, fired, saved, told>>
    BY <1>10 DEF ClientConnects, Connect
  <2>2. ObjTypeOK'
    BY <1>2, <2>1 DEF ObjInv, ObjTypeOK
  <2>3. FiredOnce' /\ CallsHaveEnded'
    BY <1>2, <2>1 DEF ObjInv, FiredOnce, CallsHaveEnded, Ended
  <2>4. ToldLast' /\ TextAsShown'
    BY <2>1 DEF ToldLast, TextAsShown
  <2> QED
    BY <1>1, <2>2, <2>3, <2>4 DEF MapInv, ObjInv
<1>11. CASE ClientJoins
  <2>1. /\ phase' = phase /\ viewer = "lobby" /\ viewer' = "in"
        /\ told' = (IF phase = "begun" THEN saved ELSE told)
        /\ heard' = (heard \/ phase = "begun")
        /\ UNCHANGED <<state, calling, fired, saved>>
    <3>1. UNCHANGED <<phase, state, calling, fired>> /\ viewer = "lobby" /\ viewer' = "in"
      BY <1>11 DEF ClientJoins, JoinGame
    <3>2. CASE phase = "begun"
      BY <1>11, <3>1, <3>2 DEF ClientJoins, Show
    <3>3. CASE phase # "begun"
      <4>1. UNCHANGED textVars
        BY <1>11, <3>3 DEF ClientJoins
      <4>2. heard \in BOOLEAN
        BY <1>2 DEF ObjInv, ObjTypeOK
      <4> QED
        BY <3>1, <3>3, <4>1, <4>2 DEF textVars
    <3> QED
      BY <3>2, <3>3
  <2>2. ObjTypeOK'
    BY <1>2, <2>1 DEF ObjInv, ObjTypeOK
  <2>3. FiredOnce' /\ CallsHaveEnded'
    BY <1>2, <2>1 DEF ObjInv, FiredOnce, CallsHaveEnded, Ended
  <2>4. ToldLast' /\ TextAsShown'
    BY <1>2, <2>1 DEF ObjInv, ToldLast, TextAsShown, Listens
  <2> QED
    BY <1>1, <2>2, <2>3, <2>4 DEF MapInv, ObjInv
<1> QED
  BY <1>3, <1>4, <1>5, <1>6, <1>7, <1>8, <1>9, <1>10, <1>11 DEF Next

\* So it always is.
LEMMA MapInvariant == Spec => []MapInv
<1>1. Init => MapInv
  BY MapInitInv
<1>2. MapInv /\ [Next]_mapVars => MapInv'
  BY MapStepInv
<1> QED
  BY <1>1, <1>2, PTL DEF Spec

-----------------------------------------------------------------------------
(* Theorems *)

\* The point, its beacon and what a client draws of it move in the map as they do alone: the
\* objectives, and the other entities that use the point, take none of its rules away.
THEOREM PointInMap == Spec => PointSpec
<1>1. Init => PointInit
  BY DEF Init
<1>2. [Next]_mapVars => [PointNext]_pointVars
  BY StepOfPoint
<1> QED
  BY <1>1, <1>2, PTL DEF Spec, PointSpec

\* The round that the entities see moves by the signals that RoundFlow sends (RoundSendsSignals
\* there): it may be over before it has begun, and begins only after the map was put back.
THEOREM MapFollowsSignals == Spec => Signals!SignalSpec
<1> DEFINE signal == IF phase = "dropped" THEN "over" ELSE phase
<1>1. PointInit => signal = "waiting"
  BY DEF PointInit
<1>2. [PointNext]_pointVars => [Signals!Begin \/ Signals!Over \/ Signals!Reset]_signal
  <2> SUFFICES ASSUME PointNext, phase' # phase
               PROVE  [Signals!Begin \/ Signals!Over \/ Signals!Reset]_signal
    BY DEF pointVars, viewVars
  <2>1. CASE ResetRound
    BY <2>1 DEF ResetRound, Signals!Reset
  <2>2. CASE RoundBegins
    BY <2>2 DEF RoundBegins, Signals!Begin
  <2>3. CASE RoundIsOver
    BY <2>3 DEF RoundIsOver, Signals!Over
  <2> QED
    BY <2>1, <2>2, <2>3 DEF PointNext, PointStep, CheckEnds, ZombieTouch, CaptureGoesOn, Captured,
       Use, MapUsesBeacon, OnScriptCallBack, Tick, RoundResetPost, Connect, JoinGame, Disconnect,
       viewVars
<1> QED
  BY <1>1, <1>2, PointInMap, PTL DEF PointSpec, Signals!SignalSpec

\* Every variable keeps its type: the progress does not pass 100, whatever the frames do.
THEOREM TypeCorrect == Spec => []TypeOK
<1>1. MapInv => TypeOK
  <2> SUFFICES ASSUME MapInv PROVE TypeOK
    OBVIOUS
  <2>1. touching \in Seq([client : Clients, left : 0 .. Stay])
    BY NobodyAtACheck DEF MapInv, PointInv
  <2>2. nextCheck \in 0 .. Delay /\ contested \in 0 .. Delay /\ thinkIn \in 1 .. FirstThink
        /\ rate \in 0 .. MaxRate
    BY Times DEF MapInv, PointInv, TimeInv
  <2>3. PointTypes /\ ObjTypeOK
    BY DEF MapInv, PointInv, ObjInv
  <2> QED
    BY <2>1, <2>2, <2>3 DEF TypeOK, PointTypeOK, PointTypes
<1> QED
  BY <1>1, MapInvariant, PTL

\* A capture goes on at one pace however many players stand in the point: OnCaptureThink has
\* emptied m_List, and set the rate to 0, by the time of the next step.
THEOREM OnePace == Spec => []PaceIsOne
<1>1. MapInv => PaceIsOne
  BY NobodyAtACheck DEF MapInv, PointInv
<1> QED
  BY <1>1, MapInvariant, PTL

\* No step of a capture within the delay of a zombie's touch (OnCaptureTouch)
THEOREM ZombiesHold == Spec => ZombiesHoldItUp
<1>1. MapInv /\ [Next]_mapVars =>
        [(\E c \in Clients : CaptureGoesOn(c) \/ Captured(c)) => contested = 0]_pointVars
  <2> SUFFICES ASSUME MapInv, NEW c \in Clients, CaptureGoesOn(c) \/ Captured(c)
               PROVE  contested = 0
    OBVIOUS
  <2>1. nextCheck = 0
    BY DEF CaptureGoesOn, Captured, MayCapture
  <2> QED
    BY <2>1, NobodyAtACheck DEF MapInv, PointInv
<1> QED
  BY <1>1, MapInvariant, PTL DEF Spec, ZombiesHoldItUp

\* While a round is on, who is in the game draws the beacon as it is (UpdateMessageState,
\* RoundResetPost, and the messages to a late joiner).
THEOREM BeaconIsDrawn == Spec => []DrawnAsItIs
<1>1. MapInv => DrawnAsItIs
  BY DEF MapInv, PointInv, DrawnInv
<1> QED
  BY <1>1, MapInvariant, PTL

\* While a round is on, an objective fires its target for having ended, and once
\* (CObjectiveMessage::Use and CallNewObjective).
THEOREM TargetsFireOnce == Spec => FiresForItsEnd
<1>1. MapInv /\ [Next]_mapVars =>
        [\A o \in Objs : CallNewObjective(o, Listens) /\ phase \in {"begun", "over"} =>
           Ended(o) /\ o \notin fired]_mapVars
  BY DEF MapInv, ObjInv, FiredOnce, CallsHaveEnded, CallNewObjective
<1> QED
  BY <1>1, MapInvariant, PTL DEF Spec, FiresForItsEnd

\* A text that should move on has a call that moves it: an objective that ends calls for it,
\* and what is called for takes the text away, or finds the other objective ended too.
LEMMA DueStep == ASSUME ObjTypeOK, MoveIsDue, [Next]_mapVars PROVE MoveIsDue'
<1> SUFFICES ASSUME NEW o \in Objs, Overdue(o)' PROVE o \in calling'
  BY DEF MoveIsDue
<1>1. CASE UNCHANGED <<state, calling, saved>>
  BY <1>1 DEF MoveIsDue, Overdue, Ended, Successor
<1>2. ASSUME NEW x \in Objs, NEW s \in States, SetState(x, s, Listens) PROVE o \in calling'
  <2>1. CASE Ended(x)
    BY <1>1, <1>2, <2>1 DEF SetState, textVars
  <2>2. CASE ~Ended(x)
    <3>1. /\ state' = [state EXCEPT ![x] = s] /\ saved' = Text(x, s)
          /\ calling' = IF s \in Ends THEN calling \cup {x} ELSE calling
      BY <1>2, <2>2 DEF SetState, Show
    <3>2. x = o
      BY <3>1 DEF Overdue, Text
    <3>3. s \in Ends
      BY <3>1, <3>2 DEF Overdue, Ended, ObjTypeOK
    <3> QED
      BY <3>1, <3>2, <3>3
  <2> QED
    BY <2>1, <2>2
<1>3. ASSUME NEW x \in Objs, CallNewObjective(x, Listens) PROVE o \in calling'
  <2> DEFINE n == Successor(x)
  <2>1. x \in calling /\ calling' = calling \ {x}
    BY <1>3 DEF CallNewObjective
  <2>2. CASE n = None \/ Ended(n)
    <3>1. UNCHANGED <<state, saved>>
      BY <1>3, <2>2 DEF CallNewObjective, textVars
    <3>2. Overdue(o) /\ o \in calling
      BY <3>1 DEF MoveIsDue, Overdue, Ended, Successor
    <3>3. o # x
      BY <2>2, <3>2 DEF Overdue
    <3> QED
      BY <2>1, <3>2, <3>3
  <2>3. CASE ~(n = None \/ Ended(n))
    <3>1. state' = [state EXCEPT ![n] = "open"] /\ saved' = Text(n, "open")
      BY <1>3, <2>3 DEF CallNewObjective, Show
    <3>2. o = n
      BY <3>1 DEF Overdue, Text
    <3>3. ~Ended(o)'
      BY <3>1, <3>2 DEF Ended, Ends, ObjTypeOK
    <3> QED
      BY <3>3 DEF Overdue
  <2> QED
    BY <2>2, <2>3
<1>4. CASE CleanUpMap
  <2>1. ~Ended(o)'
    BY <1>4 DEF CleanUpMap, Restart, Ended, Ends
  <2> QED
    BY <2>1 DEF Overdue
<1>5. CASE PointStep /\ UNCHANGED objVars
  BY <1>1, <1>5 DEF objVars, textVars
<1>6. ASSUME NEW c \in Clients, CaptureObjective(c) PROVE o \in calling'
  BY <1>2, <1>6, MapAssumption DEF CaptureObjective, States, Ends
<1>7. ASSUME NEW x \in Objs, ObjectiveThink(x) PROVE o \in calling'
  BY <1>3, <1>7 DEF ObjectiveThink
<1>8. ASSUME NEW os \in MapSets, MapSetsObjective(os[1], os[2]) PROVE o \in calling'
  <2>1. os[1] \in Objs /\ os[2] \in States
    BY MapAssumption
  <2> QED
    BY <1>2, <1>8, <2>1 DEF MapSetsObjective
<1>9. CASE GameModeRoundStart
  BY <1>2, <1>9, ObjectivesAssumption DEF GameModeRoundStart, States
<1>10. CASE ClientConnects \/ ClientJoins
  BY <1>1, <1>10 DEF ClientConnects, ClientJoins, Show, textVars
<1>11. CASE UNCHANGED mapVars
  BY <1>1, <1>11 DEF mapVars, objVars, textVars
<1> QED
  BY <1>4, <1>5, <1>6, <1>7, <1>8, <1>9, <1>10, <1>11 DEF Next

\* No text outlives its objective for want of a call (CObjectiveMessage::Use): the safety
\* that TextMovesOn rests on.
THEOREM MoveIsAlwaysDue == Spec => []MoveIsDue
<1>1. Init => MoveIsDue
  BY DEF Init, ObjInit, MoveIsDue, Overdue, Ended, Ends
<1>2. MapInv => ObjTypeOK
  BY DEF MapInv, ObjInv
<1>3. ObjTypeOK /\ MoveIsDue /\ [Next]_mapVars => MoveIsDue'
  BY DueStep
<1> QED
  BY <1>1, <1>2, <1>3, MapInvariant, PTL DEF Spec

\* While a round is on, who is in the game reads the text shown last, whether he was there when it
\* was (UpdateMessageState) or joined later (SetObjectiveText); only who has not been told of any
\* since he connected may read an older one, and then the first objective is over.
THEOREM TextIsShown == Spec => []TextAsShown
<1>1. MapInv => TextAsShown
  BY DEF MapInv, ObjInv
<1> QED
  BY <1>1, MapInvariant, PTL
=============================================================================
