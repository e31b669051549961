------------------------- MODULE Broadcasts_proofs -------------------------
(***************************************************************************)
(* Theorems about Broadcasts, for any number of clients and broadcasts.    *)
(***************************************************************************)
EXTENDS Broadcasts, TLAPS

-----------------------------------------------------------------------------
(* The queue *)

Unique(q) == \A i, j \in 1 .. Len(q) : q[i] = q[j] => i = j

\* An entry that no RoundResetPost follows, and one that one follows
After(q, e) ==
  \E i \in 1 .. Len(q) : q[i] = e /\ \A j \in 1 .. Len(q) : q[j] = Reset => j < i
Before(q, e) == \E i, j \in 1 .. Len(q) : i < j /\ q[i] = e /\ q[j] = Reset

\* A broadcast about a player is an entry, and not the reset.
LEMMA PlayerEntries ==
  ASSUME NEW s \in Slots
  PROVE  /\ TeamInfo(s) \in Entries /\ ScoreInfo(s) \in Entries /\ Spectator(s) \in Entries
         /\ TeamInfo(s) # Reset /\ ScoreInfo(s) # Reset /\ Spectator(s) # Reset
         /\ Reset \in Entries
  BY DEF Entries, TeamInfo, ScoreInfo, Spectator, Reset

\* Queueing adds the broadcast unless it is there.
LEMMA QueueOne ==
  ASSUME NEW q \in Seq(Entries), NEW e \in Entries
  PROVE  /\ QueueDeferredBroadcast(q, e) \in Seq(Entries)
         /\ Unique(q) => Unique(QueueDeferredBroadcast(q, e))
         /\ \A x : Has(QueueDeferredBroadcast(q, e), x) <=> Has(q, x) \/ x = e
<1>1. CASE Has(q, e)
  BY <1>1 DEF QueueDeferredBroadcast, Has
<1>2. CASE ~Has(q, e)
  <2> DEFINE r == Append(q, e)
  <2>1. /\ r \in Seq(Entries) /\ Len(q) \in Nat /\ Len(r) = Len(q) + 1
        /\ \A i \in 1 .. Len(q) : r[i] = q[i]
        /\ r[Len(q) + 1] = e
    OBVIOUS
  <2>2. QueueDeferredBroadcast(q, e) = r
    BY <1>2 DEF QueueDeferredBroadcast
  <2> HIDE DEF r
  <2>3. Unique(q) => Unique(r)
    BY <1>2, <2>1 DEF Unique, Has
  <2>4. \A x : Has(r, x) <=> Has(q, x) \/ x = e
    BY <2>1 DEF Has
  <2> QED
    BY <2>1, <2>2, <2>3, <2>4
<1> QED
  BY <1>1, <1>2

\* It stays, or comes, behind the reset, and what is behind the reset stays there.
LEMMA QueueBehind ==
  ASSUME NEW q \in Seq(Entries), NEW e \in Entries, e # Reset
  PROVE  /\ Before(q, e) \/ After(QueueDeferredBroadcast(q, e), e)
         /\ \A x : After(q, x) => After(QueueDeferredBroadcast(q, e), x)
         /\ \A x : x # e => (Before(QueueDeferredBroadcast(q, e), x) => Before(q, x))
<1>0. Len(q) \in Nat
  OBVIOUS
<1>1. CASE Has(q, e)
  <2>1. QueueDeferredBroadcast(q, e) = q
    BY <1>1 DEF QueueDeferredBroadcast
  <2>2. ASSUME ~Before(q, e) PROVE After(q, e)
    <3>1. PICK i \in 1 .. Len(q) : q[i] = e
      BY <1>1 DEF Has
    <3>2. ASSUME NEW j \in 1 .. Len(q), q[j] = Reset PROVE j < i
      <4>1. j # i
        BY <3>1, <3>2
      <4>2. ~(i < j)
        BY <2>2, <3>1, <3>2 DEF Before
      <4> QED
        BY <1>0, <4>1, <4>2
    <3> QED
      BY <3>1, <3>2 DEF After
  <2> QED
    BY <2>1, <2>2
<1>2. CASE ~Has(q, e)
  <2> DEFINE r == Append(q, e)
  <2>1. /\ Len(r) = Len(q) + 1 /\ \A i \in 1 .. Len(q) : r[i] = q[i]
        /\ r[Len(q) + 1] = e
    OBVIOUS
  <2>2. QueueDeferredBroadcast(q, e) = r
    BY <1>2 DEF QueueDeferredBroadcast
  <2> HIDE DEF r
  <2>3. \A j \in 1 .. Len(r) : r[j] = Reset => j \in 1 .. Len(q) /\ q[j] = Reset
    BY <1>0, <2>1
  <2>4. After(r, e)
    BY <1>0, <2>1, <2>3 DEF After
  <2>5. \A x : After(q, x) => After(r, x)
    BY <1>0, <2>1, <2>3 DEF After
  <2>6. \A x : x # e => (Before(r, x) => Before(q, x))
    BY <1>0, <2>1, <2>3 DEF Before
  <2> QED
    BY <2>2, <2>4, <2>5, <2>6
<1> QED
  BY <1>1, <1>2

\* Sending takes the first broadcast and nothing else.
LEMMA SendFirst ==
  ASSUME NEW q \in Seq(Entries), q # <<>>, Unique(q)
  PROVE  /\ Head(q) \in Entries /\ Tail(q) \in Seq(Entries) /\ Unique(Tail(q))
         /\ \A x : Has(Tail(q), x) <=> Has(q, x) /\ x # Head(q)
         /\ \A x : After(q, x) /\ x # Reset /\ Has(q, Reset) =>
              Has(Tail(q), x) /\ After(Tail(q), x)
<1> DEFINE r == Tail(q)
<1>1. /\ Len(q) \in Nat \ {0} /\ Len(r) = Len(q) - 1 /\ Head(q) = q[1] /\ q[1] \in Entries
      /\ \A i \in 1 .. Len(r) : i + 1 \in 1 .. Len(q) /\ r[i] = q[i + 1]
      /\ \A i \in 1 .. Len(q) : i = 1 \/ (i - 1 \in 1 .. Len(r) /\ r[i - 1] = q[i])
      /\ r \in Seq(Entries)
  OBVIOUS
<1> HIDE DEF r
<1>2. Unique(r)
  <2> SUFFICES ASSUME NEW i \in 1 .. Len(r), NEW j \in 1 .. Len(r), r[i] = r[j] PROVE i = j
    BY DEF Unique
  <2>1. i + 1 = j + 1
    BY <1>1 DEF Unique
  <2> QED
    BY <1>1, <2>1
<1>3. ASSUME NEW x PROVE Has(r, x) <=> Has(q, x) /\ x # q[1]
  <2>1. ASSUME NEW i \in 1 .. Len(r), r[i] = x PROVE Has(q, x) /\ x # q[1]
    <3>1. i + 1 \in 1 .. Len(q) /\ q[i + 1] = x /\ i + 1 # 1 /\ 1 \in 1 .. Len(q)
      BY <1>1, <2>1
    <3> QED
      BY <3>1 DEF Has, Unique
  <2>2. ASSUME NEW i \in 1 .. Len(q), q[i] = x, x # q[1] PROVE Has(r, x)
    BY <1>1, <2>2 DEF Has
  <2> QED
    BY <2>1, <2>2 DEF Has
<1>4. ASSUME NEW x, After(q, x), x # Reset, Has(q, Reset) PROVE Has(r, x) /\ After(r, x)
  <2>1. PICK i \in 1 .. Len(q) : q[i] = x /\ \A j \in 1 .. Len(q) : q[j] = Reset => j < i
    BY <1>4 DEF After
  <2>2. i # 1
    BY <1>1, <1>4, <2>1 DEF Has
  <2>3. i - 1 \in 1 .. Len(r) /\ r[i - 1] = x
    BY <1>1, <2>1, <2>2
  <2>4. \A j \in 1 .. Len(r) : r[j] = Reset => j < i - 1
    BY <1>1, <2>1
  <2> QED
    BY <2>3, <2>4 DEF Has, After
<1> QED
  BY <1>1, <1>2, <1>3, <1>4 DEF r

\* What a player's team and score add to the queue
LEMMA QueueTeamInfo ==
  ASSUME NEW q \in Seq(Entries), Unique(q), NEW s \in Slots
  PROVE  LET r == SendPlayerTeamInfo(q, s) IN
         /\ r \in Seq(Entries) /\ Unique(r)
         /\ \A x : Has(r, x) <=> Has(q, x) \/ x \in {TeamInfo(s), ScoreInfo(s)}
         /\ \A x : After(q, x) => After(r, x)
         /\ Before(q, TeamInfo(s)) \/ After(r, TeamInfo(s))
         /\ Before(q, ScoreInfo(s)) \/ After(r, ScoreInfo(s))
<1> DEFINE p == QueueDeferredBroadcast(q, TeamInfo(s))
           r == QueueDeferredBroadcast(p, ScoreInfo(s))
<1>1. /\ p \in Seq(Entries) /\ Unique(p) /\ \A x : Has(p, x) <=> Has(q, x) \/ x = TeamInfo(s)
      /\ Before(q, TeamInfo(s)) \/ After(p, TeamInfo(s))
      /\ \A x : After(q, x) => After(p, x)
      /\ \A x : x # TeamInfo(s) => (Before(p, x) => Before(q, x))
  BY PlayerEntries, QueueOne, QueueBehind
<1> HIDE DEF p
<1>2. /\ r \in Seq(Entries) /\ Unique(r) /\ \A x : Has(r, x) <=> Has(p, x) \/ x = ScoreInfo(s)
      /\ Before(p, ScoreInfo(s)) \/ After(r, ScoreInfo(s))
      /\ \A x : After(p, x) => After(r, x)
  BY <1>1, PlayerEntries, QueueOne, QueueBehind
<1>3. SendPlayerTeamInfo(q, s) = r /\ TeamInfo(s) # ScoreInfo(s)
  BY DEF SendPlayerTeamInfo, p, TeamInfo, ScoreInfo
<1> HIDE DEF r
<1> QED
  BY <1>1, <1>2, <1>3

\* What the entries of a player are to tell is overtaken by a reset or comes behind it.
LEMMA ToldOrOvertaken ==
  ASSUME NEW s \in Slots, Told(s)
  PROVE  /\ \A e \in {TeamInfo(s), ScoreInfo(s)} : e \in overtaken' <=> Before(queue, e)
         /\ \A e : e \notin {TeamInfo(s), ScoreInfo(s)} => (e \in overtaken' <=> e \in overtaken)
  BY DEF Told, Ahead, Before

-----------------------------------------------------------------------------
(* Types *)

\* Every step keeps the types, and no broadcast is queued twice.
LEMMA TypeStep == TypeOK /\ [Next]_vars => TypeOK'
<1> SUFFICES ASSUME TypeOK, [Next]_vars PROVE TypeOK'
  OBVIOUS
<1>0. queue \in Seq(Entries) /\ Unique(queue)
  BY DEF TypeOK, Unique
<1> USE DEF TypeOK, vars
<1>1. CASE ThinkBegins
  BY <1>1, BroadcastsAssumption DEF ThinkBegins
<1>2. CASE ProcessDeferredBroadcasts
  <2>1. queue' \in Seq(Entries) /\ Unique(queue') /\ Head(queue) \in Entries
    BY <1>2, SendFirst DEF ProcessDeferredBroadcasts, Unique
  <2>2. board' \in [Slots -> Lines]
    BY <1>2, <2>1 DEF ProcessDeferredBroadcasts, Shown, Entries, Lines, Teams, NameOf
  <2> QED
    BY <1>2, <2>1, <2>2, BroadcastsAssumption DEF ProcessDeferredBroadcasts, Unique
<1>3. CASE ThinkGoesOn
  <2>1. 0 \in 0 .. PerFrame /\ 0 \in 0 .. MaxClients + 1 /\ 1 \in 0 .. MaxClients + 1
    BY BroadcastsAssumption
  <2>2. left' = 0 /\ next' \in {0, 1} /\ thinking' \in BOOLEAN
    BY <1>3 DEF ThinkGoesOn
  <2> QED
    BY <1>3, <2>1, <2>2 DEF ThinkGoesOn
<1>4. CASE ResetPlayer
  <2>1. queue' \in Seq(Entries) /\ Unique(queue')
    <3> HIDE DEF TypeOK
    <3>1. /\ next \in Slots
          /\ queue' = queue \/ queue' = QueueDeferredBroadcast(queue, Spectator(next))
      BY <1>4 DEF ResetPlayer
    <3> QED
      BY <1>0, <3>1, PlayerEntries, QueueOne
  <2>2. next' \in 0 .. MaxClients + 1
    BY <1>4, BroadcastsAssumption DEF ResetPlayer, Slots
  <2>3. team' \in [Slots -> Teams] /\ watching' \in [Slots -> BOOLEAN]
    BY <1>4 DEF ResetPlayer, Teams
  <2>4. /\ here' = here /\ thinking' \in BOOLEAN /\ left' = left /\ board' = board
        /\ overtaken' = overtaken
    BY <1>4 DEF ResetPlayer
  <2> QED
    BY <2>1, <2>2, <2>3, <2>4 DEF Unique
<1>5. CASE ResetEnds
  <2>1. queue' \in Seq(Entries) /\ Unique(queue')
    BY <1>5, QueueOne DEF ResetEnds, Unique, Entries
  <2>2. next' \in 0 .. MaxClients + 1
    BY <1>5, BroadcastsAssumption DEF ResetEnds
  <2> QED
    BY <1>5, <2>1, <2>2 DEF ResetEnds, Unique
<1>6. ASSUME NEW s \in Slots, PutInServer(s) PROVE TypeOK'
  <2>1. queue' \in Seq(Entries) /\ Unique(queue')
    <3> HIDE DEF TypeOK
    <3>1. queue' = SendPlayerTeamInfo(queue, s)
      BY <1>6 DEF PutInServer
    <3> QED
      BY <1>0, <3>1, QueueTeamInfo
  <2>2. overtaken' \subseteq Entries
    BY <1>6, PlayerEntries DEF PutInServer, Told
  <2> QED
    BY <1>6, <2>1, <2>2 DEF PutInServer, Unique, Lines, Teams, NameOf, Nothing
<1>7. ASSUME NEW s \in Slots, InitHUD(s) PROVE TypeOK'
  <2>1. queue' \in Seq(Entries) /\ Unique(queue')
    <3> HIDE DEF TypeOK
    <3> DEFINE q == QueueDeferredBroadcast(queue, ScoreInfo(s))
    <3>1. q \in Seq(Entries) /\ Unique(q)
      BY <1>0, PlayerEntries, QueueOne
    <3>2. queue' = SendPlayerTeamInfo(q, s)
      BY <1>7 DEF InitHUD
    <3> HIDE DEF q
    <3> QED
      BY <3>1, <3>2, QueueTeamInfo
  <2>2. overtaken' \subseteq Entries
    BY <1>7, PlayerEntries DEF InitHUD, Told
  <2> QED
    BY <1>7, <2>1, <2>2 DEF InitHUD, Unique, Lines, Teams, NameOf, Nothing
<1>8. ASSUME NEW s \in Slots, SendScoreInfo(s) PROVE TypeOK'
  <2>1. queue' \in Seq(Entries) /\ Unique(queue')
    <3> HIDE DEF TypeOK
    <3>1. queue' = QueueDeferredBroadcast(queue, ScoreInfo(s))
      BY <1>8 DEF SendScoreInfo
    <3> QED
      BY <1>0, <3>1, PlayerEntries, QueueOne
  <2>2. overtaken' \subseteq Entries
    BY <1>8, PlayerEntries DEF SendScoreInfo, Told
  <2> QED
    BY <1>8, <2>1, <2>2 DEF SendScoreInfo, Unique
<1>9. ASSUME NEW s \in Slots, ClientDisconnected(s) PROVE TypeOK'
  BY <1>9, BroadcastsAssumption DEF ClientDisconnected, Between
<1>10. ASSUME NEW s \in Slots, NEW t \in Teams, ChangeTeam(s, t) PROVE TypeOK'
  <2>1. queue' \in Seq(Entries) /\ Unique(queue')
    <3> HIDE DEF TypeOK
    <3>1. queue' = SendPlayerTeamInfo(queue, s)
      BY <1>10 DEF ChangeTeam
    <3> QED
      BY <1>0, <3>1, QueueTeamInfo
  <2>2. overtaken' \subseteq Entries
    BY <1>10, PlayerEntries DEF ChangeTeam, Told
  <2> QED
    BY <1>10, <2>1, <2>2 DEF ChangeTeam, Unique
<1>11. ASSUME NEW s \in Slots, NEW t \in Teams, StartObserver(s, t) PROVE TypeOK'
  <2>1. queue' \in Seq(Entries) /\ Unique(queue')
    <3> HIDE DEF TypeOK
    <3> DEFINE q == SendPlayerTeamInfo(queue, s)
    <3>1. q \in Seq(Entries) /\ Unique(q)
      BY <1>0, QueueTeamInfo
    <3>2. queue' = QueueDeferredBroadcast(q, Spectator(s))
      BY <1>11 DEF StartObserver
    <3> HIDE DEF q
    <3> QED
      BY <3>1, <3>2, PlayerEntries, QueueOne
  <2>2. overtaken' \subseteq Entries
    BY <1>11, PlayerEntries DEF StartObserver, Told
  <2>3. /\ team' \in [Slots -> Teams] /\ watching' \in [Slots -> BOOLEAN]
        /\ here' = here /\ thinking' \in BOOLEAN /\ left' = left /\ next' = next /\ board' = board
    BY <1>11 DEF StartObserver
  <2> QED
    BY <2>1, <2>2, <2>3 DEF Unique
<1>12. ASSUME NEW s \in Slots, NEW t \in Teams, StopObserver(s, t) PROVE TypeOK'
  <2>1. queue' \in Seq(Entries) /\ Unique(queue')
    <3> HIDE DEF TypeOK
    <3> DEFINE q == QueueDeferredBroadcast(queue, Spectator(s))
    <3>1. q \in Seq(Entries) /\ Unique(q)
      BY <1>0, PlayerEntries, QueueOne
    <3>2. queue' = SendPlayerTeamInfo(q, s)
      BY <1>12 DEF StopObserver
    <3> HIDE DEF q
    <3> QED
      BY <3>1, <3>2, QueueTeamInfo
  <2>2. overtaken' \subseteq Entries
    BY <1>12, PlayerEntries DEF StopObserver, Told
  <2>3. /\ team' \in [Slots -> Teams] /\ watching' \in [Slots -> BOOLEAN]
        /\ here' = here /\ thinking' \in BOOLEAN /\ left' = left /\ next' = next /\ board' = board
    BY <1>12 DEF StopObserver
  <2> QED
    BY <2>1, <2>2, <2>3 DEF Unique
<1>13. CASE UNCHANGED vars
  BY <1>13
<1> HIDE DEF TypeOK, vars
<1> QED
  BY <1>1, <1>2, <1>3, <1>4, <1>5, <1>6, <1>7, <1>8, <1>9, <1>10, <1>11, <1>12, <1>13
     DEF Next, Think, Player

\* The types hold when the server starts.
LEMMA TypeInit == Init => TypeOK
<1> SUFFICES ASSUME Init PROVE TypeOK
  OBVIOUS
<1>1. 0 \in 0 .. PerFrame /\ 0 \in 0 .. MaxClients + 1
  BY BroadcastsAssumption
<1>2. /\ here \in [Slots -> {"out", "put", "in"}] /\ team \in [Slots -> Teams]
      /\ watching \in [Slots -> BOOLEAN]
  BY DEF Init, Teams
<1>3. Nothing \in Lines
  BY DEF Nothing, Lines
<1>4. board \in [Slots -> Lines]
  BY <1>3 DEF Init
<1>5. /\ queue \in Seq(Entries)
      /\ \A i, j \in 1 .. Len(queue) : queue[i] = queue[j] => i = j
  BY DEF Init
<1> QED
  BY <1>1, <1>2, <1>4, <1>5 DEF Init, TypeOK

\* All that is sent is of its type, and the queue holds no broadcast twice: it is bounded,
\* three entries for a player and one for the round.
THEOREM TypeCorrect == Spec => []TypeOK
  BY TypeInit, TypeStep, PTL DEF Spec

-----------------------------------------------------------------------------
(* The scoreboard *)

\* ResetRound is in Think; whom it has been at is an observer, and his Spectator is queued.
ResetInv ==
  /\ next # 0 => thinking
  /\ \A s \in Slots : s < next /\ here[s] # "out" =>
       team[s] = "observer" /\ ~watching[s] /\ Has(queue, Spectator(s))

\* Before a reset is sent: whoever has a team by now, or watches, is told of behind it.
ResetTold ==
  Has(queue, Reset) => \A s \in Slots : here[s] # "out" =>
    /\ ScoreInfo(s) \in overtaken \/ After(queue, ScoreInfo(s)) \/ team[s] = "observer"
    /\ TeamInfo(s) \in overtaken \/ After(queue, TeamInfo(s))
         \/ (team[s] = "observer" /\ ~watching[s])

\* With no reset queued: what the board does not have right is still queued.
BoardTold ==
  here[Viewer] = "in" /\ ~Has(queue, Reset) =>
    \A s \in Slots : here[s] # "out" /\ ~(s < next) =>
      /\ ScoreInfo(s) \in overtaken \/ Has(queue, ScoreInfo(s)) \/ board[s].number = team[s]
      /\ TeamInfo(s) \in overtaken \/ Has(queue, TeamInfo(s)) \/ board[s].name = NameOf(s)

\* What the players' actions do to the queue
LEMMA PlayersQueue ==
  ASSUME TypeOK, NEW s \in Slots, NEW t \in Teams,
         \/ PutInServer(s) \/ InitHUD(s) \/ ChangeTeam(s, t) \/ StartObserver(s, t)
         \/ StopObserver(s, t)
  PROVE  /\ \A x : Has(queue, x) => Has(queue', x)
         /\ Has(queue', Reset) => Has(queue, Reset)
         /\ Has(queue', TeamInfo(s)) /\ Has(queue', ScoreInfo(s))
         /\ \A x : After(queue, x) => After(queue', x)
         /\ TeamInfo(s) \in overtaken' \/ After(queue', TeamInfo(s))
         /\ ScoreInfo(s) \in overtaken' \/ After(queue', ScoreInfo(s))
         /\ \A i \in Slots \ {s} : /\ TeamInfo(i) \in overtaken => TeamInfo(i) \in overtaken'
                                   /\ ScoreInfo(i) \in overtaken => ScoreInfo(i) \in overtaken'
<1>1. queue \in Seq(Entries) /\ Unique(queue)
  BY DEF TypeOK, Unique
<1>2. Told(s)
  BY DEF PutInServer, InitHUD, ChangeTeam, StartObserver, StopObserver
<1>3. \A i \in Slots \ {s} : {TeamInfo(i), ScoreInfo(i)} \cap {TeamInfo(s), ScoreInfo(s)} = {}
  BY DEF TeamInfo, ScoreInfo
<1>4. CASE queue' = SendPlayerTeamInfo(queue, s)
  <2>1. /\ \A x : Has(queue', x) <=> Has(queue, x) \/ x \in {TeamInfo(s), ScoreInfo(s)}
        /\ \A x : After(queue, x) => After(queue', x)
        /\ Before(queue, TeamInfo(s)) \/ After(queue', TeamInfo(s))
        /\ Before(queue, ScoreInfo(s)) \/ After(queue', ScoreInfo(s))
    BY <1>1, <1>4, QueueTeamInfo
  <2> QED
    BY <1>2, <1>3, <2>1, ToldOrOvertaken, PlayerEntries
<1>5. CASE queue' = QueueDeferredBroadcast(SendPlayerTeamInfo(queue, s), Spectator(s))
  <2> DEFINE p == SendPlayerTeamInfo(queue, s)
  <2>1. /\ p \in Seq(Entries)
        /\ \A x : Has(p, x) <=> Has(queue, x) \/ x \in {TeamInfo(s), ScoreInfo(s)}
        /\ \A x : After(queue, x) => After(p, x)
        /\ Before(queue, TeamInfo(s)) \/ After(p, TeamInfo(s))
        /\ Before(queue, ScoreInfo(s)) \/ After(p, ScoreInfo(s))
    BY <1>1, QueueTeamInfo
  <2> HIDE DEF p
  <2>2. queue' = QueueDeferredBroadcast(p, Spectator(s))
    BY <1>5 DEF p
  <2>3. /\ \A x : Has(queue', x) <=> Has(p, x) \/ x = Spectator(s)
        /\ \A x : After(p, x) => After(queue', x)
    BY <2>1, <2>2, PlayerEntries, QueueOne, QueueBehind
  <2> QED
    BY <1>2, <1>3, <2>1, <2>3, ToldOrOvertaken, PlayerEntries
<1>6. CASE queue' = SendPlayerTeamInfo(QueueDeferredBroadcast(queue, Spectator(s)), s)
  <2> DEFINE p == QueueDeferredBroadcast(queue, Spectator(s))
  <2>1. /\ p \in Seq(Entries) /\ Unique(p) /\ \A x : Has(p, x) <=> Has(queue, x) \/ x = Spectator(s)
        /\ \A x : After(queue, x) => After(p, x)
        /\ \A x : x # Spectator(s) => (Before(p, x) => Before(queue, x))
    BY <1>1, PlayerEntries, QueueOne, QueueBehind
  <2> HIDE DEF p
  <2>2. queue' = SendPlayerTeamInfo(p, s)
    BY <1>6 DEF p
  <2>3. /\ \A x : Has(queue', x) <=> Has(p, x) \/ x \in {TeamInfo(s), ScoreInfo(s)}
        /\ \A x : After(p, x) => After(queue', x)
        /\ Before(p, TeamInfo(s)) \/ After(queue', TeamInfo(s))
        /\ Before(p, ScoreInfo(s)) \/ After(queue', ScoreInfo(s))
    BY <2>1, <2>2, QueueTeamInfo
  <2>4. TeamInfo(s) # Spectator(s) /\ ScoreInfo(s) # Spectator(s)
    BY DEF TeamInfo, ScoreInfo, Spectator
  <2> QED
    BY <1>2, <1>3, <2>1, <2>3, <2>4, ToldOrOvertaken, PlayerEntries
<1>7. CASE queue' = SendPlayerTeamInfo(QueueDeferredBroadcast(queue, ScoreInfo(s)), s)
  <2> DEFINE p == QueueDeferredBroadcast(queue, ScoreInfo(s))
  <2>1. /\ p \in Seq(Entries) /\ Unique(p) /\ \A x : Has(p, x) <=> Has(queue, x) \/ x = ScoreInfo(s)
        /\ Before(queue, ScoreInfo(s)) \/ After(p, ScoreInfo(s))
        /\ \A x : After(queue, x) => After(p, x)
        /\ \A x : x # ScoreInfo(s) => (Before(p, x) => Before(queue, x))
    BY <1>1, PlayerEntries, QueueOne, QueueBehind
  <2> HIDE DEF p
  <2>2. queue' = SendPlayerTeamInfo(p, s)
    BY <1>7 DEF p
  <2>3. /\ \A x : Has(queue', x) <=> Has(p, x) \/ x \in {TeamInfo(s), ScoreInfo(s)}
        /\ \A x : After(p, x) => After(queue', x)
        /\ Before(p, TeamInfo(s)) \/ After(queue', TeamInfo(s))
    BY <2>1, <2>2, QueueTeamInfo
  <2>4. TeamInfo(s) # ScoreInfo(s)
    BY DEF TeamInfo, ScoreInfo
  <2> QED
    BY <1>2, <1>3, <2>1, <2>3, <2>4, ToldOrOvertaken, PlayerEntries
<1> QED
  BY <1>4, <1>5, <1>6, <1>7 DEF PutInServer, InitHUD, ChangeTeam, StartObserver, StopObserver

\* Points change nothing but the place of an entry.
LEMMA ScoresQueue ==
  ASSUME TypeOK, NEW s \in Slots, SendScoreInfo(s)
  PROVE  /\ \A x : Has(queue, x) => Has(queue', x)
         /\ Has(queue', Reset) => Has(queue, Reset)
         /\ \A x : After(queue, x) => After(queue', x)
<1>1. queue \in Seq(Entries)
  BY DEF TypeOK
<1> QED
  BY <1>1, PlayerEntries, QueueOne, QueueBehind DEF SendScoreInfo

\* What is sent leaves the queue.
LEMMA SentFirst ==
  ASSUME TypeOK, ProcessDeferredBroadcasts
  PROVE  /\ Head(queue) \in Entries
         /\ \A x : Has(queue', x) <=> Has(queue, x) /\ x # Head(queue)
         /\ \A x : After(queue, x) /\ x # Reset /\ Has(queue, Reset) =>
              Has(queue', x) /\ After(queue', x)
<1>1. queue \in Seq(Entries) /\ Unique(queue) /\ queue # <<>> /\ queue' = Tail(queue)
  BY DEF TypeOK, Unique, ProcessDeferredBroadcasts
<1> QED
  BY <1>1, SendFirst

\* ResetRound queues a Spectator for each player ...
LEMMA ResetQueue ==
  ASSUME TypeOK, ResetPlayer
  PROVE  /\ \A x : Has(queue, x) => Has(queue', x)
         /\ here[next] # "out" => Has(queue', Spectator(next))
         /\ Has(queue', Reset) => Has(queue, Reset)
         /\ \A x : After(queue, x) => After(queue', x)
<1>1. queue \in Seq(Entries)
  BY DEF TypeOK
<1>2. CASE here[next] = "out"
  BY <1>2 DEF ResetPlayer
<1>3. CASE here[next] # "out"
  <2>1. queue' = QueueDeferredBroadcast(queue, Spectator(next)) /\ next \in Slots
    BY <1>3 DEF ResetPlayer
  <2>2. Spectator(next) \in Entries /\ Spectator(next) # Reset
    BY <2>1, PlayerEntries
  <2> QED
    BY <1>1, <2>1, <2>2, QueueOne, QueueBehind
<1> QED
  BY <1>2, <1>3

\* ... and the reset in the end.
LEMMA EndQueue ==
  ASSUME TypeOK, ResetEnds
  PROVE  Has(queue', Reset)
<1>1. queue \in Seq(Entries) /\ Reset \in Entries
  BY DEF TypeOK, Entries
<1> QED
  BY <1>1, QueueOne DEF ResetEnds

\* Every step keeps it.
LEMMA ResetInvStep == TypeOK /\ ResetInv /\ [Next]_vars => ResetInv'
<1> SUFFICES ASSUME TypeOK, ResetInv, [Next]_vars PROVE ResetInv'
  OBVIOUS
<1> USE DEF ResetInv, vars
<1>1. CASE ThinkBegins
  BY <1>1, BroadcastsAssumption DEF ThinkBegins
<1>2. CASE ProcessDeferredBroadcasts
  <2>1. next = 0 /\ next' = next
    BY <1>2 DEF ProcessDeferredBroadcasts
  <2> QED
    BY <2>1, BroadcastsAssumption DEF Slots
<1>3. CASE ThinkGoesOn
  BY <1>3, BroadcastsAssumption DEF ThinkGoesOn, Slots
<1>4. CASE ResetPlayer
  <2>1. /\ next' = next + 1 /\ here' = here /\ thinking' = thinking /\ next \in Slots
        /\ \A s \in Slots \ {next} : team'[s] = team[s] /\ watching'[s] = watching[s]
        /\ here[next] # "out" => team'[next] = "observer" /\ ~watching'[next]
    BY <1>4 DEF ResetPlayer, TypeOK
  <2>2. \A s \in Slots : s < next + 1 => s = next \/ s < next
    BY <2>1, BroadcastsAssumption DEF Slots
  <2>3. next # 0
    BY <2>1, BroadcastsAssumption DEF Slots
  <2> QED
    BY <1>4, <2>1, <2>2, <2>3, ResetQueue
<1>5. CASE ResetEnds
  BY <1>5, BroadcastsAssumption DEF ResetEnds, Slots
<1>6. ASSUME NEW s \in Slots, PutInServer(s) PROVE ResetInv'
  <2>1. thinking' = thinking /\ ~thinking /\ next' = next
    BY <1>6 DEF PutInServer, Between
  <2> QED
    BY <2>1, BroadcastsAssumption DEF Slots
<1>7. ASSUME NEW s \in Slots, InitHUD(s) PROVE ResetInv'
  <2>1. thinking' = thinking /\ ~thinking /\ next' = next
    BY <1>7 DEF InitHUD, Between
  <2> QED
    BY <2>1, BroadcastsAssumption DEF Slots
<1>8. ASSUME NEW s \in Slots, SendScoreInfo(s) PROVE ResetInv'
  <2>1. thinking' = thinking /\ ~thinking /\ next' = next
    BY <1>8 DEF SendScoreInfo, Between
  <2> QED
    BY <2>1, BroadcastsAssumption DEF Slots
<1>9. ASSUME NEW s \in Slots, ClientDisconnected(s) PROVE ResetInv'
  BY <1>9, BroadcastsAssumption DEF ClientDisconnected, Between, TypeOK, Slots
<1>10. ASSUME NEW s \in Slots, NEW t \in Teams, ChangeTeam(s, t) PROVE ResetInv'
  <2>1. thinking' = thinking /\ ~thinking /\ next' = next
    BY <1>10 DEF ChangeTeam, Between
  <2> QED
    BY <2>1, BroadcastsAssumption DEF Slots
<1>11. ASSUME NEW s \in Slots, NEW t \in Teams, StartObserver(s, t) PROVE ResetInv'
  <2>1. thinking' = thinking /\ ~thinking /\ next' = next
    BY <1>11 DEF StartObserver, Between
  <2> QED
    BY <2>1, BroadcastsAssumption DEF Slots
<1>12. ASSUME NEW s \in Slots, NEW t \in Teams, StopObserver(s, t) PROVE ResetInv'
  <2>1. thinking' = thinking /\ ~thinking /\ next' = next
    BY <1>12 DEF StopObserver, Between
  <2> QED
    BY <2>1, BroadcastsAssumption DEF Slots
<1>13. CASE UNCHANGED vars
  BY <1>13
<1> HIDE DEF ResetInv, vars
<1> QED
  BY <1>1, <1>2, <1>3, <1>4, <1>5, <1>6, <1>7, <1>8, <1>9, <1>10, <1>11, <1>12, <1>13
     DEF Next, Think, Player

\* Every step keeps it.
LEMMA ResetToldStep == TypeOK /\ ResetInv /\ ResetTold /\ [Next]_vars => ResetTold'
<1> SUFFICES ASSUME TypeOK, ResetInv, ResetTold, [Next]_vars PROVE ResetTold'
  OBVIOUS
<1> USE DEF ResetTold, vars
<1>1. CASE ThinkBegins
  BY <1>1 DEF ThinkBegins
<1>2. CASE ProcessDeferredBroadcasts
  <2>1. here' = here /\ team' = team /\ watching' = watching /\ overtaken' = overtaken
    BY <1>2 DEF ProcessDeferredBroadcasts
  <2> QED
    BY <1>2, <2>1, SentFirst, PlayerEntries
<1>3. CASE ThinkGoesOn
  BY <1>3 DEF ThinkGoesOn
<1>4. CASE ResetPlayer
  <2>1. /\ here' = here /\ overtaken' = overtaken
        /\ \A s \in Slots : \/ team'[s] = team[s] /\ watching'[s] = watching[s]
                            \/ here[s] # "out" /\ team'[s] = "observer" /\ ~watching'[s]
    BY <1>4 DEF ResetPlayer, TypeOK
  <2> QED
    BY <1>4, <2>1, ResetQueue
<1>5. CASE ResetEnds
  <2>1. /\ here' = here /\ team' = team /\ watching' = watching /\ overtaken' = overtaken
        /\ \A s \in Slots : s < next
    BY <1>5, BroadcastsAssumption DEF ResetEnds, Slots
  <2> QED
    BY <1>5, <2>1 DEF ResetInv
<1>6. ASSUME NEW s \in Slots, PutInServer(s) PROVE ResetTold'
  <2>1. \A i \in Slots \ {s} : /\ here'[i] = here[i] /\ team'[i] = team[i]
                               /\ watching'[i] = watching[i]
    BY <1>6 DEF PutInServer, TypeOK
  <2>2. "observer" \in Teams
    BY DEF Teams
  <2> QED
    BY <1>6, <2>1, <2>2, PlayersQueue
<1>7. ASSUME NEW s \in Slots, InitHUD(s) PROVE ResetTold'
  <2>1. \A i \in Slots \ {s} : /\ here'[i] = here[i] /\ team'[i] = team[i]
                               /\ watching'[i] = watching[i]
    BY <1>7 DEF InitHUD, TypeOK
  <2>2. "observer" \in Teams
    BY DEF Teams
  <2> QED
    BY <1>7, <2>1, <2>2, PlayersQueue
<1>8. ASSUME NEW s \in Slots, SendScoreInfo(s) PROVE ResetTold'
  <2>1. here' = here /\ team' = team /\ watching' = watching /\ overtaken' = overtaken
    BY <1>8 DEF SendScoreInfo
  <2> QED
    BY <1>8, <2>1, ScoresQueue
<1>9. ASSUME NEW s \in Slots, ClientDisconnected(s) PROVE ResetTold'
  <2>1. \A i \in Slots : here'[i] # "out" => here[i] # "out"
    BY <1>9 DEF ClientDisconnected, TypeOK
  <2> QED
    BY <1>9, <2>1 DEF ClientDisconnected
<1>10. ASSUME NEW s \in Slots, NEW t \in Teams, ChangeTeam(s, t) PROVE ResetTold'
  <2>1. \A i \in Slots \ {s} : /\ here'[i] = here[i] /\ team'[i] = team[i]
                               /\ watching'[i] = watching[i]
    BY <1>10 DEF ChangeTeam, TypeOK
  <2> QED
    BY <1>10, <2>1, PlayersQueue
<1>11. ASSUME NEW s \in Slots, NEW t \in Teams, StartObserver(s, t) PROVE ResetTold'
  <2>1. \A i \in Slots \ {s} : /\ here'[i] = here[i] /\ team'[i] = team[i]
                               /\ watching'[i] = watching[i]
    BY <1>11 DEF StartObserver, TypeOK
  <2> QED
    BY <1>11, <2>1, PlayersQueue
<1>12. ASSUME NEW s \in Slots, NEW t \in Teams, StopObserver(s, t) PROVE ResetTold'
  <2>1. \A i \in Slots \ {s} : /\ here'[i] = here[i] /\ team'[i] = team[i]
                               /\ watching'[i] = watching[i]
    BY <1>12 DEF StopObserver, TypeOK
  <2> QED
    BY <1>12, <2>1, PlayersQueue
<1>13. CASE UNCHANGED vars
  BY <1>13
<1> HIDE DEF ResetTold, vars
<1> QED
  BY <1>1, <1>2, <1>3, <1>4, <1>5, <1>6, <1>7, <1>8, <1>9, <1>10, <1>11, <1>12, <1>13
     DEF Next, Think, Player

\* Every step keeps it.
LEMMA BoardToldStep == TypeOK /\ ResetInv /\ ResetTold /\ BoardTold /\ [Next]_vars => BoardTold'
<1> SUFFICES ASSUME TypeOK, ResetInv, ResetTold, BoardTold, [Next]_vars PROVE BoardTold'
  OBVIOUS
<1> USE DEF BoardTold, vars
<1>1. CASE ThinkBegins
  BY <1>1 DEF ThinkBegins, NameOf
<1>2. CASE ProcessDeferredBroadcasts
  <2>1. /\ here' = here /\ team' = team /\ watching' = watching /\ overtaken' = overtaken
        /\ next' = next /\ next = 0 /\ board' = Shown(Head(queue))
    BY <1>2 DEF ProcessDeferredBroadcasts
  <2>2. CASE Head(queue) = Reset
    <3>1. Has(queue, Reset)
      BY <1>2, <2>2 DEF ProcessDeferredBroadcasts, Has, TypeOK
    <3>2. \A s \in Slots : board'[s].name = "observer" /\ board'[s].number = "observer"
      BY <2>1, <2>2 DEF Shown, Reset
    <3> QED
      BY <1>2, <2>1, <3>1, <3>2, SentFirst, PlayerEntries DEF ResetTold, NameOf
  <2>3. CASE Head(queue) # Reset
    <3> SUFFICES ASSUME here[Viewer] = "in", ~Has(queue, Reset), NEW s \in Slots, here[s] # "out"
                 PROVE  /\ \/ ScoreInfo(s) \in overtaken \/ Has(queue', ScoreInfo(s))
                           \/ board'[s].number = team[s]
                        /\ \/ TeamInfo(s) \in overtaken \/ Has(queue', TeamInfo(s))
                           \/ board'[s].name = NameOf(s)
      BY <1>2, <2>1, <2>3, SentFirst DEF NameOf
    <3>0. ~(s < next)
      BY <2>1, BroadcastsAssumption DEF Slots
    <3>1. CASE Head(queue) = ScoreInfo(s)
      <4>1. board'[s] = [name |-> board[s].name, number |-> team[s]] /\ TeamInfo(s) # ScoreInfo(s)
        BY <2>1, <2>3, <3>1 DEF Shown, ScoreInfo, TeamInfo, TypeOK
      <4> QED
        BY <1>2, <3>0, <3>1, <4>1, SentFirst
    <3>2. CASE Head(queue) = TeamInfo(s)
      <4>1. board'[s] = [name |-> NameOf(s),
            number |-> board[s].number] /\ TeamInfo(s) # ScoreInfo(s)
        BY <2>1, <2>3, <3>2 DEF Shown, ScoreInfo, TeamInfo, TypeOK
      <4> QED
        BY <1>2, <3>0, <3>2, <4>1, SentFirst
    <3>3. CASE Head(queue) \notin {ScoreInfo(s), TeamInfo(s)}
      <4>1. Head(queue) \in Entries
        BY <1>2, SentFirst
      <4>2. board'[s] = board[s]
        BY <2>1, <2>3, <3>3, <4>1 DEF Shown, ScoreInfo, TeamInfo, TypeOK, Entries
      <4> QED
        BY <1>2, <3>0, <3>3, <4>2, SentFirst
    <3> QED
      BY <3>1, <3>2, <3>3
  <2> QED
    BY <2>2, <2>3
<1>3. CASE ThinkGoesOn
  <2>1. \A s \in Slots : ~(s < next')
    BY <1>3, BroadcastsAssumption DEF ThinkGoesOn, Slots
  <2>2. \A s \in Slots : ~(s < next)
    BY <1>3, BroadcastsAssumption DEF ThinkGoesOn, Slots
  <2> QED
    BY <1>3, <2>1, <2>2 DEF ThinkGoesOn, NameOf
<1>4. CASE ResetPlayer
  <2>1. /\ here' = here /\ overtaken' = overtaken /\ board' = board
        /\ \A s \in Slots : ~(s < next') => /\ ~(s < next) /\ team'[s] = team[s]
                                            /\ watching'[s] = watching[s]
    BY <1>4, BroadcastsAssumption DEF ResetPlayer, TypeOK, Slots
  <2> QED
    BY <1>4, <2>1, ResetQueue DEF NameOf
<1>5. CASE ResetEnds
  BY <1>5, EndQueue
<1>6. ASSUME NEW s \in Slots, PutInServer(s) PROVE BoardTold'
  <2>1. next' = next /\ next = 0 /\ Viewer \in Slots /\ \A i \in Slots : ~(i < next)
    BY <1>6, BroadcastsAssumption DEF PutInServer, Between, ResetInv, Slots
  <2>2. CASE s = Viewer
    BY <1>6, <2>1, <2>2 DEF PutInServer, TypeOK
  <2>3. CASE s # Viewer
    <3>1. /\ \A i \in Slots \ {s} : /\ here'[i] = here[i] /\ team'[i] = team[i]
                                    /\ watching'[i] = watching[i]
          /\ board' = board
          /\ here'[Viewer] = "in" => here[Viewer] = "in"
      BY <1>6, <2>1, <2>3 DEF PutInServer, TypeOK
    <3>2. "observer" \in Teams
      BY DEF Teams
    <3> QED
      BY <1>6, <2>1, <3>1, <3>2, PlayersQueue DEF NameOf
  <2> QED
    BY <2>2, <2>3
<1>7. ASSUME NEW s \in Slots, InitHUD(s) PROVE BoardTold'
  <2>0. next' = next /\ ~thinking /\ "observer" \in Teams
    BY <1>7 DEF InitHUD, Between, Teams
  <2>1. next' = next /\ next = 0 /\ Viewer \in Slots /\ \A i \in Slots : ~(i < next)
    BY <2>0, BroadcastsAssumption DEF ResetInv, Slots
  <2>2. \A i \in Slots \ {s} : /\ here'[i] = here[i] /\ team'[i] = team[i]
                               /\ watching'[i] = watching[i]
    BY <1>7 DEF InitHUD, TypeOK
  <2>3. CASE s = Viewer
    <3>1. \A i \in Slots \ {s} : here[i] # "out" =>
            board'[i].number = team'[i] /\ board'[i].name = NameOf(i)'
      BY <1>7, <2>2, <2>3 DEF InitHUD, NameOf
    <3> QED
      BY <1>7, <2>0, <2>1, <2>2, <3>1, PlayersQueue
  <2>4. CASE s # Viewer
    <3>1. \A i \in Slots \ {s} : board'[i] = board[i]
      BY <1>7, <2>4 DEF InitHUD, TypeOK
    <3>2. here'[Viewer] = "in" => here[Viewer] = "in"
      BY <2>1, <2>2, <2>4
    <3> QED
      BY <1>7, <2>0, <2>1, <2>2, <3>1, <3>2, PlayersQueue DEF NameOf
  <2> QED
    BY <2>3, <2>4
<1>8. ASSUME NEW s \in Slots, SendScoreInfo(s) PROVE BoardTold'
  <2>1. /\ here' = here /\ team' = team /\ watching' = watching /\ overtaken' = overtaken
        /\ board' = board /\ next' = next
    BY <1>8 DEF SendScoreInfo
  <2> QED
    BY <1>8, <2>1, ScoresQueue DEF NameOf
<1>9. ASSUME NEW s \in Slots, ClientDisconnected(s) PROVE BoardTold'
  <2>1. /\ \A i \in Slots : here'[i] # "out" => here[i] # "out" /\ here'[i] = here[i]
        /\ Viewer \in Slots
    BY <1>9, BroadcastsAssumption DEF ClientDisconnected, TypeOK
  <2> QED
    BY <1>9, <2>1 DEF ClientDisconnected, NameOf
<1>10. ASSUME NEW s \in Slots, NEW t \in Teams, ChangeTeam(s, t) PROVE BoardTold'
  <2>1. next' = next /\ next = 0 /\ Viewer \in Slots /\ \A i \in Slots : ~(i < next)
    BY <1>10, BroadcastsAssumption DEF ChangeTeam, Between, ResetInv, Slots
  <2>2. /\ \A i \in Slots \ {s} : /\ here'[i] = here[i] /\ team'[i] = team[i]
                                  /\ watching'[i] = watching[i]
                                  /\ board'[i] = board[i]
        /\ here'[Viewer] = "in" => here[Viewer] = "in"
    BY <1>10, <2>1 DEF ChangeTeam, TypeOK
  <2> QED
    BY <1>10, <2>1, <2>2, PlayersQueue DEF NameOf
<1>11. ASSUME NEW s \in Slots, NEW t \in Teams, StartObserver(s, t) PROVE BoardTold'
  <2>1. next' = next /\ next = 0 /\ Viewer \in Slots /\ \A i \in Slots : ~(i < next)
    BY <1>11, BroadcastsAssumption DEF StartObserver, Between, ResetInv, Slots
  <2>2. /\ \A i \in Slots \ {s} : /\ here'[i] = here[i] /\ team'[i] = team[i]
                                  /\ watching'[i] = watching[i]
                                  /\ board'[i] = board[i]
        /\ here'[Viewer] = "in" => here[Viewer] = "in"
    BY <1>11, <2>1 DEF StartObserver, TypeOK
  <2> QED
    BY <1>11, <2>1, <2>2, PlayersQueue DEF NameOf
<1>12. ASSUME NEW s \in Slots, NEW t \in Teams, StopObserver(s, t) PROVE BoardTold'
  <2>1. next' = next /\ next = 0 /\ Viewer \in Slots /\ \A i \in Slots : ~(i < next)
    BY <1>12, BroadcastsAssumption DEF StopObserver, Between, ResetInv, Slots
  <2>2. /\ \A i \in Slots \ {s} : /\ here'[i] = here[i] /\ team'[i] = team[i]
                                  /\ watching'[i] = watching[i]
                                  /\ board'[i] = board[i]
        /\ here'[Viewer] = "in" => here[Viewer] = "in"
    BY <1>12, <2>1 DEF StopObserver, TypeOK
  <2> QED
    BY <1>12, <2>1, <2>2, PlayersQueue DEF NameOf
<1>13. CASE UNCHANGED vars
  BY <1>13 DEF NameOf
<1> HIDE DEF BoardTold, vars
<1> QED
  BY <1>1, <1>2, <1>3, <1>4, <1>5, <1>6, <1>7, <1>8, <1>9, <1>10, <1>11, <1>12, <1>13
     DEF Next, Think, Player

\* When nothing is left to send, every client's scoreboard has the team of every player who is
\* here, but of those whose entry the reset of a round has overtaken.
THEOREM ScoreboardsAgree == Spec => []BoardAgrees
<1> DEFINE Inv == TypeOK /\ ResetInv /\ ResetTold /\ BoardTold
<1>1. Init => Inv
  <2>1. Init => ResetInv /\ ResetTold /\ BoardTold
    BY BroadcastsAssumption DEF Init, ResetInv, ResetTold, BoardTold, Has, Slots
  <2> QED
    BY <2>1, TypeInit
<1>2. Inv /\ [Next]_vars => Inv'
  BY TypeStep, ResetInvStep, ResetToldStep, BoardToldStep
<1>3. Inv => BoardAgrees
  <2>1. queue = <<>> => \A x : ~Has(queue, x)
    BY DEF Has
  <2> QED
    BY <2>1 DEF BoardAgrees, BoardTold, ResetInv
<1> HIDE DEF Inv
<1> QED
  BY <1>1, <1>2, <1>3, PTL DEF Spec

-----------------------------------------------------------------------------
(* The order of the queue *)

\* Queueing leaves alone what is there.
LEMMA QueueContinues ==
  ASSUME NEW q \in Seq(Entries), NEW e \in Entries
  PROVE  Continues(q, QueueDeferredBroadcast(q, e)) /\ QueueDeferredBroadcast(q, e) \in Seq(Entries)
<1> DEFINE r == Append(q, e)
<1>1. r \in Seq(Entries) /\ Len(q) \in Nat /\ Len(r) = Len(q) + 1 /\ \A i \in 1 .. Len(q) : r[i] = q[i]
  OBVIOUS
<1> HIDE DEF r
<1>2. Continues(q, q) /\ Continues(q, r)
  BY <1>1 DEF Continues
<1> QED
  BY <1>1, <1>2 DEF QueueDeferredBroadcast, r

\* So does queueing more than once.
LEMMA ContinuesOn ==
  ASSUME NEW p \in Seq(Entries), NEW q \in Seq(Entries), NEW r \in Seq(Entries),
         Continues(p, q), Continues(q, r)
  PROVE  Continues(p, r)
<1>1. Len(p) \in Nat /\ Len(q) \in Nat /\ Len(r) \in Nat
  OBVIOUS
<1>2. \A i \in 1 .. Len(p) : i \in 1 .. Len(q)
  BY <1>1 DEF Continues
<1> QED
  BY <1>1, <1>2 DEF Continues

\* What a player's team and score add comes behind what there is.
LEMMA TeamInfoContinues ==
  ASSUME NEW q \in Seq(Entries), NEW s \in Slots
  PROVE  Continues(q, SendPlayerTeamInfo(q, s)) /\ SendPlayerTeamInfo(q, s) \in Seq(Entries)
<1> DEFINE p == QueueDeferredBroadcast(q, TeamInfo(s))
<1>1. p \in Seq(Entries) /\ Continues(q, p)
  BY PlayerEntries, QueueContinues
<1> HIDE DEF p
<1>2. /\ QueueDeferredBroadcast(p, ScoreInfo(s)) \in Seq(Entries)
      /\ Continues(p, QueueDeferredBroadcast(p, ScoreInfo(s)))
  BY <1>1, PlayerEntries, QueueContinues
<1> QED
  BY <1>1, <1>2, ContinuesOn DEF SendPlayerTeamInfo, p

\* Sent broadcasts leave from the front, queued ones come in at the end: none is overtaken,
\* and none is lost.
THEOREM NoneOvertakes == Spec => KeepsItsPlace
<1> DEFINE Kept == Continues(queue, queue') \/ queue' = Tail(queue)
<1>1. TypeOK /\ [Next]_vars => [Kept]_vars
  <2> SUFFICES ASSUME TypeOK, Next PROVE Kept
    OBVIOUS
  <2>0. queue \in Seq(Entries) /\ Continues(queue, queue)
    BY DEF TypeOK, Continues
  <2>1. CASE ThinkBegins \/ ThinkGoesOn
    BY <2>0, <2>1 DEF ThinkBegins, ThinkGoesOn
  <2>2. CASE ProcessDeferredBroadcasts
    BY <2>2 DEF ProcessDeferredBroadcasts
  <2>3. CASE ResetPlayer
    BY <2>0, <2>3, PlayerEntries, QueueContinues DEF ResetPlayer
  <2>4. CASE ResetEnds
    BY <2>0, <2>4, QueueContinues DEF ResetEnds, Entries
  <2>5. ASSUME NEW s \in Slots, Player(s) PROVE Kept
    <3>1. CASE queue' = queue
      BY <2>0, <3>1
    <3>2. CASE queue' = SendPlayerTeamInfo(queue, s)
      BY <2>0, <3>2, TeamInfoContinues
    <3>3. CASE queue' = QueueDeferredBroadcast(queue, ScoreInfo(s))
      BY <2>0, <3>3, PlayerEntries, QueueContinues
    <3>4. CASE queue' = QueueDeferredBroadcast(SendPlayerTeamInfo(queue, s), Spectator(s))
      <4> DEFINE p == SendPlayerTeamInfo(queue, s)
      <4>1. p \in Seq(Entries) /\ Continues(queue, p)
        BY <2>0, TeamInfoContinues
      <4>2. Spectator(s) \in Entries /\ queue' = QueueDeferredBroadcast(p, Spectator(s))
        BY <3>4, PlayerEntries
      <4> HIDE DEF p
      <4>3. queue' \in Seq(Entries) /\ Continues(p, queue')
        BY <4>1, <4>2, QueueContinues
      <4> QED
        BY <2>0, <4>1, <4>3, ContinuesOn
    <3>5. ASSUME NEW e \in {Spectator(s), ScoreInfo(s)},
                 queue' = SendPlayerTeamInfo(QueueDeferredBroadcast(queue, e), s)
          PROVE  Kept
      <4> DEFINE p == QueueDeferredBroadcast(queue, e)
      <4>0. e \in Entries
        BY PlayerEntries
      <4>1. p \in Seq(Entries) /\ Continues(queue, p)
        BY <2>0, <4>0, QueueContinues
      <4>2. queue' = SendPlayerTeamInfo(p, s)
        BY <3>5
      <4> HIDE DEF p
      <4>3. queue' \in Seq(Entries) /\ Continues(p, queue')
        BY <4>1, <4>2, TeamInfoContinues
      <4> QED
        BY <2>0, <4>1, <4>3, ContinuesOn
    <3>6. \/ queue' = queue \/ queue' = SendPlayerTeamInfo(queue, s)
          \/ queue' = QueueDeferredBroadcast(queue, ScoreInfo(s))
          \/ queue' = QueueDeferredBroadcast(SendPlayerTeamInfo(queue, s), Spectator(s))
          \/ queue' = SendPlayerTeamInfo(QueueDeferredBroadcast(queue, Spectator(s)), s)
          \/ queue' = SendPlayerTeamInfo(QueueDeferredBroadcast(queue, ScoreInfo(s)), s)
      BY <2>5, Zenon
         DEF Player, PutInServer, InitHUD, SendScoreInfo, ClientDisconnected, ChangeTeam,
             StartObserver, StopObserver
    <3> QED
      BY <3>1, <3>2, <3>3, <3>4, <3>5, <3>6
  <2> HIDE DEF Kept
  <2> QED
    BY <2>1, <2>2, <2>3, <2>4, <2>5 DEF Next, Think
<1>2. Spec => [][Kept]_vars
  <2> HIDE DEF Kept
  <2> QED
    BY <1>1, TypeCorrect, PTL DEF Spec
<1> QED
  BY <1>2 DEF KeepsItsPlace
=============================================================================
