# Zombie Panic! (Half-Life): TLA+ models, model checking and proofs

This directory specifies the game logic of Zombie Panic! in TLA+ (the rounds of the
server, what it tells its clients, the entities of an objective map) and the client's
updater, checks them with TLC on small instances and proves their safety properties with
TLAPS for instances of any size. Paths below are relative to `src/src/game/` of the repository.

## The system

The server is one thread. The engine calls `CZombiePanicGameRules::Think` once per
frame and, in the same frame, delivers what clients did: they connect, leave, send
commands, press buttons, touch triggers, die. Concurrency is therefore the order of
handlers, any client's between any two frames; what makes the code hard is that its
state is spread over the rules object, the game mode and the fields of up to 32 player
slots, that slots change hands, and that timers let an answer arrive long after the
question. The client's updater is the exception: it runs on the game's main thread, a
thread of the HTTP client and one of an async task, and works on a disk that outlives all
three.

| Component | State it keeps | Operations | Interacts by |
| --- | --- | --- | --- |
| Round flow: `server/zp/zp_gamerules.cpp`, `server/zp/gamemodes/` | round state, verdict flags, zombie lives, volunteers, who left mid round, round counter, deadlines | Think, OnGameModeThink, CheckZombieAmount, ResetRound, joingame, GetWinState | calls into every player; entities' Restart; messages to clients; the scripts' OnRoundStart |
| Player life cycle: `server/player.cpp`, `observer.cpp`, `client.cpp` | team, deadflag, iuser1, welcome cam, m_bNoLives, m_bHasEscaped, the lock key "zprl" | connect, Spawn, Killed, PlayerDeathThink, StartObserver, StartWelcomeCam, suicide, disconnect | callbacks OnPlayerDied, OnPlayerSpawned, OnPlayerDisconnected |
| Zombie selection: PickRandomVolunteer and the lists of CBaseGameMode | m_Volunteers (slots), m_LastChoosenZombies (auth ids) | volunteer, pick, purge | reads players, changes their team |
| Deferred broadcasts: `zp_gamerules.cpp`, `client/vgui/client_viewport.cpp` | queue of messages by type and slot; what each client's scoreboard shows | queue (merging), process four per frame, put a reset behind everything queued | everything that changes a team or a score; messages to clients |
| API handshake: `zp_gamerules.cpp` | pending calls and client data by slot | connect, one call per 0.8 s | an outside service |
| Weapons and inventory: `server/player.cpp`, `shared/zp/weapons/` | items, ammunition, weight, clips, reload stages | add, drop, pick up, reload, fire | death, round reset |
| Map entities: `server/zp/*.cpp`, `client/zp/hud/` | capture points, beacons, objectives, barricades, random spawns; beacon and text as a client has them | Use, Touch, Think, Restart; joining late | targets, scripts, ResetRound; messages to clients |
| Script system: `scriptsystem/` | registered inputs and outputs, delayed calls | call, callback, think | map entities |
| Client updater: `client/updater/`, `client/hud.cpp` | status, abort flag, requests and responses, the task, metadata and files on disk | check, download, extract, hash, ask, install, cancel, shut down | flags and queues shared by three threads; the disk; the quit command |
| Bots, `pm_shared`, HUD and UI, Half-Life monsters, vendored libraries | | | not part of this development |

What makes each part correct: the round flow must go through its phases once per round,
leave nothing to the next round, end, and never leave a player frozen; a player must not
get back into a round he is out of; the selection must terminate, keep to its quota and
not exceed its memory; broadcasts must reach the clients with the state of the slot they
are about; an inventory must respect its limits; entities must restart with the round and
look the same on every client; an update must leave a whole release on disk, keep what the
user wrote, and end when it is told to.
`PROJECT.json` lists the hazards line by line, with the properties that cover them.

## Modules

* `RoundFlow` is the core: the rules, the game mode and the slots in one state machine,
  as they share state in every handler. Every action is one handler, or one path through
  `Think` or `ResetRound`; an action's comment names the function. The variables carry the
  names of the source's members where a comment does not say so.
* `RoundPhases` is the abstract specification of a match: lobby, underway, over, the
  next lobby. `RoundFlow` implements it under the mapping `Phase` (roundState, gameOver and
  crashed), `hasPicked` and `rounds`.
* `ZombieSelection` models the pick in detail: the goto loop of `PickRandomVolunteer` one
  pass at a time, slots against persons.
* `OnePick` is the contract between the two: once between two resets, and at a stroke, some
  players become zombies, and who they may be. `RoundFlow` takes the pick for this one step
  (`Picks` is `OnePick`'s `Outcomes`) and implements it; the loop of `ZombieSelection`
  implements it too, so the round may be reasoned about without the loop. The history
  variable `start` keeps what the rules found when they entered the loop.
* `RoundSignals` is the contract between the rounds and the map: a round begins, is over
  (also one that a `game_end` called off before it began), is reset. `RoundFlow` implements
  it, and `CapturePoint` and `MapEntities`, which send these signals to themselves, do too.
* `Broadcasts` models `m_vecDeferredBroadcasts` with everything that fills it (joining a
  team, spawning, watching, HUD initialisation, scores, leaving, `ResetRound`), the rationed
  sending in `Think`, and the scoreboard of one client.
* `CapturePoint` models `trigger_capture_point` with its `info_beacon`, on the server and as
  a client draws it; `Objectives` the chain of `info_objective`s and the text that a client
  reads. `MapEntities` composes them: a capture ends an objective through an
  `info_objective_set`, an objective that has ended uses the point, `ResetRound` restarts
  both, a client comes at any time. `CapturePoint` is also the abstract specification of the
  point's share in the map: `MapEntities` implements its `PointSpec`, so what is shown of the
  point alone holds in the map.
* `UpdateFiles` holds the decisions of `ValidateUpdateFiles`: which files an update replaces
  and about which it asks. `UpdateInstaller` is the protocol around them: `CUpdateChecker`,
  `CHttpClient` with its worker, `CUpdateInstaller` on the main thread, its async task, the
  disk, the user, and crashes.
* `MC...` modules add the symmetry sets and the concrete maps, releases and metadata for TLC.
* `..._proofs` modules hold the theorems: about rounds, selection, broadcasts, map, updater.

Definitions named `Mut...` are wrong variants of the definition that follows them; nothing
uses them. Each run's property is known to fail when one is put in place.

### Correspondence and abstractions

* **Time.** A deadline `m_fl... = gpGlobals->time + d` is membership in `timers`; `Elapse`
  ends any of them at any moment, so every order of deadlines is covered, including those
  the source's delays exclude. `RoundJustBegun` is the 20 seconds for late joiners.
* **Frames.** A frame that changes nothing that is modelled is a stuttering step.
* **Players.** `dead` is `deadflag # DEAD_NO`, `observer` is `iuser1 # 0`; the observer
  camera modes, health, items and models are left out. A death has a reason only as far as
  the lives tell reasons apart (`costsALife`).
* **Free slots.** Fields of a slot without a client have fixed values; the engine gives a
  new client a fresh entity. What outlives a client on the server side (volunteers, the list
  of those who left, the list of earlier zombies) is kept.
* **Volunteers.** A set of slots in `RoundFlow`, where only membership matters; how often a
  slot is in the list is `ZombieSelection`'s. After the pick the list is not read again
  before it is cleared, so it is empty in the models from there on.
* **Verdict.** `m_bHasPlayersReachedEnd` is omitted: no caller sets it in this code.
* **Hardcore** derives from survival and differs, in what is modelled, by the constants
  `ZombieLives` and `MaxStartLives`.
* **Test mode** (`sv_testmode`, the dev_ commands) is off, the Dev mode is not modelled.
* **End of a map.** After intermission or a crash the model stops (`Intermission`); a new
  map starts in `Init`.

In the other modules:

* **Broadcasts.** The messages are `MSG_ALL`, reliable and in order, so one client, `Viewer`,
  stands for all. A scoreboard line is a team's name (`TeamInfo`) and its number
  (`ScoreInfo`), which the client stores apart; points and deaths are left out. Where an
  entry's text is formed when it is sent, the model reads the player's state then. A reset
  may come in any `Think`, and players act between any two steps of one, a superset of
  what `RoundFlow` lets happen. `MaxPending` bounds only how much players add while much is
  waiting; that the queue is bounded without it is `TypeOK`.
* **Map.** Time goes in ticks, a deadline is what is left until then; `Frame` is the longest
  frame, so a think comes up to `Frame - 1` late. The real delays in ticks of 0.05 s (2 s,
  0.15 s, 0.1 s, 1 s) satisfy `CapturePointAssumption`. What a map does by itself (uses,
  scripts, objectives it sets) is a constant. Objectives in progress and not yet begun
  differ in a colour only, both are "open". `RoundBegins` waits until
  what the last round scheduled has run: `mp_startdelay` (8 s) is longer than the second of
  `CallNewObjective`. The beacon's key "showhealth" is off. A client who leaves keeps the
  text he has: it is in statics of `CObjectiveText` that nothing clears, while
  `CZPBeacons::VidInit` clears the beacons. The history variable `heard` says whether he has
  been told a text since he connected. A text of another map is not told apart from none.
* **Updater.** A file's content is the release that last changed it, `Edited` or `Torn`,
  since hashes tell no more. A transfer has two parts, so that it can be interrupted and
  mixed with another. The task, the worker and the main thread interleave at every access to
  what they share: the flags, the queues, the archive, the lists of files. The loops that
  wait (in `CancelInstallation`, the two in `Shutdown`, the destructor of the task's result)
  are values of `main` that let only their condition through. `Publish`, `EditFile` and
  `Crash` are the world;
  `FilesAssumption` says that no release takes a file away. `USE_UPDATER` is a build option,
  on here. A library that is being replaced is away, or there in part, until its copy ends.
  Once an installation is `mixed` (below), three things are left out: a second extraction
  beside the first, a replace dialog that stays open when its update has ended, and whatever
  two tasks do to each other. Of the two commands that an installation disables the model has
  `quit`; `_restart` never comes back (`EnableExitCommands` asks for
  `!m_fnEngineRestartCmd`, `client/engine_patches.cpp:130`). Two branches are dead and left out: the abort branch of the download's response
  callback (the flag is reset before it), and `CancelInstallation` while installing, for
  which no dialog has a button.

## Runs

| Run | Question | Bounds |
| --- | --- | --- |
| survival | lock, leftovers of a round, late joiners, phases | 2 slots, 2 rounds, lives 1..3, symmetry |
| objective | escapes, and who else watches; rounds start, end and follow one another | 2 slots, 2 rounds, round time on |
| zombies | a round gets its zombies; out of lives is out | 2 slots, 1 round, no round time, lives 0..2 |
| draft | finding: the draft from an empty list | 2 slots |
| spectator | finding: the draft of a spectator | 2 slots, objective |
| nolives | finding: a zombie without lives | 3 slots, so that a survivor keeps the round undecided; symmetry |
| selection | the pick ends, and why; keeps its quota; its memory is bounded; it is `OnePick` | 3 slots, 3 persons, one entry per slot, a zombie per 2 survivors |
| stale | finding: a pick from stale volunteers | the same |
| broadcasts | the scoreboards are right once the queue is empty; what is queued is sent, and in its turn | 2 slots, 2 broadcasts a frame, players add up to 2 waiting |
| mapentities | pace, contest and look of a capture; targets and texts of objectives | 2 survivors at the point, 2 objectives, delays 3/2/1, one step captures |
| updater | which task, files and consent; who cleans up when; nothing stale; an end to everything | 2 files, 2 releases, 2 updates, 2 launches, 1 edit |
| cancel | finding: a cancel that never ends | 1 file, 1 release, 1 update, 1 launch, no edits |

Two slots suffice for the interactions of `RoundFlow`: two survivors start a round, one
becomes the zombie, slots change hands, and every pair of handlers interleaves; two rounds
show what one leaves to the next. The theorems remove the bound for safety. The selection
needs three slots for a second zombie, and three persons for a slot to pass to somebody
new while an earlier zombie is away. `SurvivorsPerZombie` is 6 in the source and 2 in the
runs, so that the quota is reached. `MaxOffers` bounds how often a client repeats
`joingame volunteer` while it waits.

`broadcasts` needs a second slot for news about somebody else than the viewer, and a ration
below what one reset queues, so that a reset is spread over frames; the source's four per
frame reach the same orders with more slots. One playing team is enough, as a line is right
or wrong whatever the side; the theorems have no bound. In `mapentities` the objectives
follow each other, the first one's end switches the point on, the point's capture ends the
second; the map also ends the first by itself, switches the point off, and its script sets the
progress. Two survivors are what a second entry of the point's list takes, and an entry behind
an erased one. No objective fails in the run; the theorems take any successors and
alternatives. A capture of two steps and slower frames were explored for the point alone, and
for the map in an earlier version without rounds called off (frames of two ticks: 11.3 million
states), with the same results. In `updater` the second launch shows what a crash left to the next start,
the second update what the first one left in the HTTP client and on disk; one file is a
platform file, the other is new in the first release and changed in the second. The game
may stay off, so `updater` and `cancel` do not check for deadlock.

**Fairness.** `WF(Think)`: the engine runs the frame loop, and every disjunct of `Think` is
what a frame does in a given state. `WF(Elapse(t))`: time passes. `WF(Pass)` in
`ZombieSelection`: the loop is code within one frame. `WF(Think)` in `Broadcasts`: the frame
loop. `WF(ObjectiveThink(o))`: the engine runs a think that is due. `WF(Responses)`,
`WF(Frame)`, `WF(Task)` in `UpdateInstaller`: every frame runs `CHttpClient::RunFrame` and
`CUpdateInstaller::RunFrame`, and the operating system runs the task's thread. The network
and clients have no fairness: nothing must arrive, nobody must join, leave, or act.

**What the runs show.** All properties of the seven passing runs hold, with the mutant of
each found. The five others are disagreements of the code with its comments; each run's
trace is the scenario, `PROJECT.json` quotes the comment:

1. `CheckZombieAmount` reads an element of an empty vector when a running round has neither
   zombies nor survivors. As `m_bAllSurvivorsDead` ends such a round with the next frame, the
   check must fall due in the very frame that first finds the teams empty: the zombie has
   left, the last survivor leaves just then.
2. The draft may hit a survivor who escaped: a zombie by team who goes on spectating, so the
   round has no zombie that plays, and the check, which counts teams, is content.
3. Leaving the welcome cam by the attack button avoids the check for lives in `joingame`.
4. If the first volunteer drawn has left, the pick ends without a zombie.
5. `CancelInstallation` sets the abort flag and spins until it is reset. If the task has
   ended already, and `RunFrame` has not noticed yet, nobody resets it: the game hangs.
   `Shutdown` has the same loop. A cancel or a shutdown that the task can still hear ends
   (`AbortAnswered`).

`OutOfLivesStaysOut` is conditional: without its premise TLC finds, with three slots, that a
stale volunteer entry makes a zombie of a client in the welcome cam, who dies, runs out of
lives and is spawned again by the attack button. The premise is exactly that no volunteer
entry names a client in the cam.

Other properties have an exception too, a history variable that TLC shows to be needed:

* `BoardAgrees` excepts `overtaken`: an entry of a player waits in the queue when a reset
  comes, he joins a team before it is sent, the new entry merges into the old one, and the
  clients hear the new team first and the reset, which clears all teams, second.
* `TaskHasItsUpdate`, `TaskOverWhenAnswered` and `QuitLockedWhileInstalling` except `mixed`: a
  cancelled download is still with the HTTP client when the next update starts; its response
  then ends, or feeds, an update it does not belong to, and its write callback takes the
  request to abort, meant for the task, for its own: the main thread goes on to clean up
  while the task still works.
* `NoStaleFile` excepts `brokenOff`: an installation copies the metadata first; if it breaks
  off after that, the next one takes the files not reached for unchanged by the release,
  leaves them old, and reports success.
* `DrawnAsItIs` excepts `missed`: what a map does to the beacon itself before the round
  begins is not told to who joins late.
* `TextAsShown` excepts who has not been told a text since he connected (`~heard`), if the
  first objective was over before the round began: the beginning then shows it no more, late
  joiners are told of what is saved, but who joined before the round is not. He reads
  nothing, or the text that he left with at an earlier time, which may be neither the one
  saved nor one of this round.

Two more are narrower than one might wish. `ZombiesHoldItUp` does not count a zombie's touch
that ends the check for zombies, which the code takes for anybody's; a survivor's touch in the
same frame is then a step. `FiresForItsEnd` does not speak of the time before a round begins:
a call left over from the last round then still fires its target, which may switch the point on.

`PaceIsOne` settles a question about `OnCaptureThink`: several survivors never speed a capture
up, as the list never holds two of them nor anybody by the time of the next step. That is
also why erasing from that list while walking through it does no harm.

## Proofs

`RoundFlow_proofs` is checked from nothing in under a minute. From `ConstantsAssumption`
(finitely many slots, at most MAX_ZOMBIE_LIVES of them, lives to start with, no assumption
on the round limit) it proves, for any number of slots and rounds and both modes:

| Theorem | Property |
| --- | --- |
| TypeCorrect | `TypeOK` |
| FlagsAreRoundScoped | `RoundScopedFlags` |
| LockMatchesRound | `RoundLockMatchesRound` |
| LateJoinersAreZombies | `NoLateSurvivors` |
| EscapeIsFinal | `EscapedWatches` |
| OnlyEscapesMissOut | `OnlyTheEscapedMissOut` |
| NoLifeAfterTheLast | `OutOfLivesStaysOut` |
| RoundFlowImplementsPhases | `RoundsFollowPhases` |
| RoundTakesOnePick | `ThePick!PickSpec`: the round's pick is `OnePick` |
| RoundSendsSignals | `Signals!SignalSpec`: the round sends what `RoundSignals` has |

None of the properties is inductive alone. The chain is: `TypeOK`; `FreeSlots` (a free slot
holds nothing), because disconnecting must not leave flags behind; `RoundFlags`, which ties
`restarting`, `hasPicked`, `lives` and the flags of players to the phase of the round, as a
verdict can only be reset from RoundIsOver; then the lock on top of both, `CamIsNotPlay` (no
survivor is in the welcome cam, so leaving it makes none) for the late joiners,
`EscapedStaysOut` (an escaped player is on a team and not in the cam, which keeps every
command out), and `LivesRunOut` under the premise on volunteers. Each step lemma has one
case per action. `WatchersEscaped` (a survivor who watches has escaped) makes
`OnlyTheEscapedMissOut` of it: an escape, finding 2's, is the only way to become a zombie
without a body. The first refinement uses `RoundFlags` to show that each `Think` step is the
abstract step of its phase.

`ZombieSelection_proofs`, from `SelectionAssumption` (finitely many slots, more than one
survivor per zombie, at least one entry per slot), for any number of slots and persons:

| Theorem | Property |
| --- | --- |
| QuotaAlwaysCovered | `QuotaIsCovered` |
| ListAlwaysShort | `ListIsShort` |
| SelectionTypeCorrect | `TypeOK` |
| LoopAlwaysRunsDown | `LoopRunsDown` |
| PickAlwaysOneStep | `PickIsOneStep`: the loop implements `OnePick` |

`SelectionInv` adds `RoomForMore` to them: the list of earlier zombies is shorter than the
slots before a pick, and during one it is short enough for the zombies still required.
Only then does an addition keep the list within its type, as the pick adds
to it and only `ResetVolunteers`, between rounds, or the second try empties it. The rest is arithmetic:
the number required is taken from a count of survivors, and each draw takes one away from
both; `SurvivorsPerZombie > 1` keeps the quota covered.

`LoopRunsDown` is the variant of the loop, read lexicographically: a pass that another one
follows uses up the second try, or a living survivor, or an entry of somebody else; with only
survivors left in the list, filled again or not, the next pass must take one (`PassRunsDown`).
That is the part of `PickEnds` that can be proved; that a pass happens at all is fairness.

`PickInv` carries the loop to `OnePick`. Before the first zombie (`NoneDrawn`) nobody has
changed, and the list holds only entries that may be drawn first; after it (`DrawnAre`) there is
a first zombie and a set of others who account for every change since `start`, and together
with those still required they stay within the quota beside the first. `PickCarriesOver` moves
it over a pass that takes nobody, `PassTakesWhoMayBe` over any pass, and reads off the outcome
where the loop ends.

`Broadcasts_proofs`, from `BroadcastsAssumption`, for any number of slots, teams and
broadcasts per frame:

| Theorem | Property |
| --- | --- |
| TypeCorrect | `TypeOK`, with the queue free of duplicates |
| ScoreboardsAgree | `BoardAgrees` |
| NoneOvertakes | `KeepsItsPlace` |

`BoardAgrees` speaks of an empty queue; its invariant says what is still queued for every
line that is wrong. While a reset waits (`ResetTold`), whoever has a team or watches has an
entry *behind* it; once it is sent (`BoardTold`), every line is right or its entry is in the
queue. `ResetInv` covers the middle of `ResetRound`, whose loop over the players has not
told of all of them. The lemmas on the queue say that queueing keeps every entry and its
order, and that sending removes the first one only. `KeepsItsPlace` is what this comes to for
all actions: an entry at place n has n - 1 to wait for and no more, which is the safety half of
`EverySent`.

`MapEntities_proofs`, from `CapturePointAssumption`, `ObjectivesAssumption` and
`MapAssumption`, for any number of clients and objectives and all delays that fit together
as the source's do:

| Theorem | Property |
| --- | --- |
| PointInMap | `PointSpec`: the map implements the point alone |
| TypeCorrect | `TypeOK` |
| OnePace | `PaceIsOne` |
| ZombiesHold | `ZombiesHoldItUp` |
| BeaconIsDrawn | `DrawnAsItIs` |
| TargetsFireOnce | `FiresForItsEnd` |
| TextIsShown | `TextAsShown` |
| MoveIsAlwaysDue | `MoveIsDue` |
| MapFollowsSignals | `Signals!SignalSpec`: the map moves with `RoundSignals` |

The heart is `TimeInv` with `Held`: when somebody is on the list, the next step of the
capture is far enough away that the think takes him off before; it needs
`FirstThink + Frame <= Delay` and `Stay + Every + Frame - 1 <= Delay` of the constants.
`DrawnInv` relates the client's beacon to the server's through joining, the delayed word of
a reset and the beginning of a round (`NotStale`, `LitForAReason`). `ObjInv` says that what
has fired has ended and is not due again (`FiredOnce`), that what is due in a round has ended
in it (`CallsHaveEnded`), and that a client who has been told a text since he connected has
the last one (`ToldLast`).
`MoveIsDue` is inductive by itself and is the safety half of `TextMovesOn`: a text that is
over never waits for a call that nobody scheduled.

The two refinements of `RoundSignals` are what joins server and map: whatever order of
starts, ends and resets `RoundFlow` can produce is one for which the map's theorems hold.

`UpdateInstaller_proofs`, from `FilesAssumption` and `UpdaterAssumption`, for any files and
any number of releases, updates, launches and edits:

| Theorem | Property |
| --- | --- |
| TypeCorrect | `TypeOK` (and `StatusInv`) |
| TaskWorksForItsUpdate | `TaskHasItsUpdate` |
| QuitComesBack | `QuitLockedWhileInstalling` |
| AnswerEndsTask | `TaskOverWhenAnswered` |
| MetadataAlwaysLeads | `MetadataLeads` |
| EditsAreAskedAbout | `EditsNeedConsent` |
| NothingLeftBehind | `NoStaleFile` |

`StatusInv` is what the status says about the task, the archive and the lists, in every
loop. `OwnDownload`: unless `mixed`, the HTTP client has one download at most, and if an
update is in process it is downloading; so no response can end an update in a later
stage, and with `OwnTask` nobody cleans up under a task. `OwnTask` is the conjunction of the
three properties, none of which is inductive without the others. `ResponsesInv`, `BelowInv` and
`ReleaseInv` order the releases that are on disk, asked for, offered and in responses;
`ConsentInv` says that what is to be copied was not edited or is agreed to. `DiskInv` follows
the disk from hashing over the questions to the last copy: a file that is not to be copied
is already right for the release. Lemma `PlanIsRight` carries it: if a file was right for the
metadata known, and the plan leaves it or asks about it, it is right for the release, or
the user's doing. This is where `FilesAssumption` is used.

Only model-checked: the liveness properties (`PickEnds`, `NextRoundFollows`,
`StartingLeadsOn`, `RoundEnds`, `ZombiesAreFound`, `EverySent`, `TextMovesOn`,
`InstallationEnds`, `AbortAnswered`), as the prover has no rules for fairness and ENABLED.
Every safety property of a passing run is a theorem.

## Plan

1. *(done)* `RoundFlow`, `RoundPhases`, `ZombieSelection`; proofs of their safety properties.
2. *(done)* `Broadcasts`: the deferred queue against what clients know of teams.
3. *(done)* `CapturePoint`, `Objectives` and their composition `MapEntities`.
4. *(done)* `UpdateFiles`, `UpdateInstaller`: three threads and the disk.
5. `Inventory`: slots, weight and ammunition across pickup, drop, death and reset; the
   single action reload. Properties: nothing duplicated or lost between player and world.
   Theorem: weight and slot bounds.
6. Barricades: the script's `PlaceBarricade` does not reset `m_bIsDestroyed`, so what a
   rebuilt barricade does when it breaks again depends on the round's reset.

## Not modelled

* **API handshake** (`DoAPICallBack`, `ProcessAPICalls`). The service behind it is not in the
  repository, and its data meets no other state of this development. The slot that changes
  hands while a call is pending is listed as a hazard.
* **Script system.** Its delayed calls run code of a map's author; what they do to the
  entities here is in the constants `Scripted`, `MapSets` and `MapUses`.
* **Dev game mode, test mode.** No rounds or verdicts, for mappers and developers.
* **Player physics, damage amounts, weapons' recoil and spread.** Numeric, mostly inherited
  from the Half-Life SDK, without a protocol.
* **HUD and UI** beyond the scoreboard's teams, the beacon and the objective text: rendering.
* **Bots, Half-Life monsters, navigation.** Decisions, not protocol.
* **Vendored code** (`src/source_sdk`, the PNG and HTTP libraries, engine headers), which is
  most of the repository's lines.
