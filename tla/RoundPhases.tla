---------------------------- MODULE RoundPhases ----------------------------
(***************************************************************************)
(* What the round promises to everybody who follows it from outside (the   *)
(* clients' HUD, the map's entities, the scripts): a match is a sequence   *)
(* of numbered rounds, each of them prepared, run after exactly one pick   *)
(* of zombies, and judged; a judged round is followed by the next one, or  *)
(* by the end of the match once there were Limit of them.                  *)
(***************************************************************************)
EXTENDS Naturals

CONSTANT Limit   \* rounds of a match, 0 for no limit

VARIABLES phase, picked, round
phaseVars == <<phase, picked, round>>

PhaseInit == phase = "lobby" /\ picked = FALSE /\ round = 1

Begin ==
  /\ phase = "lobby" /\ ~picked
  /\ phase' = "underway" /\ picked' = TRUE /\ UNCHANGED round

\* A round may also be called off before it began
Verdict ==
  /\ phase \in {"lobby", "underway"}
  /\ phase' = "over" /\ UNCHANGED <<picked, round>>

NextRound ==
  /\ phase = "over" /\ (Limit = 0 \/ round < Limit)
  /\ phase' = "lobby" /\ picked' = FALSE /\ round' = round + 1

\* The round limit, the time limit of the map, or the death of the server
EndMatch ==
  /\ phase # "ended"
  /\ phase' = "ended" /\ picked' \in BOOLEAN /\ UNCHANGED round

PhaseNext == Begin \/ Verdict \/ NextRound \/ EndMatch

\* Nobody waits for ever for the round after a verdict
PhaseSpec == PhaseInit /\ [][PhaseNext]_phaseVars
Follows   == WF_phaseVars(phase = "over" /\ (NextRound \/ EndMatch))
=============================================================================
