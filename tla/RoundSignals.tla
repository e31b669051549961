---------------------------- MODULE RoundSignals ----------------------------
(***************************************************************************)
(* What the entities of a map are told of the rounds: that one begins      *)
(* (OnGameModeRoundStart), that it is over, which may come first, and that *)
(* the map is put back for the next (CleanUpMap).  RoundFlow sends these,  *)
(* CapturePoint and MapEntities live by them.                              *)
(***************************************************************************)
VARIABLE signal

Begin == signal = "waiting" /\ signal' = "begun"
Over  == signal \in {"waiting", "begun"} /\ signal' = "over"
Reset == signal = "over" /\ signal' = "waiting"

SignalSpec == signal = "waiting" /\ [][Begin \/ Over \/ Reset]_signal
=============================================================================
