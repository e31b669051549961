---------------------------- MODULE MCBroadcasts ----------------------------
(* Two players, the viewer among them, and two broadcasts in a frame *)
EXTENDS Broadcasts
=============================================================================
