-------------------------- MODULE MCUpdateInstaller --------------------------
(* The updater with a library and a map, which the first release adds and the second
   changes. *)
EXTENDS UpdateInstaller

MCMetadata ==
  [v \in 0 .. Releases |-> [f \in Files |-> IF v = 0 /\ f # Library THEN NoHash ELSE v]]
=============================================================================
