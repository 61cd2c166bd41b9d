-------------------------- MODULE MCKeyRotation --------------------------
(***************************************************************************)
(* Instances of KeyRotation for TLC.  The two pages are not symmetric      *)
(* (Initiators, Peer), so no symmetry is declared.                         *)
(***************************************************************************)
EXTENDS KeyRotation, TLC

\* One side presses "Update key", or both do.
OneInitiator == {Alice}
BothInitiate == {Alice, Bob}
=============================================================================
