-------------------------- MODULE MCSecretRotation --------------------------
(***************************************************************************)
(* Values of the constants of SecretRotation for TLC: a prepare and a      *)
(* commit nonce for each rotation.                                         *)
(***************************************************************************)
EXTENDS SecretRotation, TLC

RotationNonces == Rotations \X {"prepare", "commit"}

Symmetry == Permutations(Streams) \cup Permutations(Rotations)
=============================================================================
