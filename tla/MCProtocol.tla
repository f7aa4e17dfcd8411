----------------------------- MODULE MCProtocol -----------------------------
(* A small instance of Protocol for TLC. *)
EXTENDS Protocol, TLC

CredentialSymmetry == Permutations(Credentials)
=============================================================================
