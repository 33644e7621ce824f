----------------------------- MODULE MCGateway ------------------------------
(* An instance of the gateway for TLC.  Addresses are interchangeable.     *)
EXTENDS Gateway, TLC

AddressSymmetry == Permutations(Keys)
=============================================================================
