------------------------------- MODULE MCWays -------------------------------
(* Keystore and Vault, each with its own small instance, side by side: the *)
(* ways in to the key move while the vault rests, or the vault's document  *)
(* moves while nothing was ever set up.                                    *)
EXTENDS Keystore, Vault

AtRest == Init /\ ks = Absent /\ ring = NoKeyring

BesideInit == Init /\ VaultInit /\ (disk = {} \/ AtRest)
BesideNext ==
    \/ VaultInit /\ disk = {} /\ Next /\ UNCHANGED vvars
    \/ AtRest /\ VaultNext /\ UNCHANGED vars
BesideSpec == BesideInit /\ [][BesideNext]_<<vars, vvars>>
=============================================================================
