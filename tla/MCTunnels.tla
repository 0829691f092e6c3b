----------------------------- MODULE MCTunnels -----------------------------
(***************************************************************************)
(* Tunnels and Handover, each with its own small instance, side by side:   *)
(* rules start, stop and are retried, or a tab moves between windows. The  *)
(* slots of starts and of retry loops are interchangeable.                 *)
(***************************************************************************)
EXTENDS Tunnels, Handover, TLC

Symmetry == Permutations(Starts) \cup Permutations(Loops)

BesideInit == Init /\ HandoverInit
BesideNext ==
    \/ HandoverInit /\ Next /\ UNCHANGED hvars
    \/ Init /\ HandoverNext /\ UNCHANGED vars
BesideSpec == BesideInit /\ [][BesideNext]_<<vars, hvars>>
============================================================================
