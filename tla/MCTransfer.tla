----------------------------- MODULE MCTransfer -----------------------------
(***************************************************************************)
(* Transfer and Files, each with its own small instance, side by side: a   *)
(* tree is copied file by file, or the panel does one of its other things. *)
(* A source has two chunks, and rewritten the same first and another       *)
(* second, or only the first.                                              *)
(***************************************************************************)
EXTENDS Transfer, Files

MCContents == {<<1, 1>>, <<1, 2>>}
MCOld == <<0>>
MCBegun == <<1>>

Idle == Init /\ kept = {} /\ \A f \in 1..NumFiles : real[f][Wanted] = None
Untouched == FilesInit /\ scene = "delete" /\ there = Nodes

(* Interchangeable: the two second chunks, the two names of the trees that *)
(* are compared, and under each name the two contents of one size.         *)
Sorted == /\ \A f \in 1..NumFiles : src[f] = <<1, 1>>
          /\ trees["left"][1] <= trees["left"][2]
          /\ \A n \in TreeNames : \/ trees["left"][n] = 1
                                  \/ 2 \notin {trees["left"][n], trees["right"][n]}

BesideInit == Init /\ FilesInit /\ (Idle \/ Untouched) /\ Sorted
BesideNext ==
    \/ Untouched /\ Next /\ UNCHANGED fvars
    \/ Idle /\ FilesNext /\ UNCHANGED vars
BesideSpec == BesideInit /\ [][BesideNext]_<<vars, fvars>> /\ WF_vars(Step)
============================================================================
