------------------------ MODULE MCSecondaryHandover ------------------------
(***************************************************************************)
(* SecondaryHandover on small instances: cells 2, 3 and 4 around the       *)
(* coordinator, cell 1.                                                    *)
(***************************************************************************)
EXTENDS HandoverPhases, TLC

UeSymmetry == Permutations(UE)
=============================================================================
