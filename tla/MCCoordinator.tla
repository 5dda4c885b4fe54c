--------------------------- MODULE MCCoordinator ---------------------------
(* Small instances of McCoordinator for TLC. *)
EXTENDS McCoordinator, TLC

MCCell == {2, 3}

\* In outage; out of outage, but not by the two dB asked for to leave LTE;
\* usable; better by more than the 3 dB of the threshold.
MCSinr == {-10, -4, 0, 5}
MCSinrCoarse == {-10, 0}
MCOutageThreshold == -5
MCSinrThresholdDifference == 3

\* The two time-to-trigger modes differ only in how long the event waits.
MCAllModes == {"DYNAMIC_TTT", "THRESHOLD", "NO_AUTOMATIC_HANDOVER"}
MCTttModes == {"FIXED_TTT"}
MCThreshold == {"THRESHOLD"}

UeSymmetry == Permutations(UE)
=============================================================================
