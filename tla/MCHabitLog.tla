----------------------------- MODULE MCHabitLog -----------------------------
(* Values for the constants of HabitLog.                                       *)
EXTENDS HabitLog, TLC

OneAndTwo == {1, 2}
ClientSymmetry == Permutations(Clients)

=============================================================================
