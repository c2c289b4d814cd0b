---------------------------- MODULE MCReminders ----------------------------
(* Overlapping executions of the sweep are interchangeable. *)
EXTENDS Reminders, TLC

Symmetry == Permutations(Ticks)
=============================================================================
