----------------------------- MODULE MCAccount -----------------------------
(* Devices, emails and slots are interchangeable, and the run checks
   invariants only. *)
EXTENDS Account, TLC

Symmetry == Permutations(Devices) \cup Permutations(Emails) \cup Permutations(Slots)
=============================================================================
