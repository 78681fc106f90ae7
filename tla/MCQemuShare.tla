---------------------------- MODULE MCQemuShare ----------------------------
(* Model-checking instances of QemuShare: small sets of names and programs. *)
EXTENDS QemuShare, TLC

Symmetry == Permutations(Names) \cup Permutations(Programs)
=============================================================================
