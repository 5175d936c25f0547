------------------------ MODULE MCLedgerProcessing ------------------------
(* Instances of LedgerProcessing for TLC. *)
EXTENDS LedgerProcessing, TLC

\* Slots only compare equal or not, so they are interchangeable.
SlotSymmetry == Permutations(Slots)
===========================================================================
